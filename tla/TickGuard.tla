------------------------------ MODULE TickGuard ------------------------------
(***************************************************************************)
(* How the useMarket hook (frontend/src/hooks/useMarket.js) merges a price *)
(* into what it has: a jump of more than 35% keeps the previous price.     *)
(***************************************************************************)
EXTENDS Integers

NoPrice == 0

Apart(p, q) == IF p > q THEN p - q ELSE q - p

Jump(old, new) == Apart(new, old) * 100 > 35 * old
FirstRefused(old, new) == IF Jump(old, new) THEN old ELSE new  \* mutant: none is a price too
Merged(old, new) == IF old # NoPrice /\ Jump(old, new) THEN old ELSE new
=============================================================================
