--------------------------- MODULE MCAuthSessions ---------------------------
(* A browser with one or two tabs, and one or two API calls in the first. *)
EXTENDS AuthSessions, TLC

CONSTANTS t1, t2, c1, c2

OneCall == c1 :> t1
TwoCalls == c1 :> t1 @@ c2 :> t1
Slots == Permutations(Exchanges)
=============================================================================
