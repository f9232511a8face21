--------------------------- MODULE MCPaperTrading ---------------------------
(* Small instances of PaperTrading for TLC. *)
EXTENDS PaperTrading, TLC

(* Handler slots, users and symbols are interchangeable in safety runs. *)
SlotSymmetry == Permutations(Requests)
FullSymmetry == Permutations(Requests) \cup Permutations(Users) \cup Permutations(Symbols)
=============================================================================
