---------------------------- MODULE LatestAnswer ----------------------------
(***************************************************************************)
(* What a page that asks for a computation promises: it shows nothing, or  *)
(* that the computation failed, or the answer to what it asked last.       *)
(***************************************************************************)
CONSTANTS Requests,  \* what can be asked for
          None,      \* the answer is still out
          Failed     \* the answer was an error

VARIABLES asked,  \* the last request
          shown   \* what the page shows

vars == <<asked, shown>>

Init == asked \in Requests /\ shown = None

Ask(r) == asked' = r /\ shown' = None

Land ==
  /\ shown = None
  /\ shown' \in {asked, Failed}
  /\ UNCHANGED asked

Next == Land \/ \E r \in Requests : Ask(r)

Spec == Init /\ [][Next]_vars
=============================================================================
