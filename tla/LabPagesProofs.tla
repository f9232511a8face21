--------------------------- MODULE LabPagesProofs ---------------------------
(***************************************************************************)
(* Proofs about the pages of the quant lab.  The state of the terminal     *)
(* falls into parts that hardly touch each other: the requests of the page,*)
(* the replay of a simulation, the spinning surface, the toggles and the   *)
(* overlay.  Each part has an inductive invariant of its own; first comes  *)
(* what an action can do to the part, then that all of it keeps the        *)
(* invariant.                                                              *)
(***************************************************************************)
EXTENDS LabPages, SequenceTheorems, FiniteSetTheorems, WellFoundedInduction, TLAPS

-----------------------------------------------------------------------------
(* The inductive invariant. *)

(* Until two overlays have been open at once, the one that is open has     *)
(* saved the style u the page had before it.                               *)
ModalOK(m, u) ==
  /\ m = [saved |-> m.saved, overflow |-> m.overflow, stacked |-> m.stacked]
  /\ m.stacked \in BOOLEAN
  /\ ~m.stacked =>
       /\ \A x, y \in Open(m) : x = y
       /\ \A x \in Open(m) : m.saved[x] = u
       /\ m.overflow = (IF Open(m) = {} THEN u ELSE "hidden")
ModalInv == ModalOK(modal, "")

Panels == [view : {"3d", "heat"}, spin : BOOLEAN, surf : {"current", "forecast"}]
PanelInv == panel \in Panels

(* The component can cancel every tick there is; the one that draws is the *)
(* one of its run; and what lastStat remembers is what the state holds, or *)
(* nothing.                                                                *)
Sims == [run : Nat, on : BOOLEAN, frames : SUBSET Nat, raf : Nat, first : BOOLEAN,
         prog : 0..LastFrame, running : BOOLEAN, drawn : 0..LastFrame, count : Nat,
         last : Nat \cup {NoCount}]
SimOK(s) ==
  /\ s \in Sims
  /\ s.frames \subseteq {s.raf}
  /\ ~s.on => s.frames = {}
  /\ s.on => /\ s.frames = (IF s.running THEN {s.run} ELSE {})
             /\ s.count = DrawPaths(s.drawn)
             /\ s.last \in {NoCount, s.count}
             /\ ~s.running => s.prog = LastFrame /\ s.drawn = LastFrame
SimInv == SimOK(sim)

(* The same of the loop that spins a surface: there is a frame pending if  *)
(* the component can cancel one, that one and of the last surface.         *)
Surfaces == {None} \cup (Inputs \X {"iv", "current", "forecast"})
Orbs == [on : BOOLEAN, iv : Surfaces, spin : BOOLEAN, drag : BOOLEAN,
         loops : Seq(Surfaces), held : BOOLEAN, drawn : Surfaces]
OneLoop(o, iv) == o.loops = (IF o.held THEN <<iv>> ELSE <<>>)
OrbOK(o) ==
  /\ o \in Orbs
  /\ OneLoop(o, o.iv)
  /\ ~o.on => ~o.held
  /\ o.on => o.drawn = o.iv
  /\ o.on /\ o.spin /\ ~o.drag => o.held
OrbInv == OrbOK(orb)

(* The requests.  Every one of them was an edit or the mount, and so will  *)
(* be the one a timer is running for.                                      *)
Calls == [of : Inputs, mounted : BOOLEAN]
Statuses == {"error", "insufficient_data", "success", "need_two_symbols"}
AskInv ==
  /\ page \in LabRoutes \cup {"dashboard"}
  /\ form \in Inputs
  /\ due \in Inputs \cup {None} /\ (due # None => page \in Debounced)
  /\ asked \in Inputs \cup {None}
  /\ calls \in Seq(Calls)
  /\ data # None => data.of \in Inputs /\ data.status \in Statuses
  /\ loading \in BOOLEAN /\ overtaken \in BOOLEAN
  /\ edits \in 0..MaxEdits
  /\ Len(calls) + (IF due = None THEN 0 ELSE 1) <= edits + 1

(* A page that drops answers awaits its last request or none: then the     *)
(* answer it holds is that of the last.                                    *)
GuardedInv ==
  page \in Guarded =>
    /\ asked \in Inputs
    /\ \A k \in 1..Len(calls) : calls[k].mounted <=> (loading /\ k = Len(calls))
    /\ loading => calls # <<>> /\ calls[Len(calls)].of = asked
    /\ ~loading => data.of = asked

(* A page that does not: until its last answer is overtaken, the last      *)
(* request in flight is the newest.                                        *)
UnguardedInv ==
  page \in (AtOnce \cup Debounced) \ Guarded =>
    /\ due = None /\ calls = <<>> => ~loading
    /\ ~overtaken /\ calls # <<>> => calls[Len(calls)].of = asked
    /\ ~overtaken /\ calls = <<>> => data = None \/ data.of = asked

RequestInv == AskInv /\ GuardedInv /\ UnguardedInv /\ LastEditIsAsked

LabInv == ModalInv /\ PanelInv /\ SimInv /\ OrbInv /\ RequestInv

-----------------------------------------------------------------------------
(* The overlays. *)

(* Whatever style the page had: the first overlay saves it, ...            *)
LEMMA OpenKeeps ==
  ASSUME NEW u, NEW m, ModalOK(m, u), NEW x
  PROVE  ModalOK(ModalOpens(m, x), u)
<1> DEFINE k == ModalOpens(m, x)
           saved == [y \in Open(m) \cup {x} |-> IF y = x THEN m.overflow ELSE m.saved[y]]
           two == m.stacked \/ Open(m) # {}
<1>1. k = [saved |-> saved, overflow |-> "hidden", stacked |-> two]
  BY DEF ModalOpens
<1> HIDE DEF k
<1>2. k.saved = saved /\ k.overflow = "hidden" /\ k.stacked = two /\ k.stacked \in BOOLEAN
  BY <1>1
<1>3. ASSUME ~k.stacked
      PROVE  /\ Open(k) = {x} /\ k.saved[x] = u
  <2>1. ~m.stacked /\ Open(m) = {}
    BY <1>2, <1>3
  <2>2. m.overflow = u
    BY <2>1 DEF ModalOK
  <2>3. Open(k) = {x}
    BY <1>2, <2>1 DEF Open
  <2> QED
    BY <1>2, <2>2, <2>3
<1>4. ~k.stacked => /\ \A y, z \in Open(k) : y = z
                    /\ \A y \in Open(k) : k.saved[y] = u
                    /\ k.overflow = IF Open(k) = {} THEN u ELSE "hidden"
  BY <1>2, <1>3
<1>5. ModalOK(k, u)
  BY <1>1, <1>2, <1>4 DEF ModalOK
<1> QED
  BY <1>5 DEF k

(* ... its cleanup puts it back, ...                                       *)
LEMMA CloseKeeps ==
  ASSUME NEW u, NEW m, ModalOK(m, u), NEW xs \in SUBSET Open(m), NEW k \in ModalCloses(m, xs)
  PROVE  ModalOK(k, u)
<1> DEFINE rest == Restrict(m.saved, Open(m) \ xs)
<1>1. PICK style \in Restored(m, xs) : k = [m EXCEPT !.saved = rest, !.overflow = style]
  BY DEF ModalCloses
<1>2. k = [saved |-> rest, overflow |-> style, stacked |-> m.stacked]
  BY <1>1 DEF ModalOK
<1>3. /\ k.saved = rest /\ k.overflow = style /\ k.stacked = m.stacked /\ m.stacked \in BOOLEAN
      /\ Open(k) = Open(m) \ xs
  <2>1. k.saved = rest /\ k.overflow = style /\ k.stacked = m.stacked /\ m.stacked \in BOOLEAN
    BY <1>2 DEF ModalOK
  <2>2. DOMAIN rest = Open(m) \ xs
    BY DEF Restrict
  <2> QED
    BY <2>1, <2>2 DEF Open
<1>4. ASSUME ~m.stacked
      PROVE  /\ \A y, z \in Open(k) : y = z
             /\ \A y \in Open(k) : k.saved[y] = u
             /\ k.overflow = IF Open(k) = {} THEN u ELSE "hidden"
  <2>1. /\ \A y, z \in Open(m) : y = z
        /\ \A y \in Open(m) : m.saved[y] = u
        /\ m.overflow = IF Open(m) = {} THEN u ELSE "hidden"
    BY <1>4 DEF ModalOK
  <2>2. CASE xs = {}
    <3>1. Open(k) = Open(m) /\ k.overflow = m.overflow
      BY <1>1, <1>3, <2>2 DEF Restored
    <3>2. \A y \in Open(k) : k.saved[y] = m.saved[y]
      BY <1>3, <2>2 DEF Restrict
    <3> QED
      BY <2>1, <3>1, <3>2
  <2>3. CASE xs # {}
    <3>1. Open(k) = {}
      BY <1>3, <2>1, <2>3
    <3>2. k.overflow = u
      BY <1>1, <1>3, <2>1, <2>3 DEF Restored
    <3> QED
      BY <3>1, <3>2
  <2> QED
    BY <2>2, <2>3
<1> QED
  BY <1>2, <1>3, <1>4 DEF ModalOK

(* ... and a render does both, or the cleanup only.                        *)
LEMMA RerunKeeps ==
  ASSUME NEW u, NEW m, ModalOK(m, u), NEW gone, NEW k \in ModalRendered(m, gone)
  PROVE  ModalOK(k, u)
<1> DEFINE rest == Open(m) \ gone
<1>1. CASE rest = {}
  <2>1. k \in ModalCloses(m, Open(m))
    BY <1>1 DEF ModalRendered
  <2> QED
    BY <2>1, CloseKeeps
<1>2. CASE rest # {}
  <2>1. PICK style \in Restored(m, Open(m)), first \in rest :
          k = [m EXCEPT !.saved = [x \in rest |-> IF x = first THEN style ELSE "hidden"],
                        !.overflow = "hidden"]
    <3>1. PICK style \in Restored(m, Open(m)) : k \in Locked(m, rest, style)
      BY <1>2 DEF ModalRendered
    <3> QED
      BY <3>1 DEF Locked
  <2> DEFINE again == [x \in rest |-> IF x = first THEN style ELSE "hidden"]
  <2>2. k = [saved |-> again, overflow |-> "hidden", stacked |-> m.stacked]
    BY <2>1 DEF ModalOK
  <2>3. /\ k.saved = again /\ k.overflow = "hidden" /\ k.stacked = m.stacked
        /\ m.stacked \in BOOLEAN /\ Open(k) = rest
    BY <2>2 DEF ModalOK, Open
  <2>4. ASSUME ~m.stacked
        PROVE  /\ \A y, z \in Open(k) : y = z
               /\ \A y \in Open(k) : k.saved[y] = u
               /\ k.overflow = IF Open(k) = {} THEN u ELSE "hidden"
    <3>1. (\A y, z \in Open(m) : y = z) /\ (\A y \in Open(m) : m.saved[y] = u)
      BY <2>4 DEF ModalOK
    <3>2. style = u
      BY <1>2, <2>1, <3>1 DEF Restored
    <3>3. \A y \in rest : y = first
      BY <2>1, <3>1
    <3>4. \A y \in Open(k) : k.saved[y] = u
      BY <2>3, <3>2, <3>3
    <3>5. \A y, z \in Open(k) : y = z
      BY <2>3, <3>1
    <3>6. Open(k) # {}
      BY <1>2, <2>3
    <3> QED
      BY <2>3, <3>4, <3>5, <3>6
  <2> QED
    BY <2>2, <2>3, <2>4 DEF ModalOK
<1> QED
  BY <1>1, <1>2

LEMMA StyleTells ==
  ASSUME NEW u, NEW m, ModalOK(m, u), u # "hidden", ~m.stacked
  PROVE  m.overflow = "hidden" <=> Open(m) # {}
  BY DEF ModalOK

LEMMA StyleBefore ==
  ASSUME NEW u, NEW none
  PROVE  ModalOK([saved |-> [x \in {} |-> none], overflow |-> u, stacked |-> FALSE], u)
  BY DEF ModalOK, Open

LEMMA ModalStep == ModalInv /\ [Next]_vars => ModalInv'
<1> SUFFICES ASSUME ModalInv, [Next]_vars PROVE ModalInv'
  OBVIOUS
<1>a. ModalOK(modal, "")
  BY Zenon DEF ModalInv
<1>b. ASSUME ModalOK(modal', "") PROVE ModalInv'
  BY <1>b DEF ModalInv
<1>1. ASSUME modal' = modal PROVE ModalInv'
  BY <1>a, <1>b, <1>1, Zenon
<1>2. ASSUME NEW gone, modal' \in ModalRendered(modal, gone) PROVE ModalInv'
  <2>1. ModalOK(modal', "")
    BY <1>a, <1>2, RerunKeeps, Zenon
  <2> QED
    BY <1>b, <2>1
<1>3. ASSUME NEW x, modal' = ModalOpens(modal, x) PROVE ModalInv'
  <2>1. ModalOK(ModalOpens(modal, x), "")
    BY <1>a, OpenKeeps, Zenon
  <2>2. ModalOK(modal', "")
    BY <1>3, <2>1, Zenon
  <2> QED
    BY <1>b, <2>2
<1>4. ASSUME NEW xs \in SUBSET Open(modal), modal' \in ModalCloses(modal, xs) PROVE ModalInv'
  <2>1. ModalOK(modal', "")
    BY <1>a, <1>4, CloseKeeps, Zenon
  <2> QED
    BY <1>b, <2>1
<1>r. ASSUME NEW d, NEW pn, Rendered(d, pn) PROVE ModalInv'
  BY <1>2, <1>r DEF Rendered
<1>5. ASSUME NEW i \in Inputs, RegimeEdit(i) \/ ChooseSymbol(i) \/ Edit(i) PROVE ModalInv'
  BY <1>5, <1>r DEF RegimeEdit, ChooseSymbol, Edit
<1>6. CASE Fill \/ OptimizerRun \/ OptionsRun \/ Analyze
  BY <1>6, <1>r DEF Fill, OptimizerRun, OptionsRun, Analyze
<1>7. CASE TimerFires \/ StatLands \/ Toggle
  BY <1>7, <1>r DEF TimerFires, StatLands, Toggle
<1>8. CASE AnswerLands
  BY <1>1, <1>8, <1>r DEF AnswerLands, Lands
<1>9. CASE OpenInfo
  BY <1>2, <1>3, <1>9 DEF OpenInfo, DeepDive, InfoButton
<1>10. CASE CloseInfo
  <2>1. PICK xs \in {{x} : x \in Open(modal)} \cup ({Open(modal)} \ {{}}) :
          modal' \in ModalCloses(modal, xs)
    BY <1>10 DEF CloseInfo
  <2>2. xs \in SUBSET Open(modal)
    OBVIOUS
  <2> QED
    BY <1>4, <2>1, <2>2
<1>11. CASE Animation
  BY <1>1, <1>11 DEF Animation, StillPage
<1>12. CASE Navigate
  BY <1>4, <1>12 DEF Navigate, LabMounts
<1>13. CASE UNCHANGED vars
  BY <1>1, <1>13 DEF vars, labVars
<1> QED
  BY <1>5, <1>6, <1>7, <1>8, <1>9, <1>10, <1>11, <1>12, <1>13 DEF Next

LEMMA ModalInvariant == Spec => []ModalInv
<1>1. Init => ModalInv
  BY StyleBefore, Zenon DEF Init, ModalInv, ModalOff
<1> QED
  BY <1>1, ModalStep, PTL DEF Spec

(***************************************************************************)
(* Until two overlays have been open at once, the page scrolls exactly     *)
(* while none is open, whichever info buttons there are: the effect that   *)
(* locks it runs at every render, and each cleanup undoes the lock before, *)
(* at a close, at an answer that takes the overlay's block away and at a   *)
(* change of the page.                                                     *)
(***************************************************************************)
THEOREM ScrollNeverStaysLocked == Spec => []ScrollFollowsModal
<1>1. ModalInv => ScrollFollowsModal
  <2>1. "" # "hidden"
    BY Zenon
  <2> QED
    <3>1. ModalOK(modal, "") /\ ~modal.stacked => (modal.overflow = "hidden" <=> Open(modal) # {})
      BY <2>1, StyleTells, Zenon
    <3> QED
      BY <3>1, Zenon DEF ModalInv, ScrollFollowsModal
<1> QED
  BY <1>1, ModalInvariant, PTL

-----------------------------------------------------------------------------
(* The toggles. *)

LEMMA PanelStep == PanelInv /\ [Next]_vars => PanelInv'
<1> SUFFICES ASSUME PanelInv, [Next]_vars PROVE PanelInv'
  OBVIOUS
<1> USE DEF PanelInv, Panels
<1>1. CASE UNCHANGED panel
  BY <1>1
<1>2. CASE Toggle
  BY <1>2 DEF Toggle, ToggleView, ToggleSpin, ToggleSurf
<1>3. CASE Navigate
  BY <1>3 DEF Navigate, LabMounts, PanelOff
<1>4. ~Toggle /\ ~Navigate => UNCHANGED panel
  BY DEF Next, vars, labVars, RegimeEdit, ChooseSymbol, Edit, Fill, OptimizerRun, OptionsRun,
         Analyze, TimerFires, AnswerLands, StatLands, OpenInfo, CloseInfo, Animation, StillPage
<1> QED
  BY <1>1, <1>2, <1>3, <1>4

LEMMA PanelInvariant == Spec => []PanelInv
<1>1. Init => PanelInv
  BY DEF Init, PanelInv, Panels, PanelOff
<1> QED
  BY <1>1, PanelStep, PTL DEF Spec

-----------------------------------------------------------------------------
(* The replay of a simulation. *)

(* At the start no path has arrived, at the end all of them have: the last *)
(* one sets out early enough.                                              *)
LEMMA PathsArrive ==
  /\ \A u \in 0..LastFrame : DrawPaths(u) \in Nat
  /\ DrawPaths(0) = 0
  /\ DrawPaths(LastFrame) = NPaths
<1> USE LastFrameAssumption
<1>1. IsFiniteSet(0..NPaths - 1) /\ Cardinality(0..NPaths - 1) = NPaths
  BY FS_Interval
<1>2. ASSUME NEW u \in 0..LastFrame PROVE DrawPaths(u) \in Nat
  <2>1. {i \in 0..NPaths - 1 : Arrived(i, u)} \in SUBSET (0..NPaths - 1)
    OBVIOUS
  <2> QED
    BY <1>1, <2>1, FS_Subset, FS_CardinalityType DEF DrawPaths
<1>3. ASSUME NEW i \in 0..NPaths - 1 PROVE ~Arrived(i, 0)
  <2>1. Stagger * i + Travel * (NPaths - 1) \in Nat \ {0}
    BY DEF Stagger, Travel
  <2>2. \A x \in Nat \ {0} : LastFrame * x > 0
    OBVIOUS
  <2>3. LastFrame * (Stagger * i + Travel * (NPaths - 1)) > 0
    BY <2>1, <2>2
  <2>4. 100 * 0 * (NPaths - 1) = 0
    OBVIOUS
  <2>5. Arrived(i, 0) <=>
          100 * 0 * (NPaths - 1) >= LastFrame * (Stagger * i + Travel * (NPaths - 1))
    BY DEF Arrived, Stagger, Travel
  <2>6. LastFrame * (Stagger * i + Travel * (NPaths - 1)) \in Nat
    BY <2>1
  <2> QED
    BY <2>3, <2>4, <2>5, <2>6
<1>4. ASSUME NEW i \in 0..NPaths - 1 PROVE Arrived(i, LastFrame)
  <2>1. /\ Stagger * i + Travel * (NPaths - 1) \in Nat
        /\ 100 * (NPaths - 1) \in Nat
        /\ Stagger * i + Travel * (NPaths - 1) <= 100 * (NPaths - 1)
    BY DEF Stagger, Travel
  <2>2. \A x, y \in Nat : x <= y => LastFrame * x <= LastFrame * y
    OBVIOUS
  <2>3. LastFrame * (Stagger * i + Travel * (NPaths - 1)) <= LastFrame * (100 * (NPaths - 1))
    BY <2>1, <2>2
  <2>4. 100 * LastFrame * (NPaths - 1) = LastFrame * (100 * (NPaths - 1))
    OBVIOUS
  <2>5. Arrived(i, LastFrame) <=>
          LastFrame * (Stagger * i + Travel * (NPaths - 1)) <= 100 * LastFrame * (NPaths - 1)
    BY DEF Arrived, Stagger, Travel
  <2> QED
    BY <2>3, <2>4, <2>5
<1>5. DrawPaths(0) = 0
  <2>1. {i \in 0..NPaths - 1 : Arrived(i, 0)} = {}
    BY <1>3
  <2> QED
    BY <2>1, FS_EmptySet DEF DrawPaths
<1>6. DrawPaths(LastFrame) = NPaths
  <2>1. {i \in 0..NPaths - 1 : Arrived(i, LastFrame)} = 0..NPaths - 1
    BY <1>4
  <2> QED
    BY <1>1, <2>1 DEF DrawPaths
<1> QED
  BY <1>2, <1>5, <1>6

(* A frame sets the count to that of what it draws: it skips it only when  *)
(* lastStat is that count.                                                 *)
LEMMA FrameCounts ==
  ASSUME NEW s \in Sims, NEW u \in 0..LastFrame, s.last \in {NoCount, s.count}
  PROVE  RenderFrame(s, u) =
           [s EXCEPT !.drawn = u, !.last = DrawPaths(u), !.count = DrawPaths(u)]
<1>1. DrawPaths(u) # NoCount
  BY PathsArrive DEF NoCount
<1>2. (IF DrawPaths(u) = s.last THEN s.count ELSE DrawPaths(u)) = DrawPaths(u)
  BY <1>1
<1> QED
  BY <1>2 DEF RenderFrame, Sims

LEMMA ReplayKeeps ==
  ASSUME NEW s, SimOK(s), NEW r \in Nat, NEW on \in BOOLEAN
  PROVE  SimOK(Replay(s, r, on))
<1>1. s \in Sims /\ s.frames \ {s.raf} = {}
  BY DEF SimOK
<1> DEFINE c == [CancelReplay(s) EXCEPT !.on = on, !.run = r]
<1>2. /\ c \in Sims /\ c.frames = {} /\ (c.on <=> on) /\ c.run = r
  <2>1. CancelReplay(s) \in Sims /\ CancelReplay(s).frames = {}
    BY <1>1 DEF CancelReplay, Sims
  <2> QED
    BY <2>1 DEF Sims
<1>3. CASE ~on
  BY <1>2, <1>3 DEF Replay, SimOK
<1>4. CASE on
  <2> DEFINE d == [Rewound(Measure(c)) EXCEPT !.first = TRUE]
  <2> HIDE DEF c
  <2> DEFINE m == Measure(c)
  <2>b. m \in Sims /\ m.frames = {} /\ m.on /\ m.run = r /\ m.drawn = 0
    BY <1>2, <1>4, LastFrameAssumption DEF Measure, Sims
  <2> HIDE DEF m
  <2>c. Rewound(m) \in Sims
    BY <2>b, LastFrameAssumption DEF Rewound, Sims, NoCount
  <2>1. /\ d \in Sims /\ d.frames = {} /\ d.on /\ d.run = r /\ d.running /\ d.count = 0
        /\ d.last = NoCount /\ d.drawn = 0
    BY <2>b, <2>c, LastFrameAssumption DEF Rewound, Sims, m
  <2> HIDE DEF d
  <2> DEFINE e == Schedule(d, r)
  <2>2. /\ e \in Sims /\ e.frames = {r} /\ e.raf = r /\ e.on /\ e.run = r /\ e.running
        /\ e.count = 0 /\ e.last = NoCount /\ e.drawn = 0
    BY <2>1 DEF Schedule, Sims
  <2>3. Replay(s, r, on) = e
    BY <1>4 DEF Replay, c, d
  <2> QED
    BY <1>4, <2>2, <2>3, PathsArrive DEF SimOK
<1> QED
  BY <1>3, <1>4

LEMMA TickKeeps ==
  ASSUME NEW s, SimOK(s), NEW r \in s.frames, NEW u \in 0..LastFrame
  PROVE  SimOK(Ticked(s, r, u))
<1>1. /\ s \in Sims /\ s.on /\ s.running /\ r = s.run /\ r = s.raf /\ s.frames = {r} /\ r \in Nat
      /\ s.last \in {NoCount, s.count}
  BY DEF SimOK, Sims
<1> DEFINE b == [s EXCEPT !.prog = u, !.first = FALSE, !.frames = @ \ {r}]
<1>2. /\ b \in Sims /\ b.on /\ b.running /\ b.run = r /\ b.raf = r /\ b.frames = {}
      /\ b.last \in {NoCount, b.count} /\ b.prog = u
  BY <1>1 DEF Sims
<1> HIDE DEF b
<1> DEFINE d == RenderFrame(b, u)
<1>3. d = [b EXCEPT !.drawn = u, !.last = DrawPaths(u), !.count = DrawPaths(u)]
  BY <1>2, FrameCounts
<1>4. DrawPaths(u) \in Nat
  BY PathsArrive
<1>5. /\ d \in Sims /\ d.on /\ d.running /\ d.run = r /\ d.raf = r /\ d.frames = {}
      /\ d.last = DrawPaths(u) /\ d.count = DrawPaths(u) /\ d.prog = u /\ d.drawn = u
  BY <1>2, <1>3, <1>4 DEF Sims
<1> HIDE DEF d
<1>6. Ticked(s, r, u) = IF u < LastFrame THEN Schedule(d, r) ELSE [d EXCEPT !.running = FALSE]
  BY DEF Ticked, b, d
<1>7. CASE u < LastFrame
  <2> DEFINE e == Schedule(d, r)
  <2>1. /\ e \in Sims /\ e.on /\ e.running /\ e.run = r /\ e.raf = r /\ e.frames = {r}
        /\ e.last = DrawPaths(u) /\ e.count = DrawPaths(u) /\ e.drawn = u
    BY <1>1, <1>5 DEF Schedule, Sims
  <2> HIDE DEF e
  <2>2. SimOK(e)
    BY <2>1 DEF SimOK
  <2> QED
    BY <1>6, <1>7, <2>2 DEF e
<1>8. CASE ~(u < LastFrame)
  <2> DEFINE e == [d EXCEPT !.running = FALSE]
  <2>1. /\ e \in Sims /\ e.on /\ ~e.running /\ e.frames = {}
        /\ e.last = DrawPaths(u) /\ e.count = DrawPaths(u) /\ e.prog = u /\ e.drawn = u
    BY <1>5 DEF Sims
  <2> HIDE DEF e
  <2>2. u = LastFrame
    BY <1>8, LastFrameAssumption
  <2>3. SimOK(e)
    BY <2>1, <2>2 DEF SimOK
  <2> QED
    BY <1>6, <1>8, <2>3 DEF e
<1> QED
  BY <1>7, <1>8

LEMMA ResizeKeeps ==
  ASSUME SimInv, SimResize
  PROVE  SimInv'
<1> DEFINE u == IF sim.prog = 0 THEN LastFrame ELSE sim.prog
           m == Measure(sim)
<1>1. sim \in Sims /\ u \in 0..LastFrame
  BY LastFrameAssumption DEF SimInv, SimOK, Sims
<1>2. m = [sim EXCEPT !.drawn = 0] /\ m \in Sims
  BY <1>1, LastFrameAssumption DEF Measure, Sims
<1>3. sim.on /\ sim.last \in {NoCount, sim.count}
  BY DEF SimInv, SimOK, SimResize
<1>4. m.last \in {NoCount, m.count}
  BY <1>1, <1>2, <1>3 DEF Sims
<1>5. sim' = RenderFrame(m, u)
  BY DEF SimResize
<1> HIDE DEF u, m
<1>6. sim' = [m EXCEPT !.drawn = u, !.last = DrawPaths(u), !.count = DrawPaths(u)]
  BY <1>1, <1>2, <1>4, <1>5, FrameCounts
<1>7. sim' = [sim EXCEPT !.drawn = u, !.last = DrawPaths(u), !.count = DrawPaths(u)]
  BY <1>1, <1>2, <1>6 DEF Sims
<1>8. DrawPaths(u) \in Nat
  BY <1>1, PathsArrive
<1>9. ~sim.running => u = LastFrame
  BY <1>3, LastFrameAssumption DEF SimInv, SimOK, u
<1> QED
  BY <1>1, <1>3, <1>7, <1>8, <1>9 DEF SimInv, SimOK, Sims

LEMMA SimStep == SimInv /\ [Next]_vars => SimInv'
<1> SUFFICES ASSUME SimInv, [Next]_vars PROVE SimInv'
  OBVIOUS
<1>1. ASSUME sim' = sim PROVE SimInv'
  BY <1>1 DEF SimInv
<1>2. ASSUME sim' = SimOff PROVE SimInv'
  <2>1. SimOff \in Sims /\ SimOff.frames = {} /\ ~SimOff.on
    BY LastFrameAssumption DEF SimOff, Sims, NoCount
  <2> QED
    BY <1>2, <2>1 DEF SimInv, SimOK
<1>3. CASE AnswerLands
  <2> PICK k \in DOMAIN calls, a \in Answers : Lands(k, a)
    BY <1>3 DEF AnswerLands
  <2>1. sim' = sim \/ sim' = Replay(sim, sim.run + 1, TRUE) \/ sim' = Replay(sim, sim.run, FALSE)
    BY DEF Lands, SimulationLands
  <2>2. SimOK(sim) /\ sim.run \in Nat /\ sim.run + 1 \in Nat
    BY DEF SimInv, SimOK, Sims
  <2>3. SimOK(Replay(sim, sim.run + 1, TRUE)) /\ SimOK(Replay(sim, sim.run, FALSE))
    BY <2>2, ReplayKeeps
  <2> QED
    BY <2>1, <2>2, <2>3 DEF SimInv
<1>4. CASE Animation
  <2>1. CASE SimTick
    BY <2>1, TickKeeps DEF SimTick, SimInv
  <2>2. CASE SimResize
    BY <2>2, ResizeKeeps
  <2> QED
    BY <1>1, <1>4, <2>1, <2>2 DEF Animation, CanvasNext, OrbFrame, OrbDown, OrbMove, OrbUp
<1>5. CASE Navigate
  BY <1>2, <1>5 DEF Navigate, LabMounts
<1>6. ~AnswerLands /\ ~Animation /\ ~Navigate => UNCHANGED sim
  BY DEF Next, vars, labVars, RegimeEdit, ChooseSymbol, Edit, Fill, OptimizerRun, OptionsRun,
         Analyze, TimerFires, StatLands, Toggle, OpenInfo, CloseInfo
<1> QED
  BY <1>1, <1>3, <1>4, <1>5, <1>6

LEMMA SimInvariant == Spec => []SimInv
<1>1. Init => SimInv
  BY LastFrameAssumption DEF Init, CanvasInit, SimInv, SimOK, SimOff, Sims, NoCount
<1> QED
  BY <1>1, SimStep, PTL DEF Spec

(***************************************************************************)
(* A replay runs alone and to its end: while there is something to draw,   *)
(* exactly the tick of the current run is scheduled until the replay has   *)
(* run out, for any number of runs, failures and resizes.                  *)
(***************************************************************************)
THEOREM ReplaysRunAlone == Spec => []OneReplayAtATime
<1>1. SimInv => OneReplayAtATime
  BY DEF SimInv, SimOK, OneReplayAtATime
<1> QED
  BY <1>1, SimInvariant, PTL

(***************************************************************************)
(* The count beside the chart is that of the frame on it, and all paths    *)
(* have arrived when the replay is over, however many paths and frames.    *)
(***************************************************************************)
THEOREM CountIsTheCanvas == Spec => []CountMatchesCanvas
<1>1. SimInv => CountMatchesCanvas
  BY PathsArrive DEF SimInv, SimOK, CountMatchesCanvas
<1> QED
  BY <1>1, SimInvariant, PTL

-----------------------------------------------------------------------------
(* The spinning surface. *)

(* A frame that is pending is always one the component can cancel, so      *)
(* starting a loop leaves exactly that.                                    *)
LEMMA OneLoopStarts ==
  ASSUME NEW o \in Orbs, NEW old, OneLoop(o, old)
  PROVE  /\ CancelLoop(o) = [o EXCEPT !.loops = <<>>, !.held = FALSE]
         /\ CancelLoop(o) \in Orbs
         /\ Start(o) = [o EXCEPT !.loops = <<o.iv>>, !.held = TRUE]
         /\ Start(o) \in Orbs
<1> DEFINE c == [o EXCEPT !.loops = <<>>, !.held = FALSE]
           n == [o EXCEPT !.loops = <<o.iv>>, !.held = TRUE]
<1>1. o.iv \in Surfaces /\ o.held \in BOOLEAN
  BY DEF Orbs
<1>2. c \in Orbs /\ n \in Orbs
  <2>1. <<>> \in Seq(Surfaces) /\ <<o.iv>> \in Seq(Surfaces)
    BY <1>1
  <2> HIDE DEF Surfaces
  <2> QED
    BY <2>1 DEF Orbs
<1>3. CancelLoop(o) = c
  <2>1. CASE o.held
    <3>1. o.loops = <<old>>
      BY <2>1 DEF OneLoop
    <3>2. Front(o.loops) = <<>>
      BY <3>1 DEF Front
    <3> QED
      BY <2>1, <3>2 DEF CancelLoop
  <2>2. CASE ~o.held
    <3>1. o.loops = <<>> /\ o.held = FALSE
      BY <1>1, <2>2 DEF OneLoop
    <3>2. o = c
      BY <3>1 DEF Orbs
    <3> QED
      BY <2>2, <3>2 DEF CancelLoop
  <2> QED
    BY <2>1, <2>2
<1>4. Start(o) = n
  <2>1. c.loops = <<>>
    BY DEF Orbs
  <2>2. Append(c.loops, o.iv) = <<o.iv>>
    BY <1>1, <2>1
  <2>3. Start(o) = [c EXCEPT !.loops = <<o.iv>>, !.held = TRUE]
    BY <1>3, <2>2 DEF Start, Request
  <2> QED
    BY <2>3 DEF Orbs
<1> QED
  BY <1>2, <1>3, <1>4

(* A surface whose canvas shows it, and whose loop was started.            *)
LEMMA StartKeeps ==
  ASSUME NEW o \in Orbs, NEW old, OneLoop(o, old), o.on, o.drawn = o.iv
  PROVE  OrbOK(Start(o)) /\ Start(o).iv = o.iv /\ Start(o).on
<1> DEFINE e == Start(o)
<1>1. e \in Orbs /\ e = [o EXCEPT !.loops = <<o.iv>>, !.held = TRUE]
  BY OneLoopStarts
<1>2. e.loops = <<o.iv>> /\ e.held /\ e.on /\ e.iv = o.iv /\ e.drawn = o.iv
  BY <1>1 DEF Orbs
<1> HIDE DEF e
<1>3. OrbOK(e)
  BY <1>1, <1>2 DEF OrbOK, OneLoop
<1> QED
  BY <1>2, <1>3 DEF e

LEMMA OrbOffKept == OrbOK(OrbOff)
<1>1. OrbOff \in Orbs /\ OrbOff.loops = <<>> /\ ~OrbOff.on /\ ~OrbOff.held
  BY DEF OrbOff, Orbs, Surfaces
<1> QED
  BY <1>1 DEF OrbOK, OneLoop

LEMMA GoneKeeps == OrbInv => OrbGone(orb) = OrbOff
<1> SUFFICES ASSUME OrbInv PROVE OrbGone(orb) = OrbOff
  OBVIOUS
<1> DEFINE c == CancelLoop(orb)
<1>1. orb \in Orbs /\ OneLoop(orb, orb.iv)
  BY DEF OrbInv, OrbOK
<1>2. c = [orb EXCEPT !.loops = <<>>, !.held = FALSE]
  BY <1>1, OneLoopStarts
<1>3. c.loops = <<>>
  BY <1>1, <1>2 DEF Orbs
<1> HIDE DEF c
<1>4. OrbGone(orb) = [OrbOff EXCEPT !.loops = c.loops]
  BY DEF OrbGone, c
<1> QED
  BY <1>3, <1>4 DEF OrbOff

(* The effect that draws, and starts the loop of what it drew.             *)
LEMMA ShownKeeps ==
  ASSUME NEW o \in Orbs, o.on, NEW old, OneLoop(o, old), NEW iv \in Surfaces,
         ~o.spin => ~o.held
  PROVE  OrbOK(OrbShown(o, iv))
<1> DEFINE d == Draw([o EXCEPT !.iv = iv], iv)
<1>1. /\ d \in Orbs /\ d.loops = o.loops /\ (d.held <=> o.held) /\ d.on /\ d.iv = iv
      /\ d.drawn = iv /\ (d.spin <=> o.spin)
  BY DEF Draw, Orbs
<1>2. OrbShown(o, iv) = IF d.spin THEN Start(d) ELSE d
  BY DEF OrbShown
<1> HIDE DEF d
<1>3. OneLoop(d, old)
  BY <1>1 DEF OneLoop
<1>4. OrbOK(Start(d))
  BY <1>1, <1>3, StartKeeps
<1>5. ~d.spin => OrbOK(d)
  BY <1>1, <1>3 DEF OrbOK, OneLoop
<1> QED
  BY <1>2, <1>4, <1>5

LEMMA RenderKeeps ==
  ASSUME OrbInv, NEW on \in BOOLEAN, NEW iv \in Surfaces, NEW auto \in BOOLEAN
  PROVE  OrbOK(OrbRendered(on, iv, auto))
<1>0. orb \in Orbs /\ OneLoop(orb, orb.iv)
  BY DEF OrbInv, OrbOK
<1>2. OrbOK(OrbGone(orb))
  BY GoneKeeps, OrbOffKept
<1>3. ASSUME ~orb.on PROVE OrbOK(OrbMounted(orb, iv, auto))
  <2> DEFINE b == [orb EXCEPT !.on = TRUE, !.iv = iv]
             t == [b EXCEPT !.spin = auto]
             o == OrbTurned(b, auto)
  <2>1. /\ t \in Orbs /\ t.loops = <<>> /\ ~t.held /\ t.on /\ t.iv = iv /\ (t.spin <=> auto)
    <3>1. orb.loops = <<>> /\ ~orb.held
      BY <1>3 DEF OrbInv, OrbOK, OneLoop
    <3> QED
      BY <1>0, <3>1 DEF Orbs
  <2>2. o = IF auto THEN Start(t) ELSE t
    BY DEF OrbTurned
  <2>3. OrbMounted(orb, iv, auto) = OrbShown(o, iv)
    BY DEF OrbMounted
  <2> HIDE DEF b, t, o
  <2>4. OneLoop(t, iv)
    BY <2>1 DEF OneLoop
  <2>5. Start(t) = [t EXCEPT !.loops = <<t.iv>>, !.held = TRUE] /\ Start(t) \in Orbs
    BY <2>1, <2>4, OneLoopStarts
  <2>6. Start(t).loops = <<iv>> /\ Start(t).held /\ Start(t).on /\ (Start(t).spin <=> auto)
    BY <2>1, <2>5 DEF Orbs
  <2>7. o \in Orbs /\ o.on /\ (o.spin <=> auto) /\ OneLoop(o, iv) /\ (~o.spin => ~o.held)
    BY <2>1, <2>2, <2>4, <2>5, <2>6 DEF OneLoop
  <2> QED
    BY <2>3, <2>7, ShownKeeps
<1>4. ASSUME orb.on PROVE OrbOK(OrbRedrawn(orb, iv))
  <2> DEFINE k == CancelLoop(orb)
  <2>1. k \in Orbs /\ k = [orb EXCEPT !.loops = <<>>, !.held = FALSE]
    BY <1>0, OneLoopStarts
  <2>2. k.loops = <<>> /\ ~k.held /\ k.on
    BY <1>0, <1>4, <2>1 DEF Orbs
  <2>3. OrbRedrawn(orb, iv) = OrbShown(k, iv)
    BY DEF OrbRedrawn
  <2> HIDE DEF k
  <2>4. OneLoop(k, iv)
    BY <2>2 DEF OneLoop
  <2> QED
    BY <2>1, <2>2, <2>3, <2>4, ShownKeeps
<1>5. ASSUME orb.on PROVE OrbOK(OrbTurned(orb, auto))
  <2> DEFINE t == [orb EXCEPT !.spin = auto]
  <2>1. /\ t \in Orbs /\ t.loops = orb.loops /\ (t.held <=> orb.held) /\ t.on /\ t.iv = orb.iv
        /\ t.drawn = orb.drawn /\ (t.spin <=> auto)
    BY <1>0, <1>5 DEF Orbs
  <2>2. OrbTurned(orb, auto) = IF auto THEN Start(t) ELSE t
    BY DEF OrbTurned
  <2> HIDE DEF t
  <2>3. t.drawn = t.iv /\ OneLoop(t, t.iv)
    BY <1>0, <1>5, <2>1 DEF OrbInv, OrbOK, OneLoop
  <2>4. OrbOK(Start(t))
    BY <2>1, <2>3, StartKeeps
  <2>5. ~auto => OrbOK(t)
    BY <2>1, <2>3 DEF OrbOK
  <2> QED
    BY <2>2, <2>4, <2>5
<1>6. OrbOK(orb)
  BY DEF OrbInv
<1> QED
  BY <1>2, <1>3, <1>4, <1>5, <1>6 DEF OrbRendered

(* The callbacks of the canvas. *)
LEMMA OrbFrameKeeps == OrbInv /\ OrbFrame => OrbInv'
<1> SUFFICES ASSUME OrbInv, OrbFrame PROVE OrbInv'
  OBVIOUS
<1> PICK k \in DOMAIN orb.loops : orb' = Turned(orb, k)
  BY DEF OrbFrame
<1>1. /\ orb \in Orbs /\ orb.on /\ orb.held /\ orb.loops = <<orb.iv>> /\ orb.drawn = orb.iv
      /\ orb.iv \in Surfaces
  <2>1. orb \in Orbs /\ OneLoop(orb, orb.iv) /\ orb.iv \in Surfaces
    BY DEF OrbInv, OrbOK, Orbs
  <2>2. orb.loops # <<>>
    OBVIOUS
  <2> QED
    BY <2>1, <2>2 DEF OrbInv, OrbOK, OneLoop
<1>2. k = 1 /\ orb.loops[k] = orb.iv /\ Len(orb.loops) = 1
  BY <1>1
<1>3. RemoveAt(orb.loops, k) = <<>>
  <2>1. SubSeq(orb.loops, 1, k - 1) = <<>> /\ SubSeq(orb.loops, k + 1, Len(orb.loops)) = <<>>
    BY <1>1, <1>2
  <2> QED
    BY <2>1 DEF RemoveAt
<1> DEFINE d == [Draw(orb, orb.iv) EXCEPT !.loops = <<>>, !.held = FALSE]
<1>4. /\ d \in Orbs /\ d.loops = <<>> /\ ~d.held /\ d.on /\ d.iv = orb.iv /\ d.drawn = orb.iv
      /\ (d.spin <=> orb.spin) /\ (d.drag <=> orb.drag)
  <2> DEFINE b == Draw(orb, orb.iv)
  <2>1. b \in Orbs /\ b.on /\ b.iv = orb.iv /\ b.drawn = orb.iv
        /\ (b.spin <=> orb.spin) /\ (b.drag <=> orb.drag)
    BY <1>1 DEF Draw, Orbs
  <2>2. <<>> \in Seq(Surfaces)
    OBVIOUS
  <2>3. d = [b EXCEPT !.loops = <<>>, !.held = FALSE]
    OBVIOUS
  <2> HIDE DEF b, d
  <2> QED
    BY <2>1, <2>2, <2>3 DEF Orbs
<1>5. orb' = IF orb.spin /\ ~orb.drag THEN Request(d, orb.iv) ELSE d
  <2>1. (orb.held /\ k < Len(orb.loops)) = FALSE
    BY <1>2
  <2>2. Draw(orb, orb.iv).loops = orb.loops /\ Draw(orb, orb.iv).held = orb.held
    BY <1>1 DEF Draw, Orbs
  <2>3. [Draw(orb, orb.loops[k]) EXCEPT !.loops = RemoveAt(@, k),
                                        !.held = @ /\ k < Len(orb.loops)] = d
    BY <1>2, <1>3, <2>1, <2>2
  <2> QED
    BY <1>2, <2>3 DEF Turned
<1> HIDE DEF d
<1>6. CASE orb.spin /\ ~orb.drag
  <2> DEFINE r == Request(d, orb.iv)
  <2>1. r = [d EXCEPT !.loops = <<orb.iv>>, !.held = TRUE]
    BY <1>1, <1>4 DEF Request
  <2>2. /\ r \in Orbs /\ r.loops = <<orb.iv>> /\ r.held /\ r.on /\ r.iv = orb.iv
        /\ r.drawn = orb.iv
    BY <1>1, <1>4, <2>1 DEF Orbs
  <2>3. orb' = r
    BY <1>5, <1>6
  <2> HIDE DEF r
  <2> QED
    BY <2>2, <2>3 DEF OrbInv, OrbOK, OneLoop
<1>7. CASE ~(orb.spin /\ ~orb.drag)
  BY <1>4, <1>5, <1>7 DEF OrbInv, OrbOK, OneLoop
<1> QED
  BY <1>6, <1>7

LEMMA OrbDownKeeps == OrbInv /\ OrbDown => OrbInv'
<1> SUFFICES ASSUME OrbInv, OrbDown PROVE OrbInv'
  OBVIOUS
<1> DEFINE k == CancelLoop(orb)
<1>0. orb \in Orbs /\ orb.on /\ OneLoop(orb, orb.iv) /\ orb.drawn = orb.iv
  BY DEF OrbInv, OrbOK, OrbDown
<1>1. k \in Orbs /\ k = [orb EXCEPT !.loops = <<>>, !.held = FALSE]
  BY <1>0, OneLoopStarts
<1>2. k.loops = <<>> /\ ~k.held /\ k.on /\ k.drawn = k.iv
  BY <1>0, <1>1 DEF Orbs
<1>3. orb' = [k EXCEPT !.drag = TRUE]
  BY DEF OrbDown
<1> HIDE DEF k
<1>4. /\ orb' \in Orbs /\ orb'.loops = <<>> /\ ~orb'.held /\ orb'.on /\ orb'.drawn = orb'.iv
      /\ orb'.drag
  BY <1>1, <1>2, <1>3 DEF Orbs
<1> QED
  BY <1>4 DEF OrbInv, OrbOK, OneLoop

LEMMA OrbMoveKeeps == OrbInv /\ OrbMove => OrbInv'
<1> SUFFICES ASSUME OrbInv, OrbMove PROVE OrbInv'
  OBVIOUS
<1>1. orb \in Orbs /\ orb' = [orb EXCEPT !.drawn = orb.iv]
  BY DEF OrbInv, OrbOK, OrbMove, Draw
<1>2. /\ orb' \in Orbs /\ orb'.loops = orb.loops /\ (orb'.held <=> orb.held) /\ orb'.iv = orb.iv
      /\ (orb'.on <=> orb.on) /\ (orb'.spin <=> orb.spin) /\ (orb'.drag <=> orb.drag)
      /\ orb'.drawn = orb.iv
  BY <1>1 DEF Orbs
<1> QED
  BY <1>2 DEF OrbInv, OrbOK, OneLoop

LEMMA OrbUpKeeps == OrbInv /\ OrbUp => OrbInv'
<1> SUFFICES ASSUME OrbInv, OrbUp PROVE OrbInv'
  OBVIOUS
<1> DEFINE r == [orb EXCEPT !.drag = FALSE]
<1>0. orb \in Orbs /\ orb.on /\ OneLoop(orb, orb.iv) /\ orb.drawn = orb.iv
  BY DEF OrbInv, OrbOK, OrbUp
<1>1. /\ r \in Orbs /\ r.loops = orb.loops /\ (r.held <=> orb.held) /\ r.on /\ r.iv = orb.iv
      /\ r.drawn = orb.iv
  BY <1>0 DEF Orbs
<1>2. orb' = IF r.spin THEN Start(r) ELSE r
  BY DEF OrbUp, LetGo
<1> HIDE DEF r
<1>3. OneLoop(r, r.iv)
  BY <1>0, <1>1 DEF OneLoop
<1>4. OrbOK(Start(r))
  BY <1>1, <1>3, StartKeeps
<1>5. ~r.spin => OrbOK(r)
  BY <1>1, <1>3 DEF OrbOK
<1> QED
  BY <1>2, <1>4, <1>5 DEF OrbInv

(* What a render hands to the canvas is a surface of an answer. *)
LEMMA SurfaceOfAnswer ==
  ASSUME NEW pn \in Panels, NEW d, d # None => d.of \in Inputs
  PROVE  SurfaceIv(d, pn) \in Surfaces
<1>1. pn.surf \in {"iv", "current", "forecast"}
  BY DEF Panels
<1>2. CASE Success(d) /\ page = "vol-surface" /\ pn.view = "3d"
  <2>1. SurfaceIv(d, pn) = <<d.of, "iv">>
    BY <1>2 DEF SurfaceIv
  <2> QED
    BY <1>2, <2>1 DEF Surfaces, Success
<1>3. CASE Success(d) /\ page = "vol-forecast"
  <2>1. SurfaceIv(d, pn) = <<d.of, pn.surf>>
    BY <1>3 DEF SurfaceIv
  <2> QED
    BY <1>1, <1>3, <2>1 DEF Surfaces, Success
<1>4. CASE ~(Success(d) /\ page = "vol-surface" /\ pn.view = "3d")
           /\ ~(Success(d) /\ page = "vol-forecast")
  BY <1>4 DEF SurfaceIv, Surfaces
<1> QED
  BY <1>2, <1>3, <1>4

LEMMA RenderedKeeps ==
  ASSUME OrbInv, NEW pn \in Panels, NEW d, d # None => d.of \in Inputs, Rendered(d, pn)
  PROVE  OrbInv'
<1> DEFINE iv == SurfaceIv(d, pn)
<1>1. iv \in Surfaces /\ pn.spin \in BOOLEAN
  BY SurfaceOfAnswer DEF Panels
<1>2. orb' = OrbRendered(iv # None, iv, pn.spin)
  BY DEF Rendered
<1> HIDE DEF iv
<1>3. OrbOK(OrbRendered(iv # None, iv, pn.spin))
  BY <1>1, RenderKeeps
<1> QED
  BY <1>2, <1>3 DEF OrbInv

LEMMA OrbStep ==
  OrbInv /\ PanelInv /\ PanelInv' /\ AskInv /\ [Next]_vars => OrbInv'
<1> SUFFICES ASSUME OrbInv, PanelInv, PanelInv', AskInv, [Next]_vars PROVE OrbInv'
  OBVIOUS
<1>0. panel \in Panels /\ panel' \in Panels /\ (data # None => data.of \in Inputs)
  BY DEF PanelInv, AskInv
<1>1. ASSUME orb' = orb PROVE OrbInv'
  BY <1>1 DEF OrbInv
<1>2. ASSUME Rendered(data, panel) PROVE OrbInv'
  BY <1>0, <1>2, RenderedKeeps
<1>3. ASSUME Rendered(data, panel') PROVE OrbInv'
  BY <1>0, <1>3, RenderedKeeps
<1>4. ASSUME NEW i \in Inputs, RegimeEdit(i) \/ ChooseSymbol(i) \/ Edit(i) PROVE OrbInv'
  BY <1>2, <1>4 DEF RegimeEdit, ChooseSymbol, Edit
<1>5. CASE Fill \/ OptimizerRun \/ OptionsRun \/ Analyze
  BY <1>2, <1>5 DEF Fill, OptimizerRun, OptionsRun, Analyze
<1>6. CASE TimerFires \/ StatLands
  BY <1>2, <1>6 DEF TimerFires, StatLands
<1>7. CASE Toggle
  BY <1>3, <1>7 DEF Toggle
<1>8. CASE AnswerLands
  <2> PICK k \in DOMAIN calls, a \in Answers : Lands(k, a)
    BY <1>8 DEF AnswerLands
  <2>1. CASE Dropped(calls[k])
    BY <1>1, <2>1 DEF Lands
  <2>2. CASE ~Dropped(calls[k])
    <3>1. data' = Landed(calls[k], a) /\ Rendered(data', panel)
      BY <2>2 DEF Lands
    <3>a. calls \in Seq(Calls)
      BY DEF AskInv
    <3>b. k \in 1..Len(calls)
      BY <3>a, LenProperties
    <3>c. calls[k] \in Calls
      BY <3>a, <3>b, ElementOfSeq
    <3>2. calls[k].of \in Inputs
      BY <3>c DEF Calls
    <3>3. data'.of \in Inputs
      BY <3>1, <3>2 DEF Landed
    <3> QED
      BY <1>0, <3>1, <3>3, RenderedKeeps
  <2> QED
    BY <2>1, <2>2
<1>9. CASE OpenInfo \/ CloseInfo
  BY <1>1, <1>9 DEF OpenInfo, CloseInfo
<1>10. CASE Animation
  BY <1>1, <1>10, OrbFrameKeeps, OrbDownKeeps, OrbMoveKeeps, OrbUpKeeps
     DEF Animation, CanvasNext, SimTick, SimResize
<1>11. CASE Navigate
  BY <1>11, GoneKeeps, OrbOffKept DEF Navigate, LabMounts, OrbInv
<1>12. CASE UNCHANGED vars
  BY <1>1, <1>12 DEF vars, labVars
<1> QED
  BY <1>4, <1>5, <1>6, <1>7, <1>8, <1>9, <1>10, <1>11, <1>12 DEF Next

LEMMA OrbInit == Init => OrbInv
  BY OrbOffKept DEF Init, CanvasInit, OrbInv

-----------------------------------------------------------------------------
(* The requests: what an action can do to them. *)

RequestVars == <<page, form, due, calls, data, loading, asked, overtaken, edits>>

AsksAlone(i) ==  \* a guarded page asks and awaits nothing else any more
  /\ page \in Guarded /\ i \in Inputs /\ form' \in Inputs
  /\ Asks(i, Unmounted(calls)) /\ Edits
  /\ UNCHANGED <<page, due, data>>
AsksAgain(i) ==  \* the sentiment page asks beside what is out
  /\ page = "sentiment" /\ i \in Inputs /\ form' \in Inputs
  /\ Asks(i, calls) /\ Edits
  /\ UNCHANGED <<page, due, data>>
EditsForm ==
  /\ page \in AtOnce /\ form' \in Inputs /\ Edits
  /\ UNCHANGED <<page, due, calls, data, loading, asked, overtaken>>

LEMMA RequestSteps ==
  AskInv /\ [Next]_vars =>
    \/ \E i \in Inputs : AsksAlone(i) \/ AsksAgain(i) \/ Edit(i)
    \/ EditsForm \/ TimerFires \/ AnswerLands \/ Navigate \/ UNCHANGED RequestVars
<1> DEFINE Goal ==
      \/ \E i \in Inputs : AsksAlone(i) \/ AsksAgain(i) \/ Edit(i)
      \/ EditsForm \/ TimerFires \/ AnswerLands \/ Navigate \/ UNCHANGED RequestVars
<1> SUFFICES ASSUME AskInv, [Next]_vars PROVE Goal
  OBVIOUS
<1>0. form \in Inputs /\ "regime" \in Guarded /\ "optimizer" \in Guarded /\ "options" \in Guarded
  BY DEF AskInv, Guarded
<1>1. ASSUME NEW i \in Inputs, RegimeEdit(i) PROVE Goal
  <2>1. AsksAlone(i)
    BY <1>0, <1>1 DEF RegimeEdit, RegimeEffect, AsksAlone
  <2> QED
    BY <2>1
<1>2. ASSUME NEW i \in Inputs, ChooseSymbol(i) PROVE Goal
  <2>1. AsksAgain(i)
    BY <1>2 DEF ChooseSymbol, AsksAgain
  <2> QED
    BY <2>1
<1>3. CASE OptimizerRun
  <2>1. AsksAlone(form)
    BY <1>0, <1>3 DEF OptimizerRun, OptimizerEffect, OptimizeEnabled, AsksAlone
  <2> QED
    BY <1>0, <2>1
<1>4. CASE OptionsRun
  <2>1. AsksAlone(form)
    BY <1>0, <1>4 DEF OptionsRun, OptionsEffect, AsksAlone
  <2> QED
    BY <1>0, <2>1
<1>5. CASE Analyze
  <2>1. AsksAgain(form)
    BY <1>0, <1>5 DEF Analyze, AsksAgain
  <2> QED
    BY <1>0, <2>1
<1>6. CASE Fill
  <2>1. EditsForm
    BY <1>6 DEF Fill, OptimizerToggle, OptionsEdit, TypeText, EditsForm, AtOnce
  <2> QED
    BY <2>1
<1>7. CASE StatLands \/ Toggle \/ OpenInfo \/ CloseInfo \/ Animation \/ UNCHANGED vars
  <2>1. UNCHANGED RequestVars
    BY <1>7 DEF StatLands, Toggle, OpenInfo, CloseInfo, Animation, StillPage, vars, labVars,
                RequestVars
  <2> QED
    BY <2>1
<1> QED
  BY <1>1, <1>2, <1>3, <1>4, <1>5, <1>6, <1>7 DEF Next

(* What is left of a sequence when its k-th element is taken out.          *)
LEMMA RemoveOne ==
  ASSUME NEW S, NEW s \in Seq(S), NEW k \in 1..Len(s)
  PROVE  /\ RemoveAt(s, k) \in Seq(S)
         /\ Len(RemoveAt(s, k)) = Len(s) - 1
         /\ \A i \in 1..Len(s) - 1 : RemoveAt(s, k)[i] = IF i < k THEN s[i] ELSE s[i + 1]
<1> DEFINE n == Len(s)
           a == SubSeq(s, 1, k - 1)
           b == SubSeq(s, k + 1, n)
<1>1. n \in Nat /\ k \in 1..n /\ \A i \in 1..n : s[i] \in S
  BY LenProperties, ElementOfSeq
<1> HIDE DEF n
<1>2. /\ a \in Seq(S) /\ Len(a) = k - 1
      /\ \A i \in 1..k - 1 : a[i] = s[i]
  <2>1. 1 \in Int /\ k - 1 \in Int /\ \A i \in 1..k - 1 : s[i] \in S
    BY <1>1
  <2>2. /\ a \in Seq(S) /\ Len(a) = (IF 1 <= k - 1 THEN (k - 1) - 1 + 1 ELSE 0)
        /\ \A i \in 1..(k - 1) - 1 + 1 : a[i] = s[1 + i - 1]
    BY <2>1, SubSeqProperties
  <2> QED
    BY <1>1, <2>2
<1>3. /\ b \in Seq(S) /\ Len(b) = n - k
      /\ \A i \in 1..n - k : b[i] = s[k + i]
  <2>1. k + 1 \in Int /\ n \in Int /\ \A i \in k + 1..n : s[i] \in S
    BY <1>1
  <2>2. /\ b \in Seq(S) /\ Len(b) = (IF k + 1 <= n THEN n - (k + 1) + 1 ELSE 0)
        /\ \A i \in 1..n - (k + 1) + 1 : b[i] = s[(k + 1) + i - 1]
    BY <2>1, SubSeqProperties
  <2> QED
    BY <1>1, <2>2
<1>4. RemoveAt(s, k) = a \o b
  BY DEF RemoveAt, n
<1> HIDE DEF a, b
<1>5. /\ a \o b \in Seq(S) /\ Len(a \o b) = Len(a) + Len(b)
      /\ \A i \in 1..Len(a) + Len(b) :
           (a \o b)[i] = IF i <= Len(a) THEN a[i] ELSE b[i - Len(a)]
  BY <1>2, <1>3, ConcatProperties
<1>6. Len(a) + Len(b) = n - 1
  BY <1>1, <1>2, <1>3
<1>7. ASSUME NEW i \in 1..n - 1
      PROVE  (a \o b)[i] = IF i < k THEN s[i] ELSE s[i + 1]
  <2>1. CASE i < k
    BY <1>1, <1>2, <1>5, <1>6, <1>7, <2>1
  <2>2. CASE ~(i < k)
    <3>1. i - (k - 1) \in 1..n - k /\ k + (i - (k - 1)) = i + 1
      BY <1>1, <1>7, <2>2
    <3>2. b[i - (k - 1)] = s[i + 1]
      BY <1>3, <3>1
    <3> QED
      BY <1>1, <1>2, <1>5, <1>6, <1>7, <2>2, <3>2
  <2> QED
    BY <2>1, <2>2
<1> QED
  BY <1>4, <1>5, <1>6, <1>7 DEF n

(* The requests out when the effects were cleaned up. *)
LEMMA UnmountedCalls ==
  ASSUME NEW cs \in Seq(Calls)
  PROVE  /\ Unmounted(cs) \in Seq(Calls)
         /\ Len(Unmounted(cs)) = Len(cs)
         /\ \A k \in 1..Len(cs) : ~Unmounted(cs)[k].mounted
<1>1. Len(cs) \in Nat /\ DOMAIN cs = 1..Len(cs) /\ \A k \in 1..Len(cs) : cs[k] \in Calls
  BY LenProperties, ElementOfSeq
<1>2. Unmounted(cs) = [k \in 1..Len(cs) |-> [cs[k] EXCEPT !.mounted = FALSE]]
  BY <1>1 DEF Unmounted
<1>3. \A k \in 1..Len(cs) : /\ [cs[k] EXCEPT !.mounted = FALSE] \in Calls
                            /\ ~[cs[k] EXCEPT !.mounted = FALSE].mounted
  BY <1>1 DEF Calls
<1>4. Unmounted(cs) \in [1..Len(cs) -> Calls]
  BY <1>2, <1>3
<1>5. Unmounted(cs) \in Seq(Calls) /\ Len(Unmounted(cs)) = Len(cs)
  BY <1>1, <1>4
<1>6. \A k \in 1..Len(cs) : ~Unmounted(cs)[k].mounted
  BY <1>2, <1>3
<1> QED
  BY <1>5, <1>6

(* One request more. *)
LEMMA OneMoreCall ==
  ASSUME NEW cs \in Seq(Calls), NEW i \in Inputs
  PROVE  LET r == Append(cs, [of |-> i, mounted |-> TRUE])
         IN /\ r \in Seq(Calls) /\ Len(r) = Len(cs) + 1
            /\ \A k \in 1..Len(cs) : r[k] = cs[k]
            /\ r[Len(cs) + 1].of = i /\ r[Len(cs) + 1].mounted
<1>1. [of |-> i, mounted |-> TRUE] \in Calls
  BY DEF Calls
<1> QED
  BY <1>1

(* An answer lands: its request is gone, and if it was not dropped its     *)
(* figures are on the page.                                                *)
LEMMA LandingFacts ==
  ASSUME AskInv, NEW k \in DOMAIN calls, NEW a \in Answers, Lands(k, a)
  PROVE  /\ k \in 1..Len(calls) /\ Len(calls) \in Nat /\ calls[k] \in Calls
         /\ calls' \in Seq(Calls) /\ Len(calls') = Len(calls) - 1
         /\ \A i \in 1..Len(calls) - 1 :
              calls'[i] = IF i < k THEN calls[i] ELSE calls[i + 1]
         /\ overtaken' \in BOOLEAN
         /\ overtaken' <=> overtaken \/ (k = Len(calls) /\ k > 1)
         /\ IF Dropped(calls[k]) THEN UNCHANGED <<data, loading>>
            ELSE /\ data'.of = calls[k].of /\ data'.status \in Statuses
                 /\ ~loading' /\ loading' \in BOOLEAN
<1>1. calls \in Seq(Calls)
  BY DEF AskInv
<1>2. Len(calls) \in Nat /\ k \in 1..Len(calls)
  BY <1>1, LenProperties
<1>3. calls[k] \in Calls
  BY <1>1, <1>2, ElementOfSeq
<1>4. calls' = RemoveAt(calls, k)
      /\ overtaken' \in BOOLEAN /\ (overtaken' <=> overtaken \/ (k = Len(calls) /\ k > 1))
  BY DEF Lands
<1>5. a.status \in Statuses
  BY DEF Answers, Statuses
<1>6. /\ RemoveAt(calls, k) \in Seq(Calls)
      /\ Len(RemoveAt(calls, k)) = Len(calls) - 1
      /\ \A i \in 1..Len(calls) - 1 :
           RemoveAt(calls, k)[i] = IF i < k THEN calls[i] ELSE calls[i + 1]
  BY <1>1, <1>2, RemoveOne, Zenon
<1>7. CASE Dropped(calls[k])
  <2>1. UNCHANGED <<data, loading>>
    BY <1>7 DEF Lands
  <2> QED
    BY <1>2, <1>3, <1>4, <1>6, <1>7, <2>1
<1>8. CASE ~Dropped(calls[k])
  <2>1. data' = Landed(calls[k], a) /\ ~loading' /\ loading' \in BOOLEAN
    BY <1>8 DEF Lands, BusyAfter
  <2>2. data'.of = calls[k].of /\ data'.status \in Statuses
    BY <1>5, <2>1 DEF Landed
  <2> QED
    BY <1>2, <1>3, <1>4, <1>6, <1>8, <2>1, <2>2
<1> QED
  BY <1>7, <1>8

-----------------------------------------------------------------------------
(* The requests: every kind of step keeps the invariant. *)

LEMMA AskingKeeps ==
  ASSUME RequestInv, NEW i \in Inputs, AsksAlone(i) \/ AsksAgain(i)
  PROVE  RequestInv'
<1>0. /\ calls \in Seq(Calls) /\ Len(calls) \in Nat /\ AskInv
  BY LenProperties DEF RequestInv, AskInv
<1> PICK cs \in {calls, Unmounted(calls)} :
      /\ Asks(i, cs) /\ (page \in Guarded => cs = Unmounted(calls))
  BY DEF AsksAlone, AsksAgain, Guarded
<1>1. cs \in Seq(Calls) /\ Len(cs) = Len(calls)
  BY <1>0, UnmountedCalls
<1>2. page \in Guarded => \A k \in 1..Len(calls) : ~cs[k].mounted
  BY <1>0, UnmountedCalls
<1>3. /\ calls' \in Seq(Calls) /\ Len(calls') = Len(calls) + 1
      /\ \A k \in 1..Len(calls) : calls'[k] = cs[k]
      /\ calls'[Len(calls) + 1].of = i /\ calls'[Len(calls) + 1].mounted
  BY <1>1, OneMoreCall DEF Asks
<1>4. /\ loading' /\ loading' \in BOOLEAN /\ asked' = i /\ ~overtaken' /\ overtaken' \in BOOLEAN
  BY DEF Asks
<1>5. /\ page \in AtOnce /\ page \notin Debounced /\ page' = page /\ due' = due /\ data' = data
      /\ form' \in Inputs /\ edits < MaxEdits /\ edits' = edits + 1
  BY DEF AsksAlone, AsksAgain, Edits, Guarded, AtOnce, Debounced
<1>6. AskInv'
  BY <1>0, <1>3, <1>4, <1>5, LabAssumption DEF AskInv
<1>7. GuardedInv'
  <2>1. calls' # <<>>
    BY <1>0, <1>3
  <2>2. ASSUME page \in Guarded
        PROVE  \A k \in 1..Len(calls') : calls'[k].mounted <=> k = Len(calls')
    BY <1>0, <1>2, <1>3, <2>2
  <2> QED
    BY <1>0, <1>3, <1>4, <1>5, <2>1, <2>2 DEF GuardedInv
<1>8. UnguardedInv'
  <2>1. calls' # <<>> /\ calls'[Len(calls')].of = asked'
    BY <1>0, <1>3, <1>4
  <2> QED
    BY <2>1 DEF UnguardedInv
<1>9. LastEditIsAsked'
  BY <1>5 DEF LastEditIsAsked
<1> QED
  BY <1>6, <1>7, <1>8, <1>9 DEF RequestInv

LEMMA EditingKeeps ==
  ASSUME RequestInv, EditsForm \/ \E i \in Inputs : Edit(i)
  PROVE  RequestInv'
<1>0. /\ calls \in Seq(Calls) /\ Len(calls) \in Nat /\ AskInv
  BY LenProperties DEF RequestInv, AskInv
<1>1. AtOnce \cap Debounced = {} /\ Guarded \cap Debounced = {}
  BY DEF AtOnce, Debounced, Guarded
<1>2. CASE EditsForm
  BY <1>0, <1>1, <1>2, LabAssumption
     DEF EditsForm, Edits, RequestInv, AskInv, GuardedInv, UnguardedInv, LastEditIsAsked
<1>3. ASSUME NEW i \in Inputs, Edit(i) PROVE RequestInv'
  <2>1. /\ page \in Debounced /\ form' = i /\ due' = i /\ i # None
        /\ edits < MaxEdits /\ edits' = edits + 1
        /\ UNCHANGED <<page, calls, data, loading, asked, overtaken>>
    BY <1>3, LabAssumption DEF Edit, Edits, TimerRestarted
  <2> QED
    BY <1>0, <1>1, <2>1, LabAssumption
       DEF RequestInv, AskInv, GuardedInv, UnguardedInv, LastEditIsAsked
<1> QED
  BY <1>2, <1>3

LEMMA TimerKeeps ==
  ASSUME RequestInv, TimerFires
  PROVE  RequestInv'
<1>0. /\ calls \in Seq(Calls) /\ Len(calls) \in Nat /\ AskInv /\ LastEditIsAsked
  BY LenProperties DEF RequestInv, AskInv
<1>1. /\ due \in Inputs /\ due # None /\ page \in Debounced /\ page \notin Guarded
  BY <1>0 DEF TimerFires, AskInv, Debounced, Guarded
<1>2. /\ calls' \in Seq(Calls) /\ Len(calls') = Len(calls) + 1
      /\ calls'[Len(calls) + 1].of = due
  BY <1>0, <1>1, OneMoreCall DEF TimerFires, Asks
<1>3. /\ loading' \in BOOLEAN /\ asked' = due /\ ~overtaken' /\ overtaken' \in BOOLEAN
      /\ due' = None /\ UNCHANGED <<page, form, data, edits>>
  BY DEF TimerFires, Asks
<1>4. due = form
  BY <1>0, <1>1 DEF LastEditIsAsked
<1>5. AskInv'
  BY <1>0, <1>1, <1>2, <1>3, LabAssumption DEF AskInv
<1>6. GuardedInv'
  BY <1>1, <1>3 DEF GuardedInv
<1>7. UnguardedInv'
  <2>1. calls' # <<>> /\ calls'[Len(calls')].of = asked'
    BY <1>0, <1>2, <1>3
  <2> QED
    BY <2>1 DEF UnguardedInv
<1>8. LastEditIsAsked'
  BY <1>3, <1>4 DEF LastEditIsAsked
<1> QED
  BY <1>5, <1>6, <1>7, <1>8 DEF RequestInv

LEMMA LandingKeeps ==
  ASSUME RequestInv, AnswerLands
  PROVE  RequestInv'
<1>0. AskInv /\ GuardedInv /\ UnguardedInv /\ LastEditIsAsked
  BY DEF RequestInv
<1> PICK k \in DOMAIN calls, a \in Answers : Lands(k, a)
  BY DEF AnswerLands
<1>1. /\ k \in 1..Len(calls) /\ Len(calls) \in Nat /\ calls[k] \in Calls
      /\ calls' \in Seq(Calls) /\ Len(calls') = Len(calls) - 1
      /\ \A i \in 1..Len(calls) - 1 : calls'[i] = IF i < k THEN calls[i] ELSE calls[i + 1]
      /\ overtaken' \in BOOLEAN
      /\ overtaken' <=> overtaken \/ (k = Len(calls) /\ k > 1)
      /\ IF Dropped(calls[k]) THEN UNCHANGED <<data, loading>>
         ELSE /\ data'.of = calls[k].of /\ data'.status \in Statuses
              /\ ~loading' /\ loading' \in BOOLEAN
  BY <1>0, LandingFacts
<1>2. UNCHANGED <<page, form, due, asked, edits>>
  BY DEF AnswerLands
<1>3. calls[k].of \in Inputs
  BY <1>1 DEF Calls
<1>4. AskInv'
  BY <1>0, <1>1, <1>2, <1>3, LabAssumption DEF AskInv
<1>5. calls' = <<>> <=> Len(calls) = 1
  BY <1>1
<1>6. GuardedInv'
  <2> SUFFICES ASSUME page \in Guarded PROVE GuardedInv'
    BY <1>2 DEF GuardedInv
  <2>1. /\ asked \in Inputs
        /\ \A i \in 1..Len(calls) : calls[i].mounted <=> (loading /\ i = Len(calls))
        /\ loading => calls # <<>> /\ calls[Len(calls)].of = asked
        /\ ~loading => data.of = asked
    BY <1>0 DEF GuardedInv
  <2>2. Dropped(calls[k]) <=> ~(loading /\ k = Len(calls))
    BY <1>1, <2>1 DEF Dropped
  <2>3. CASE loading /\ k = Len(calls)
    <3>1. ~loading' /\ data'.of = asked
      BY <1>1, <2>1, <2>2, <2>3
    <3>2. \A i \in 1..Len(calls') : ~calls'[i].mounted
      BY <1>1, <2>1, <2>3
    <3> QED
      BY <1>2, <2>1, <3>1, <3>2 DEF GuardedInv
  <2>4. CASE loading /\ k # Len(calls)
    <3>1. UNCHANGED <<data, loading>>
      BY <1>1, <2>2, <2>4
    <3>2. Len(calls') \in 1..Len(calls) - 1 /\ Len(calls') >= k /\ calls' # <<>>
      BY <1>1, <1>5, <2>4
    <3>3. calls'[Len(calls')] = calls[Len(calls)]
      BY <1>1, <3>2
    <3>4. \A i \in 1..Len(calls') : calls'[i].mounted <=> i = Len(calls')
      <4> SUFFICES ASSUME NEW i \in 1..Len(calls')
                   PROVE  calls'[i].mounted <=> i = Len(calls')
        OBVIOUS
      <4>1. CASE i < k
        <5>1. calls'[i] = calls[i] /\ i \in 1..Len(calls) /\ i # Len(calls) /\ i # Len(calls')
          BY <1>1, <3>2, <4>1
        <5> QED
          BY <2>1, <5>1
      <4>2. CASE ~(i < k)
        <5>1. calls'[i] = calls[i + 1] /\ i + 1 \in 1..Len(calls)
              /\ (i + 1 = Len(calls) <=> i = Len(calls'))
          BY <1>1, <3>2, <4>2
        <5> QED
          BY <2>1, <2>4, <5>1
      <4> QED
        BY <4>1, <4>2
    <3> QED
      BY <1>2, <2>1, <2>4, <3>1, <3>2, <3>3, <3>4 DEF GuardedInv
  <2>5. CASE ~loading
    <3>1. UNCHANGED <<data, loading>>
      BY <1>1, <2>2, <2>5
    <3>2. \A i \in 1..Len(calls') : ~calls'[i].mounted
      BY <1>1, <2>1, <2>5
    <3> QED
      BY <1>2, <2>1, <2>5, <3>1, <3>2 DEF GuardedInv
  <2> QED
    BY <2>3, <2>4, <2>5
<1>7. UnguardedInv'
  <2> SUFFICES ASSUME page \in (AtOnce \cup Debounced) \ Guarded PROVE UnguardedInv'
    BY <1>2 DEF UnguardedInv
  <2>1. ~Dropped(calls[k])
    BY DEF Dropped
  <2>2. ~loading' /\ data'.of = calls[k].of
    BY <1>1, <2>1
  <2>3. calls # <<>>
    BY <1>1
  <2>4. ~overtaken => calls[Len(calls)].of = asked
    BY <1>0, <2>3 DEF UnguardedInv
  <2>5. ~overtaken' /\ calls' # <<>> => calls'[Len(calls')].of = asked
    <3> SUFFICES ASSUME ~overtaken', calls' # <<>> PROVE calls'[Len(calls')].of = asked
      OBVIOUS
    <3>1. ~overtaken /\ Len(calls) > 1 /\ k < Len(calls)
      BY <1>1, <1>5
    <3>2. calls'[Len(calls')] = calls[Len(calls)]
      BY <1>1, <3>1
    <3> QED
      BY <2>4, <3>1, <3>2
  <2>6. ~overtaken' /\ calls' = <<>> => data'.of = asked
    <3> SUFFICES ASSUME ~overtaken', calls' = <<>> PROVE data'.of = asked
      OBVIOUS
    <3>1. ~overtaken /\ Len(calls) = 1 /\ k = Len(calls)
      BY <1>1, <1>5
    <3> QED
      BY <2>2, <2>4, <3>1
  <2> QED
    BY <1>2, <2>2, <2>5, <2>6 DEF UnguardedInv
<1>8. LastEditIsAsked'
  BY <1>0, <1>2 DEF LastEditIsAsked
<1> QED
  BY <1>4, <1>6, <1>7, <1>8 DEF RequestInv

LEMMA MountKeeps ==
  ASSUME Navigate
  PROVE  RequestInv'
<1> PICK q \in Links(page) \cap (LabRoutes \cup {"dashboard"}) : page' = q /\ LabMounts(q)
  BY DEF Navigate
<1>0. /\ Default \in Inputs /\ Default # None
      /\ AtOnce \cap Debounced = {} /\ Guarded \subseteq AtOnce
  BY LabAssumption DEF AtOnce, Debounced, Guarded
<1>1. /\ page' = q /\ form' = Default /\ data' = None /\ ~overtaken' /\ overtaken' \in BOOLEAN
      /\ edits' = 0
  BY DEF LabMounts
<1>2. /\ calls' = IF q \in AtOnce THEN <<[of |-> Default, mounted |-> TRUE]>> ELSE <<>>
      /\ due' = IF q \in Debounced THEN Default ELSE None
      /\ asked' = IF q \in AtOnce THEN Default ELSE None
      /\ loading' = (q \in AtOnce \cup Debounced)
  BY DEF LabMounts, LabFresh
<1>3. /\ q \in AtOnce => /\ calls' \in Seq(Calls) /\ Len(calls') = 1 /\ calls' # <<>>
                         /\ calls'[1].of = Default /\ calls'[1].mounted
      /\ q \notin AtOnce => calls' \in Seq(Calls) /\ Len(calls') = 0 /\ calls' = <<>>
  <2> DEFINE c == [of |-> Default, mounted |-> TRUE]
  <2>1. c \in Calls /\ c.of = Default /\ c.mounted
    BY <1>0 DEF Calls
  <2>2. q \in AtOnce => calls' = <<c>>
    BY <1>2, Zenon
  <2> HIDE DEF c
  <2>3. <<c>> \in Seq(Calls) /\ Len(<<c>>) = 1 /\ <<c>> # <<>> /\ <<c>>[1] = c
    BY <2>1
  <2>4. q \notin AtOnce => calls' = <<>>
    BY <1>2, Zenon
  <2>5. ASSUME q \in AtOnce
        PROVE  /\ calls' \in Seq(Calls) /\ Len(calls') = 1 /\ calls' # <<>>
               /\ calls'[1].of = Default /\ calls'[1].mounted
    <3>1. calls' = <<c>>
      BY <2>2, <2>5
    <3> QED
      BY <2>1, <2>3, <3>1
  <2>6. ASSUME q \notin AtOnce
        PROVE  calls' \in Seq(Calls) /\ Len(calls') = 0 /\ calls' = <<>>
    BY <2>4, <2>6
  <2> QED
    BY <2>5, <2>6
<1>4. /\ due' \in Inputs \cup {None} /\ asked' \in Inputs \cup {None}
      /\ due' # None <=> q \in Debounced
      /\ q \in AtOnce => asked' = Default /\ due' = None
      /\ q \in Debounced => due' = Default
  BY <1>0, <1>2
<1>5. loading' \in BOOLEAN /\ (loading' <=> q \in AtOnce \cup Debounced)
  <2>1. loading' = (q \in AtOnce \cup Debounced)
    BY <1>2
  <2>2. loading' \in BOOLEAN
    BY <2>1
  <2>3. loading' <=> q \in AtOnce \cup Debounced
    BY <2>1, <2>2
  <2> QED
    BY <2>2, <2>3
<1>6. AskInv'
  <2>1. Len(calls') + (IF due' = None THEN 0 ELSE 1) <= edits' + 1
    <3>1. CASE q \in AtOnce
      <4>1. Len(calls') = 1 /\ edits' = 0 /\ due' = None
        BY <1>1, <1>3, <1>4, <3>1
      <4> QED
        BY <4>1
    <3>2. CASE q \notin AtOnce
      <4>1. Len(calls') = 0 /\ edits' = 0
        BY <1>1, <1>3, <3>2
      <4> QED
        BY <4>1
    <3> QED
      BY <3>1, <3>2
  <2>2. calls' \in Seq(Calls)
    BY <1>3
  <2>3. due' # None => page' \in Debounced
    BY <1>1, <1>4
  <2>4. edits' \in 0..MaxEdits
    BY <1>1, LabAssumption
  <2> QED
    BY <1>0, <1>1, <1>4, <1>5, <2>1, <2>2, <2>3, <2>4 DEF AskInv
<1>7. GuardedInv'
  <2> SUFFICES ASSUME q \in Guarded PROVE GuardedInv'
    BY <1>1 DEF GuardedInv
  <2> QED
    BY <1>0, <1>1, <1>3, <1>4, <1>5 DEF GuardedInv
<1>8. UnguardedInv'
  BY <1>0, <1>1, <1>3, <1>4, <1>5 DEF UnguardedInv
<1>9. LastEditIsAsked'
  BY <1>0, <1>1, <1>4 DEF LastEditIsAsked
<1> QED
  BY <1>6, <1>7, <1>8, <1>9 DEF RequestInv

LEMMA RequestStep == RequestInv /\ [Next]_vars => RequestInv'
<1> SUFFICES ASSUME RequestInv, [Next]_vars PROVE RequestInv'
  OBVIOUS
<1>1. CASE UNCHANGED RequestVars
  BY <1>1 DEF RequestVars, RequestInv, AskInv, GuardedInv, UnguardedInv, LastEditIsAsked
<1>2. AskInv
  BY DEF RequestInv
<1> QED
  BY <1>1, <1>2, RequestSteps, AskingKeeps, EditingKeeps, TimerKeeps, LandingKeeps, MountKeeps

LEMMA RequestInit == Init => RequestInv
<1> SUFFICES ASSUME Init PROVE RequestInv
  OBVIOUS
<1>1. page \notin AtOnce \cup Debounced /\ Guarded \subseteq AtOnce
  BY DEF Init, AtOnce, Debounced, Guarded
<1>2. calls \in Seq(Calls) /\ Len(calls) = 0
  BY DEF Init
<1>3. ~overtaken /\ ~loading /\ overtaken \in BOOLEAN /\ loading \in BOOLEAN
  BY DEF Init
<1>4. AskInv
  BY <1>2, <1>3, LabAssumption DEF Init, AskInv
<1>5. GuardedInv /\ UnguardedInv /\ LastEditIsAsked
  BY <1>1 DEF GuardedInv, UnguardedInv, LastEditIsAsked
<1> QED
  BY <1>4, <1>5 DEF RequestInv

-----------------------------------------------------------------------------
(* All parts together. *)

LEMMA LabInvariant == Spec => []LabInv
<1>1. Init => PanelInv
  BY DEF Init, PanelInv, Panels, PanelOff
<1>2. Init => SimInv
  BY LastFrameAssumption DEF Init, CanvasInit, SimInv, SimOK, SimOff, Sims, NoCount
<1>3. Init => ModalInv
  BY StyleBefore, Zenon DEF Init, ModalInv, ModalOff
<1>4. Init => LabInv
  BY <1>1, <1>2, <1>3, OrbInit, RequestInit DEF LabInv
<1>5. LabInv /\ [Next]_vars => LabInv'
  BY ModalStep, PanelStep, SimStep, OrbStep, RequestStep DEF LabInv, RequestInv
<1> QED
  BY <1>4, <1>5, PTL DEF Spec

(***************************************************************************)
(* A surface that is to spin and is not held has exactly one frame pending,*)
(* of the surface on the screen, and no canvas ever has two, or one that   *)
(* outlives it: drag, auto-spin, new data and every toggle hand on a single*)
(* loop, because the component can always cancel the one there is.         *)
(***************************************************************************)
THEOREM SurfaceKeepsSpinning == Spec => []SurfaceSpins
<1>1. OrbOK(orb) => SurfaceSpins
  <2> SUFFICES ASSUME OrbOK(orb) PROVE SurfaceSpins
    OBVIOUS
  <2>1. orb.loops = <<>> \/ orb.loops = <<orb.iv>>
    BY DEF OrbOK, OneLoop
  <2>2. ~orb.on => orb.loops = <<>>
    BY DEF OrbOK, OneLoop
  <2>3. orb.held => orb.loops # <<>>
    <3>1. <<orb.iv>> # <<>>
      OBVIOUS
    <3> QED
      BY <3>1 DEF OrbOK, OneLoop
  <2> QED
    BY <2>1, <2>2, <2>3 DEF OrbOK, SurfaceSpins
<1>2. LabInv => OrbOK(orb)
  BY DEF LabInv, OrbInv
<1> QED
  BY <1>1, <1>2, LabInvariant, PTL

(***************************************************************************)
(* The variables of the lab's pages keep their types, and no visit has more*)
(* requests in flight than it made edits.                                  *)
(***************************************************************************)
THEOREM LabTypeCorrect == Spec => []LabTypeOK
<1>1. LabInv => LabTypeOK
  <2> SUFFICES ASSUME LabInv PROVE LabTypeOK
    OBVIOUS
  <2>1. AskInv
    BY DEF LabInv, RequestInv
  <2>2. Len(calls) \in Nat
    BY <2>1, LenProperties DEF AskInv
  <2> QED
    BY <2>1, <2>2, LabAssumption DEF AskInv, LabTypeOK, Calls
<1> QED
  BY <1>1, LabInvariant, PTL

(***************************************************************************)
(* No edit of a debounced page is lost, however it falls against the timer *)
(* and the answers: the form's content is what was asked for last, or what *)
(* the running timer will ask for.                                         *)
(***************************************************************************)
THEOREM NoEditIsLost == Spec => []LastEditIsAsked
<1>1. LabInv => LastEditIsAsked
  BY DEF LabInv, RequestInv
<1> QED
  BY <1>1, LabInvariant, PTL

(***************************************************************************)
(* A page with the mounted flag is busy exactly while the one request it   *)
(* awaits is out, for any number of requests in flight.                    *)
(***************************************************************************)
THEOREM BusyMeansOneLiveCall == Spec => []OneLiveCall
<1>1. LabInv => OneLiveCall
  <2> SUFFICES ASSUME LabInv, page \in Guarded PROVE OneLiveCall
    BY DEF OneLiveCall
  <2> DEFINE live == {k \in DOMAIN calls : calls[k].mounted}
  <2>1. /\ calls \in Seq(Calls)
        /\ \A k \in 1..Len(calls) : calls[k].mounted <=> (loading /\ k = Len(calls))
        /\ loading => calls # <<>>
    BY DEF LabInv, RequestInv, AskInv, GuardedInv
  <2>2. DOMAIN calls = 1..Len(calls) /\ Len(calls) \in Nat
    BY <2>1, LenProperties
  <2>3. CASE loading
    <3>1. Len(calls) \in 1..Len(calls)
      <4>1. Len(calls) \in Nat \ {0}
        BY <2>1, <2>3, EmptySeq, Zenon
      <4> QED
        BY <4>1
    <3>2. live = {Len(calls)}
      BY <2>1, <2>2, <2>3, <3>1
    <3>3. Cardinality(live) = 1
      BY <3>2, FS_Singleton
    <3> QED
      BY <2>3, <3>3 DEF OneLiveCall
  <2>4. CASE ~loading
    <3>1. live = {}
      BY <2>1, <2>2, <2>4
    <3>2. Cardinality(live) = 0
      BY <3>1, FS_EmptySet
    <3> QED
      BY <2>4, <3>2 DEF OneLiveCall
  <2> QED
    BY <2>3, <2>4
<1> QED
  BY <1>1, LabInvariant, PTL

(* The figures on the screen of a page that asks are those of the answer it*)
(* holds.                                                                  *)
LEMMA FiguresOfData ==
  ASSUME page \in AtOnce \cup Debounced
  PROVE  Screen.figures \subseteq {data.of} /\ (data = None => Screen.figures = {})
<1>1. IfOk \subseteq {data.of} /\ (data = None => IfOk = {})
  BY DEF IfOk, Success
<1>2. RegimeFigures \subseteq {data.of} /\ (data = None => RegimeFigures = {})
  BY DEF RegimeFigures
<1>3. Screen.figures \in {IfOk, RegimeFigures}
  BY DEF AtOnce, Debounced, Screen, OptimalPortfolios, OptionValuation, SurfaceFigures,
         ForecastFigures, BacktestFigures, PredictionFigures, SentimentFigures
<1> QED
  BY <1>1, <1>2, <1>3

(***************************************************************************)
(* The only way a page ends up with an answer that is not the last it asked*)
(* for is that the newest answer overtook an older one, and only on a page *)
(* without the mounted flag is that possible at all.                       *)
(***************************************************************************)
THEOREM StaleIsOvertaken == Spec => []StaleOnlyFromOvertaking
<1>1. LabInv => StaleOnlyFromOvertaking
  <2> SUFFICES ASSUME LabInv, page \in AtOnce \cup Debounced, due = None, calls = <<>>
               PROVE  ~loading /\ (Screen.figures \subseteq {asked} \/ overtaken)
    BY DEF StaleOnlyFromOvertaking
  <2>1. GuardedInv /\ UnguardedInv
    BY DEF LabInv, RequestInv
  <2>2. ~loading /\ (data = None \/ data.of = asked \/ overtaken)
    BY <2>1 DEF GuardedInv, UnguardedInv
  <2> QED
    BY <2>2, FiguresOfData
<1> QED
  BY <1>1, LabInvariant, PTL

-----------------------------------------------------------------------------
(* The guarded pages implement LatestAnswer.                               *)

(* What a guarded page shows, without its screen. *)
AnswerShown ==
  IF loading THEN None ELSE IF data.status = "error" THEN 0 ELSE data.of

ShowsItsAnswer ==
  ShownFigures = IF page \in Guarded THEN AnswerShown ELSE None

LEMMA ShownOnGuardedPages == LabInv => ShowsItsAnswer
<1> SUFFICES ASSUME LabInv, page \in Guarded PROVE ShownFigures = AnswerShown
  BY DEF ShowsItsAnswer, ShownFigures
<1>1. data # None => data.status \in Statuses
  BY DEF LabInv, RequestInv, AskInv
<1>2. page = "regime" => (Screen.chart = "busy" <=> loading)
  BY DEF Screen, RegimeChart
<1>3. page = "optimizer" => (Screen.chart = "busy" <=> loading)
  BY <1>1 DEF Screen, FrontierPanel, Success, Statuses
<1>4. page = "options" => (Screen.chart = "busy" <=> loading)
  BY DEF Screen, SimulationPanel
<1> QED
  BY <1>2, <1>3, <1>4 DEF ShownFigures, AnswerShown, Guarded

(***************************************************************************)
(* The regime, optimizer and option pages show, when they are not busy, the*)
(* answer to their newest request or its failure, and go busy before they  *)
(* show another: whatever is edited, rerun and answered in whatever order. *)
(***************************************************************************)
THEOREM GuardedPagesRefine == Spec => GuardedPagesShowTheAnswer
<1> DEFINE a == IF page \in Guarded THEN asked ELSE Default
<1>1. Init => LA!Init
  <2> SUFFICES ASSUME Init PROVE LA!Init
    OBVIOUS
  <2>1. page \notin Guarded
    BY DEF Init, Guarded
  <2> QED
    BY <2>1, LabAssumption DEF LA!Init, ShownFigures
<1>2. LabInv /\ LabInv' /\ [Next]_vars => [LA!Next]_LA!vars
  <2> SUFFICES ASSUME LabInv, LabInv', [Next]_vars PROVE [LA!Next]_LA!vars
    OBVIOUS
  <2>1. ShownFigures = IF page \in Guarded THEN AnswerShown ELSE None
    BY ShownOnGuardedPages DEF ShowsItsAnswer
  <2>2. ShownFigures' = IF page' \in Guarded THEN AnswerShown' ELSE None
    <3>1. LabInv' => ShowsItsAnswer'
      BY ShownOnGuardedPages, PTL
    <3> QED
      BY <3>1 DEF ShowsItsAnswer
  <2>3. RequestInv /\ AskInv /\ GuardedInv
    BY DEF LabInv, RequestInv
  <2>4. ASSUME a' = a, ShownFigures' = ShownFigures PROVE [LA!Next]_LA!vars
    BY <2>4 DEF LA!vars
  <2>5. ASSUME NEW r \in Inputs, a' = r, ShownFigures' = None PROVE [LA!Next]_LA!vars
    BY <2>5 DEF LA!Next, LA!Ask
  <2>6. ASSUME ShownFigures = None, ShownFigures' \in {a, 0}, a' = a PROVE [LA!Next]_LA!vars
    BY <2>6 DEF LA!Next, LA!Land
  <2>7. ASSUME page' = page, page \notin Guarded PROVE [LA!Next]_LA!vars
    BY <2>1, <2>2, <2>4, <2>7
  <2>8. ASSUME UNCHANGED <<page, loading, data, asked>> PROVE [LA!Next]_LA!vars
    <3>1. AnswerShown' = AnswerShown
      BY <2>8 DEF AnswerShown
    <3> QED
      BY <2>1, <2>2, <2>4, <2>8, <3>1
  <2>9. ASSUME NEW i \in Inputs, AsksAlone(i) PROVE [LA!Next]_LA!vars
    <3>1. a' = i /\ page' \in Guarded /\ loading'
      BY <2>9 DEF AsksAlone, Asks
    <3>2. ShownFigures' = None
      BY <2>2, <3>1 DEF AnswerShown
    <3> QED
      BY <2>5, <3>1, <3>2
  <2>10. ASSUME NEW i \in Inputs, AsksAgain(i) \/ Edit(i) PROVE [LA!Next]_LA!vars
    <3>1. page' = page /\ page \notin Guarded
      BY <2>10 DEF AsksAgain, Edit, Debounced, Guarded
    <3> QED
      BY <2>7, <3>1
  <2>11. CASE EditsForm
    BY <2>8, <2>11 DEF EditsForm
  <2>12. CASE TimerFires
    <3>1. page' = page /\ page \notin Guarded
      BY <2>3, <2>12 DEF TimerFires, AskInv, Debounced, Guarded
    <3> QED
      BY <2>7, <3>1
  <2>13. CASE AnswerLands
    <3> PICK k \in DOMAIN calls, w \in Answers : Lands(k, w)
      BY <2>13 DEF AnswerLands
    <3>1. /\ k \in 1..Len(calls)
          /\ IF Dropped(calls[k]) THEN UNCHANGED <<data, loading>>
             ELSE data'.of = calls[k].of /\ ~loading'
      BY <2>3, LandingFacts
    <3>2. page' = page /\ asked' = asked
      BY <2>13 DEF AnswerLands
    <3>3. CASE page \notin Guarded
      BY <2>7, <3>2, <3>3
    <3>4. CASE page \in Guarded /\ Dropped(calls[k])
      BY <2>8, <3>1, <3>2, <3>4
    <3>5. CASE page \in Guarded /\ ~Dropped(calls[k])
      <4>1. loading /\ calls[k].of = asked
        BY <2>3, <3>1, <3>5 DEF Dropped, GuardedInv
      <4>2. ShownFigures = None
        BY <2>1, <3>5, <4>1 DEF AnswerShown
      <4>3. ShownFigures' \in {asked, 0}
        BY <2>2, <3>1, <3>2, <3>5, <4>1 DEF AnswerShown
      <4>4. a = asked /\ a' = a
        BY <3>2, <3>5
      <4> QED
        BY <2>6, <4>2, <4>3, <4>4
    <3> QED
      BY <3>3, <3>4, <3>5
  <2>14. CASE Navigate
    <3> PICK q \in Links(page) \cap (LabRoutes \cup {"dashboard"}) : page' = q /\ LabMounts(q)
      BY <2>14 DEF Navigate
    <3>1. asked' = (IF q \in AtOnce THEN Default ELSE None)
          /\ loading' = (q \in AtOnce \cup Debounced)
      BY DEF LabMounts, LabFresh
    <3>2. q \in Guarded => asked' = Default
      BY <3>1 DEF Guarded, AtOnce
    <3>3. q \in Guarded => loading'
      BY <3>1 DEF Guarded, AtOnce
    <3>4. a' = Default /\ ShownFigures' = None
      BY <2>2, <3>2, <3>3 DEF AnswerShown
    <3> QED
      BY <2>5, <3>4, LabAssumption
  <2>15. CASE UNCHANGED RequestVars
    BY <2>8, <2>15 DEF RequestVars
  <2> QED
    BY <2>3, <2>9, <2>10, <2>11, <2>12, <2>13, <2>14, <2>15, RequestSteps
<1>3. Spec => LA!Spec
  BY <1>1, <1>2, LabInvariant, PTL DEF Spec, LA!Spec
<1> QED
  BY <1>3 DEF GuardedPagesShowTheAnswer

-----------------------------------------------------------------------------
(* The bands of the regime chart, for every list of regimes.               *)

(* Every set of naturals has a least one. *)
LEMMA LeastOne ==
  ASSUME NEW T \in SUBSET Nat, T # {}
  PROVE  \E n \in T : \A m \in T : n <= m
<1> DEFINE Less == {ss \in Nat \X Nat : ss[1] < ss[2]}
<1>1. IsWellFoundedOn(Less, Nat)
  BY NatLessThanWellFounded, Zenon DEF OpToRel
<1>2. PICK n \in T : \A m \in T : <<m, n>> \notin Less
  <2> HIDE DEF Less
  <2> QED
    BY <1>1, WFMin
<1>3. ASSUME NEW m \in T
      PROVE  n <= m
  <2>1. <<m, n>> \in Nat \X Nat /\ ~(<<m, n>>[1] < <<m, n>>[2])
    BY <1>2
  <2> QED
    BY <2>1
<1> QED
  BY <1>3

NoRuns == [segs |-> <<>>, start |-> 1]
Scanned(ps, f, n) ==
  f = [k \in 1..n |-> IF k = 1 THEN NoRuns ELSE NextSegment(ps, f[k - 1], k)]

(* The loop of buildSegments is well defined: were it not for some number  *)
(* of bars, one bar more would not be the first such number.               *)
LEMMA ScanExists ==
  ASSUME NEW ps, NEW n \in Nat
  PROVE  \E f : Scanned(ps, f, n)
<1> DEFINE T == {m \in Nat : ~\E f : Scanned(ps, f, m)}
<1> SUFFICES ASSUME n \in T PROVE FALSE
  OBVIOUS
<1>1. PICK m \in T : \A l \in T : m <= l
  <2>1. T \in SUBSET Nat /\ T # {}
    OBVIOUS
  <2> HIDE DEF T
  <2> QED
    BY <2>1, LeastOne
<1>2. m \in Nat /\ ~\E f : Scanned(ps, f, m)
  BY <1>1
<1>3. CASE m = 0
  <2> DEFINE f == [k \in 1..m |-> NoRuns]
  <2>1. 1..m = {}
    BY <1>3
  <2>2. f = [k \in 1..m |-> IF k = 1 THEN NoRuns ELSE NextSegment(ps, f[k - 1], k)]
    BY <2>1
  <2> QED
    BY <1>2, <2>2 DEF Scanned
<1>4. CASE m # 0
  <2>1. m - 1 \in Nat /\ m - 1 \notin T
    BY <1>1, <1>2, <1>4
  <2>2. PICK f : Scanned(ps, f, m - 1)
    BY <2>1
  <2> DEFINE g == [k \in 1..m |-> IF k = m THEN IF m = 1 THEN NoRuns ELSE NextSegment(ps, f[m - 1], m)
                                  ELSE f[k]]
             h == [k \in 1..m |-> IF k = 1 THEN NoRuns ELSE NextSegment(ps, g[k - 1], k)]
  <2>3. ASSUME NEW k \in 1..m
        PROVE  g[k] = IF k = 1 THEN NoRuns ELSE NextSegment(ps, g[k - 1], k)
    <3>1. CASE k = m
      <4>1. CASE m = 1
        BY <3>1, <4>1
      <4>2. CASE m # 1
        <5>1. m - 1 \in 1..m /\ m - 1 # m
          BY <1>2, <1>4, <4>2
        <5>2. g[m - 1] = f[m - 1]
          BY <5>1
        <5> QED
          BY <3>1, <4>2, <5>2
      <4> QED
        BY <4>1, <4>2
    <3>2. CASE k # m
      <4>1. k \in 1..(m - 1)
        BY <1>2, <3>2
      <4>2. f[k] = IF k = 1 THEN NoRuns ELSE NextSegment(ps, f[k - 1], k)
        BY <2>2, <4>1 DEF Scanned
      <4>3. g[k] = f[k]
        BY <3>2
      <4>4. k # 1 => g[k - 1] = f[k - 1]
        <5>1. k # 1 => k - 1 \in 1..m /\ k - 1 # m
          BY <1>2, <4>1
        <5> QED
          BY <5>1
      <4> HIDE DEF g
      <4> QED
        BY <4>2, <4>3, <4>4
    <3> QED
      BY <3>1, <3>2
  <2>4. g = h
    BY <2>3
  <2>5. Scanned(ps, g, m)
    BY <2>4 DEF Scanned
  <2> QED
    BY <1>2, <2>5
<1> QED
  BY <1>3, <1>4

LEMMA ScanUnfolds ==
  ASSUME NEW ps, Len(ps) \in Nat
  PROVE  Scanned(ps, Scan(ps), Len(ps))
<1>1. PICK f : Scanned(ps, f, Len(ps))
  BY ScanExists
<1> QED
  BY <1>1, Zenon DEF Scanned, Scan, NoRuns

Bands == Nat \X Nat \X (0..2)
Painted(segs, ps, i) ==
  \E j \in DOMAIN segs : segs[j][1] <= i /\ i <= segs[j][2] /\ segs[j][3] = ps[i]
Neighbours(segs) ==
  \A j \in 1..Len(segs) - 1 : segs[j][2] + 1 = segs[j + 1][1] /\ segs[j][3] # segs[j + 1][3]
(* The next band, which begins at bar i in regime r, joins the last one.   *)
Joins(segs, i, r) ==
  Len(segs) # 0 => segs[Len(segs)][2] + 1 = i /\ segs[Len(segs)][3] # r

(* After k bars: the bands so far paint what is before start, and the bars *)
(* from start to k are of one regime.                                      *)
RunsUpTo(ps, acc, k) ==
  /\ acc.segs \in Seq(Bands) /\ acc.start \in 1..k
  /\ \A i \in acc.start..k : ps[i] = ps[k]
  /\ \A i \in 1..acc.start - 1 : Painted(acc.segs, ps, i)
  /\ Neighbours(acc.segs) /\ Joins(acc.segs, acc.start, ps[k])

(* A band that is pushed paints its bars and joins the one before it.      *)
LEMMA BandPushed ==
  ASSUME NEW ps \in Seq(0..2), NEW segs \in Seq(Bands), NEW a \in 1..Len(ps), NEW b \in a..Len(ps),
         \A i \in a..b : ps[i] = ps[b],
         \A i \in 1..a - 1 : Painted(segs, ps, i),
         Neighbours(segs), Joins(segs, a, ps[b])
  PROVE  LET more == Append(segs, <<a, b, ps[b]>>)
         IN /\ more \in Seq(Bands) /\ Len(more) # 0 /\ more[Len(more)] = <<a, b, ps[b]>>
            /\ \A i \in 1..b : Painted(more, ps, i)
            /\ Neighbours(more)
<1> DEFINE more == Append(segs, <<a, b, ps[b]>>)
           n == Len(segs)
<1>0. Len(ps) \in Nat /\ a \in Nat /\ b \in Nat /\ ps[b] \in 0..2 /\ a <= b
  OBVIOUS
<1>1. <<a, b, ps[b]>> \in Bands /\ <<a, b, ps[b]>>[1] = a /\ <<a, b, ps[b]>>[2] = b
      /\ <<a, b, ps[b]>>[3] = ps[b]
  BY <1>0 DEF Bands
<1> DEFINE new == <<a, b, ps[b]>>
<1>2. new \in Bands /\ new[1] = a /\ new[2] = b /\ new[3] = ps[b]
  BY <1>1
<1> HIDE DEF new
<1>3. /\ more \in Seq(Bands) /\ Len(more) = n + 1 /\ n \in Nat
      /\ more[n + 1] = new /\ \A j \in 1..n : more[j] = segs[j]
      /\ DOMAIN more = 1..(n + 1) /\ DOMAIN segs = 1..n
  <2>1. more = Append(segs, new)
    BY DEF new
  <2> HIDE DEF more
  <2> QED
    BY <1>2, <2>1
<1> HIDE DEF more, n
<1>4. ASSUME NEW i \in 1..b PROVE Painted(more, ps, i)
  <2>1. CASE i \in a..b
    <3>1. n + 1 \in DOMAIN more
      BY <1>3
    <3>2. more[n + 1][1] <= i /\ i <= more[n + 1][2] /\ more[n + 1][3] = ps[i]
      BY <1>0, <1>2, <1>3, <2>1
    <3> QED
      BY <3>1, <3>2 DEF Painted
  <2>2. CASE i \notin a..b
    <3>1. i \in 1..a - 1
      BY <1>0, <2>2
    <3>2. PICK j \in DOMAIN segs : segs[j][1] <= i /\ i <= segs[j][2] /\ segs[j][3] = ps[i]
      BY <3>1 DEF Painted
    <3>3. j \in DOMAIN more /\ more[j] = segs[j]
      BY <1>3, <3>2
    <3> QED
      BY <3>2, <3>3 DEF Painted
  <2> QED
    BY <2>1, <2>2
<1>5. Neighbours(more)
  <2> SUFFICES ASSUME NEW j \in 1..n
               PROVE  more[j][2] + 1 = more[j + 1][1] /\ more[j][3] # more[j + 1][3]
    BY <1>3 DEF Neighbours
  <2>1. CASE j = n
    BY <1>2, <1>3, <2>1 DEF Joins, n
  <2>2. CASE j # n
    <3>1. j \in 1..Len(segs) - 1 /\ j \in 1..n /\ j + 1 \in 1..n
      BY <1>3, <2>2 DEF n
    <3> QED
      BY <1>3, <3>1 DEF Neighbours
  <2> QED
    BY <2>1, <2>2
<1>6. Len(more) # 0 /\ more[Len(more)] = new
  BY <1>3
<1>7. more \in Seq(Bands)
  BY <1>3
<1> QED
  BY <1>4, <1>5, <1>6, <1>7, Zenon DEF more, new

(* One bar more. *)
LEMMA NextSegmentKeeps ==
  ASSUME NEW ps \in Seq(0..2), NEW k \in 2..Len(ps), NEW acc, RunsUpTo(ps, acc, k - 1)
  PROVE  RunsUpTo(ps, NextSegment(ps, acc, k), k)
<1> DEFINE a == acc.start
           segs == acc.segs
<1>0. Len(ps) \in Nat /\ k \in Nat /\ k - 1 \in Nat /\ k - 1 >= 1
  OBVIOUS
<1>1. /\ segs \in Seq(Bands) /\ a \in 1..k - 1
      /\ \A i \in a..k - 1 : ps[i] = ps[k - 1]
      /\ \A i \in 1..a - 1 : Painted(segs, ps, i)
      /\ Neighbours(segs) /\ Joins(segs, a, ps[k - 1])
  BY DEF RunsUpTo
<1>2. CASE ps[k] = ps[k - 1]
  <2>1. NextSegment(ps, acc, k) = acc
    BY <1>2 DEF NextSegment
  <2>2. a \in 1..k /\ \A i \in a..k : ps[i] = ps[k]
    <3>1. \A i \in a..k : i = k \/ i \in a..k - 1
      BY <1>0, <1>1
    <3> QED
      BY <1>0, <1>1, <1>2, <3>1
  <2> QED
    BY <1>1, <1>2, <2>1, <2>2 DEF RunsUpTo
<1>3. CASE ps[k] # ps[k - 1]
  <2> DEFINE more == Append(segs, <<a, k - 1, ps[k - 1]>>)
             next == [segs |-> more, start |-> k]
  <2>1. NextSegment(ps, acc, k) = next
    BY <1>3 DEF NextSegment
  <2>2. a \in 1..Len(ps) /\ k - 1 \in a..Len(ps)
    BY <1>0, <1>1
  <2>3. /\ more \in Seq(Bands) /\ Len(more) # 0 /\ more[Len(more)] = <<a, k - 1, ps[k - 1]>>
        /\ \A i \in 1..k - 1 : Painted(more, ps, i)
        /\ Neighbours(more)
    <3> HIDE DEF a, segs
    <3> QED
      BY <1>1, <2>2, BandPushed
  <2>4. Joins(more, k, ps[k])
    <3> HIDE DEF more
    <3> QED
      BY <1>0, <1>3, <2>3 DEF Joins
  <2>5. next.segs = more /\ next.start = k
    OBVIOUS
  <2> HIDE DEF more, next
  <2>6. k \in 1..k /\ \A i \in k..k : ps[i] = ps[k]
    BY <1>0
  <2> QED
    BY <2>1, <2>3, <2>4, <2>5, <2>6 DEF RunsUpTo
<1> QED
  BY <1>2, <1>3

LEMMA ScanKeeps ==
  ASSUME NEW ps \in Seq(0..2), NEW k \in 1..Len(ps)
  PROVE  RunsUpTo(ps, Scan(ps)[k], k)
<1> DEFINE T == {m \in 1..Len(ps) : ~RunsUpTo(ps, Scan(ps)[m], m)}
           f == Scan(ps)
<1> SUFFICES ASSUME k \in T PROVE FALSE
  OBVIOUS
<1>0. Len(ps) \in Nat
  OBVIOUS
<1>1. PICK m \in T : \A l \in T : m <= l
  <2>1. T \in SUBSET Nat /\ T # {}
    BY <1>0
  <2> HIDE DEF T
  <2> QED
    BY <2>1, LeastOne
<1>2. m \in 1..Len(ps) /\ ~RunsUpTo(ps, f[m], m)
  BY <1>1
<1>3. f[m] = IF m = 1 THEN NoRuns ELSE NextSegment(ps, f[m - 1], m)
  <2>1. f = [i \in 1..Len(ps) |-> IF i = 1 THEN NoRuns ELSE NextSegment(ps, f[i - 1], i)]
    BY <1>0, ScanUnfolds DEF Scanned
  <2> HIDE DEF f
  <2> QED
    BY <1>2, <2>1
<1>4. CASE m = 1
  <2>1. NoRuns.segs = <<>> /\ NoRuns.start = 1
    BY DEF NoRuns
  <2>2. <<>> \in Seq(Bands) /\ Len(<<>>) = 0
    OBVIOUS
  <2>3. 1 \in 1..1 /\ (\A i \in 1..1 : ps[i] = ps[1]) /\ 1..1 - 1 = {}
    OBVIOUS
  <2>4. Neighbours(<<>>) /\ Joins(<<>>, 1, ps[1])
    BY <2>2 DEF Neighbours, Joins
  <2>5. RunsUpTo(ps, NoRuns, 1)
    BY <2>1, <2>2, <2>3, <2>4 DEF RunsUpTo
  <2> QED
    BY <1>2, <1>3, <1>4, <2>5
<1>5. CASE m # 1
  <2>1. m \in 2..Len(ps) /\ m - 1 \in 1..Len(ps) /\ ~(m <= m - 1)
    BY <1>0, <1>2, <1>5
  <2>2. RunsUpTo(ps, f[m - 1], m - 1)
    BY <1>1, <2>1
  <2>3. RunsUpTo(ps, NextSegment(ps, f[m - 1], m), m)
    <3> HIDE DEF f
    <3> QED
      BY <2>1, <2>2, NextSegmentKeeps
  <2> QED
    BY <1>2, <1>3, <1>5, <2>3
<1> QED
  BY <1>4, <1>5

(* What every answer holds: regimes, for what the page computes with them. *)
PointsInv == data # None => data.points \in Seq(0..2)

LEMMA PointsInvariant == Spec => []PointsInv
<1>1. Init => PointsInv
  BY DEF Init, PointsInv
<1>2. AskInv /\ PointsInv /\ [Next]_vars => PointsInv'
  <2> SUFFICES ASSUME AskInv, PointsInv, [Next]_vars PROVE PointsInv'
    OBVIOUS
  <2>1. CASE UNCHANGED data
    BY <2>1 DEF PointsInv
  <2>2. CASE data' = None
    BY <2>2 DEF PointsInv
  <2>3. CASE AnswerLands
    <3> PICK k \in DOMAIN calls, a \in Answers : Lands(k, a)
      BY <2>3 DEF AnswerLands
    <3>1. a.points \in Seq(0..2)
      <4>1. a.points = <<>> \/ a.points \in PointSeqs
        BY DEF Answers
      <4>2. PointSeqs \subseteq Seq(0..2)
        BY LabAssumption DEF PointSeqs
      <4>3. <<>> \in Seq(0..2)
        OBVIOUS
      <4> QED
        BY <4>1, <4>2, <4>3, Zenon
    <3>2. UNCHANGED data \/ data' = Landed(calls[k], a)
      BY DEF Lands
    <3>3. CASE data' = Landed(calls[k], a)
      <4>1. data'.points = a.points
        BY <3>3 DEF Landed
      <4> QED
        BY <3>1, <4>1 DEF PointsInv
    <3> QED
      BY <2>1, <3>2, <3>3
  <2>4. CASE \E i \in Inputs : AsksAlone(i) \/ AsksAgain(i) \/ Edit(i)
    BY <2>1, <2>4 DEF AsksAlone, AsksAgain, Edit
  <2>5. CASE EditsForm \/ TimerFires \/ UNCHANGED RequestVars
    BY <2>1, <2>5 DEF EditsForm, TimerFires, RequestVars
  <2>6. CASE Navigate
    BY <2>2, <2>6 DEF Navigate, LabMounts
  <2> QED
    BY <2>3, <2>4, <2>5, <2>6, RequestSteps
<1>3. LabInv => AskInv
  BY DEF LabInv, RequestInv
<1> QED
  BY <1>1, <1>2, <1>3, LabInvariant, PTL DEF Spec

(* Whatever the regimes of the bars and however many there are, the bands  *)
(* of the chart paint every bar in its regime, follow one another without  *)
(* a gap or an overlap, and change the regime where they meet              *)
(* (MarketRegime.jsx:103).                                                 *)
THEOREM BandsCoverBars == Spec => []SegmentsCoverPoints
<1>1. ASSUME NEW ps \in Seq(0..2)
      PROVE  LET segs == BuildSegments(ps)
             IN /\ \A i \in DOMAIN ps : Painted(segs, ps, i)
                /\ Neighbours(segs)
  <2>1. CASE ps = <<>>
    <3>1. BuildSegments(ps) = <<>> /\ DOMAIN ps = {}
      BY <2>1 DEF BuildSegments
    <3> QED
      BY <3>1 DEF Neighbours
  <2>2. CASE ps # <<>>
    <3> DEFINE n == Len(ps)
               acc == Scan(ps)[n]
               segs == Append(acc.segs, <<acc.start, n, ps[n]>>)
    <3>1. BuildSegments(ps) = segs
      BY <2>2 DEF BuildSegments
    <3>2. n \in 1..Len(ps) /\ DOMAIN ps = 1..n
      BY <2>2
    <3>3. RunsUpTo(ps, acc, n)
      BY <3>2, ScanKeeps
    <3> HIDE DEF acc
    <3>4. /\ acc.segs \in Seq(Bands) /\ acc.start \in 1..n /\ n \in acc.start..Len(ps)
          /\ \A i \in acc.start..n : ps[i] = ps[n]
          /\ \A i \in 1..acc.start - 1 : Painted(acc.segs, ps, i)
          /\ Neighbours(acc.segs) /\ Joins(acc.segs, acc.start, ps[n])
      <4>1. /\ acc.segs \in Seq(Bands) /\ acc.start \in 1..n
            /\ \A i \in acc.start..n : ps[i] = ps[n]
            /\ \A i \in 1..acc.start - 1 : Painted(acc.segs, ps, i)
            /\ Neighbours(acc.segs)
        BY <3>3 DEF RunsUpTo
      <4>2. Joins(acc.segs, acc.start, ps[n])
        <5>1. Joins(acc.segs, acc.start, ps[n])
          BY <3>3 DEF RunsUpTo
        <5> QED
          BY <5>1
      <4> QED
        BY <3>2, <4>1, <4>2
    <3> DEFINE old == acc.segs
               a == acc.start
    <3>5. (\A i \in 1..n : Painted(segs, ps, i)) /\ Neighbours(segs)
      <4>1. /\ old \in Seq(Bands) /\ a \in 1..Len(ps) /\ n \in a..Len(ps)
            /\ \A i \in a..n : ps[i] = ps[n]
            /\ \A i \in 1..a - 1 : Painted(old, ps, i)
            /\ Neighbours(old) /\ Joins(old, a, ps[n])
            /\ segs = Append(old, <<a, n, ps[n]>>)
        BY <3>4
      <4> HIDE DEF n, old, a, segs
      <4> QED
        BY <4>1, BandPushed
    <3> QED
      BY <3>1, <3>2, <3>5
  <2> QED
    BY <2>1, <2>2
<1>2. PointsInv => SegmentsCoverPoints
  <2> SUFFICES ASSUME PointsInv PROVE SegmentsCoverPoints
    OBVIOUS
  <2>1. Points \in Seq(0..2)
    BY DEF PointsInv, Points
  <2> DEFINE segs == BuildSegments(Points)
  <2>2. (\A i \in DOMAIN Points : Painted(segs, Points, i)) /\ Neighbours(segs)
    BY <1>1, <2>1
  <2> HIDE DEF segs
  <2>3. /\ \A k \in DOMAIN Points :
             \E s \in DOMAIN segs : /\ segs[s][1] <= k /\ k <= segs[s][2]
                                    /\ segs[s][3] = Points[k]
        /\ \A s \in 1..Len(segs) - 1 : segs[s][2] + 1 = segs[s + 1][1] /\ segs[s][3] # segs[s + 1][3]
    BY <2>2, Zenon DEF Painted, Neighbours
  <2> QED
    BY <2>3, Zenon DEF SegmentsCoverPoints, segs
<1> QED
  BY <1>2, PointsInvariant, PTL
=============================================================================
