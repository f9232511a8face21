------------------------------ MODULE Canvases ------------------------------
(***************************************************************************)
(* The two animated canvases: MonteCarloViz (frontend/src/components/ui/   *)
(* MonteCarloViz.jsx), which replays a simulation once, and VolSurface3D   *)
(* (VolSurface3D.jsx), which spins a surface until it is told not to.      *)
(*                                                                         *)
(* A frame is a callback the browser holds for requestAnimationFrame; it   *)
(* is named after the props its closure draws.  An effect runs in the      *)
(* step of the render it belongs to.  Pixels are abstracted to which data  *)
(* is drawn and how far, the estimate beside the chart to the count of the *)
(* finished paths it is computed from.                                     *)
(***************************************************************************)
EXTENDS Integers, FiniteSets, Sequences, SequencesExt

CONSTANTS LastFrame,  \* bound: frames of one replay; the last is progress 1
          NPaths,     \* sample paths of a simulation
          None        \* no data, no choice

ASSUME LastFrameAssumption == LastFrame \in Nat \ {0} /\ NPaths \in Nat \ {0, 1}

VARIABLES sim,  \* refs and state of MonteCarloViz
          orb   \* refs and state of VolSurface3D

-----------------------------------------------------------------------------
(* MonteCarloViz.  run is runId; on says there is a domain to draw in;     *)
(* frames holds the runs that have a tick scheduled, raf the one the       *)
(* component can cancel; first says that the tick has no start time yet;   *)
(* count is the number of finished paths it shows, last the one lastStat   *)
(* remembers.                                                              *)

NoCount == -1
SimOff == [run |-> 0, on |-> FALSE, frames |-> {}, raf |-> 0, first |-> TRUE,
           prog |-> 0, running |-> FALSE, drawn |-> 0, count |-> 0, last |-> NoCount]

(* In hundredths of a replay: path i of 0..NPaths - 1 sets out after its   *)
(* share of the stagger.                                                   *)
Travel == 50
LongStagger == 60  \* mutant: the last path sets out too late
Stagger == 46
Arrived(i, u) == 100 * u * (NPaths - 1) >= LastFrame * (Stagger * i + Travel * (NPaths - 1))
DrawPaths(u) == Cardinality({i \in 0..NPaths - 1 : Arrived(i, u)})

(* The count is set when it differs from the last one.                     *)
RenderFrame(s, u) ==
  LET done == DrawPaths(u)
  IN [s EXCEPT !.drawn = u, !.last = done, !.count = IF done = s.last THEN @ ELSE done]

Schedule(s, r) == [s EXCEPT !.frames = @ \cup {r}, !.raf = r]
NothingCancelled(s) == s  \* mutant: the cleanup is missing
CancelReplay(s) == [s EXCEPT !.frames = @ \ {s.raf}]

(* Sizing a canvas clears it.                                              *)
Measure(s) == [s EXCEPT !.drawn = 0]
LastStatKept(s) == [s EXCEPT !.running = TRUE, !.count = 0, !.prog = 0]  \* mutant
Rewound(s) == [s EXCEPT !.running = TRUE, !.count = 0, !.last = NoCount, !.prog = 0]

(* The effect on [runId, domain]: cleanup, then a replay from the start;   *)
(* without a domain it returns and leaves the rest as it is.               *)
Replay(s, r, on) ==
  LET c == [CancelReplay(s) EXCEPT !.on = on, !.run = r]
  IN IF ~on THEN c ELSE Schedule([Rewound(Measure(c)) EXCEPT !.first = TRUE], r)

Ticked(s, r, u) ==
  LET d == RenderFrame([s EXCEPT !.prog = u, !.first = FALSE, !.frames = @ \ {r}], u)
  IN IF u < LastFrame THEN Schedule(d, r) ELSE [d EXCEPT !.running = FALSE]

SimTick ==
  /\ \E r \in sim.frames, u \in 0..LastFrame :
       /\ IF sim.first THEN u = 0 ELSE u > sim.prog
       /\ sim' = Ticked(sim, r, u)
  /\ UNCHANGED orb

(* The observer calls back once when it starts and on every resize.        *)
SimResize ==
  /\ sim.on
  /\ sim' = RenderFrame(Measure(sim), IF sim.prog = 0 THEN LastFrame ELSE sim.prog)
  /\ UNCHANGED orb

-----------------------------------------------------------------------------
(* VolSurface3D.  iv is the surface of the last render, drawn the one on   *)
(* the canvas; loops are the pending frames, oldest first, each named after*)
(* the surface it draws; held says that raf.current is the last of them.   *)
(* No other pending frame can be cancelled any more.                       *)

OrbOff == [on |-> FALSE, iv |-> None, spin |-> FALSE, drag |-> FALSE,
           loops |-> <<>>, held |-> FALSE, drawn |-> None]

Draw(o, iv) == [o EXCEPT !.drawn = iv]
CancelLoop(o) == IF o.held THEN [o EXCEPT !.loops = Front(@), !.held = FALSE] ELSE o
Request(o, iv) == [o EXCEPT !.loops = Append(@, iv), !.held = TRUE]
Restarted(o) == Request(o, o.iv)  \* mutant: the loop before it goes on
Start(o) == Request(CancelLoop(o), o.iv)

(* The effects on [autoRotate] and on [iv, zmin, zmax, height]; at a mount *)
(* both run, in this order, at an unmount only the cleanup of the second.  *)
OrbTurned(o, auto) ==
  LET t == [o EXCEPT !.spin = auto]
  IN IF auto THEN Start(t) ELSE t
OrbShown(o, iv) ==
  LET d == Draw([o EXCEPT !.iv = iv], iv)
  IN IF d.spin THEN Start(d) ELSE d
OrbMounted(o, iv, auto) == OrbShown(OrbTurned([o EXCEPT !.on = TRUE, !.iv = iv], auto), iv)
OrbRedrawn(o, iv) == OrbShown(CancelLoop(o), iv)
OrbGone(o) == [OrbOff EXCEPT !.loops = CancelLoop(o).loops]

OrbRendered(on, iv, auto) ==
  CASE ~on -> OrbGone(orb)
    [] on /\ ~orb.on -> OrbMounted(orb, iv, auto)
    [] on /\ orb.on /\ iv # orb.iv -> OrbRedrawn(orb, iv)
    [] on /\ orb.on /\ iv = orb.iv /\ auto # orb.spin -> OrbTurned(orb, auto)
    [] OTHER -> orb

(* One turn of the loop that holds pending frame k. *)
Turned(o, k) ==
  LET d == [Draw(o, o.loops[k]) EXCEPT !.loops = RemoveAt(@, k), !.held = @ /\ k < Len(o.loops)]
  IN IF o.spin /\ ~o.drag THEN Request(d, o.loops[k]) ELSE d
OrbFrame ==
  /\ \E k \in DOMAIN orb.loops : orb' = Turned(orb, k)
  /\ UNCHANGED sim

OrbDown ==
  /\ orb.on
  /\ orb' = [CancelLoop(orb) EXCEPT !.drag = TRUE]
  /\ UNCHANGED sim

OrbMove ==
  /\ orb.drag
  /\ orb' = Draw(orb, orb.iv)
  /\ UNCHANGED sim

LetGo(o) ==
  LET r == [o EXCEPT !.drag = FALSE]
  IN IF r.spin THEN Start(r) ELSE r

(* onPointerUp and onPointerLeave. *)
OrbUp ==
  /\ orb.on
  /\ orb' = LetGo(orb)
  /\ UNCHANGED sim

CanvasInit == sim = SimOff /\ orb = OrbOff
CanvasNext == SimTick \/ SimResize \/ OrbFrame \/ OrbDown \/ OrbMove \/ OrbUp

-----------------------------------------------------------------------------
(* Properties *)

(* "zero idle CPU" (MonteCarloViz.jsx:18) and no frozen replay: while      *)
(* there is something to draw, the component says Running exactly as long  *)
(* as one tick is scheduled, its own, and what it calls Converged has run  *)
(* to the end, however runs, failures and resizes come in between.         *)
OneReplayAtATime ==
  sim.on => /\ sim.frames = (IF sim.running THEN {sim.run} ELSE {})
            /\ ~sim.running => sim.prog = LastFrame

(* The count and the estimate beside the chart, which are set only when    *)
(* they change, are those of the frame that is drawn, through resizes and  *)
(* reruns; and when it says Converged every path has arrived ("STAGGER +   *)
(* TRAVEL must stay <= 1", MonteCarloViz.jsx:30).                          *)
CountMatchesCanvas ==
  sim.on => /\ sim.count = DrawPaths(sim.drawn)
            /\ ~sim.running => sim.count = NPaths

(* Drag and auto-spin (VolSurface3D.jsx:8) hand the loop to each other: a  *)
(* surface that is to spin and is not held has a frame pending, and there  *)
(* is never a second one, which would spin it at twice the speed and could *)
(* not be cancelled, nor one of an earlier render, which would draw an old *)
(* surface over a new one, nor one of a canvas that is gone.               *)
SurfaceSpins ==
  /\ orb.on => /\ orb.drawn = orb.iv
               /\ orb.loops \in {<<>>, <<orb.iv>>}
               /\ orb.spin /\ ~orb.drag => orb.loops # <<>>
  /\ ~orb.on => orb.loops = <<>>
=============================================================================
