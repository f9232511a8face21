------------------------------ MODULE LabPages ------------------------------
(***************************************************************************)
(* The pages of the quant lab (frontend/src/pages: MarketRegime, Optimizer,*)
(* OptionPricer, VolSurface, VolForecast, Backtester, Predictor, Sentiment,*)
(* QuantLab) and the overlay they share (components/ui/Modal.jsx and       *)
(* InfoButton.jsx).                                                        *)
(*                                                                         *)
(* Each page asks the server for a computation and shows the answer.  The  *)
(* pages differ in when they ask (at once, on a button, after a pause) and *)
(* in whether an answer nobody waits for any more is dropped.  An event    *)
(* handler, the renders it causes and their effects are one step, and so   *)
(* is the landing of an answer: React runs both to the end.                *)
(*                                                                         *)
(* What a form holds is abstracted to an input; the answer to which input  *)
(* is on the screen is what the properties tell apart.  Points stand for   *)
(* the rows of an answer where the page computes with them: the regimes of *)
(* the bars.                                                               *)
(***************************************************************************)
EXTENDS Router, Canvases, Sequences, SequencesExt

CONSTANTS Inputs,     \* what a form can hold
          Default,    \* what it holds when the page mounts
          TooFew,     \* the inputs that name fewer than two symbols
          MaxEdits,   \* bound: edits and runs per visit of a page
          MaxPoints,  \* bound: rows of an answer
          InfoButtons,   \* the info buttons of a page
          FigureButtons  \* those among the figures, which only an answer brings

ASSUME LabAssumption ==
  /\ Default \in Inputs \ TooFew /\ None \notin Inputs
  /\ MaxEdits \in Nat /\ MaxPoints \in Nat
  /\ FigureButtons \subseteq InfoButtons

VARIABLES form,       \* the input the controls show
          due,        \* the input whose timer is running, or None
          calls,      \* requests in flight, oldest first
          data,       \* the last answer that landed, or None
          loading,
          asked,      \* history: the input of the newest request
          overtaken,  \* history: the newest answer landed before an older one
          stats,      \* the cells of the lab's overview
          panel,      \* view, spin and surface toggles
          modal,      \* the overlays and the scroll style of the body; history:
                      \* two of them have been open at once
          edits       \* bound

labVars == <<form, due, calls, data, loading, asked, overtaken, stats, panel,
             modal, edits, sim, orb>>
vars == <<page, labVars>>

AtOnce == {"regime", "optimizer", "options", "sentiment"}  \* ask when they mount
Debounced == {"vol-surface", "vol-forecast", "backtest", "predict"}
Guarded == {"regime", "optimizer", "options"}  \* drop an answer that is not awaited

-----------------------------------------------------------------------------
(* Modal.  Every info button owns one and the regime page has one of its   *)
(* own, so several can be open.  Each keeps the scroll style it found in   *)
(* saved and puts it back when its effect is cleaned up; the order of      *)
(* several cleanups is that of the component tree, here any.               *)

ModalOff == [saved |-> [x \in {} |-> ""], overflow |-> "", stacked |-> FALSE]
Open(m) == DOMAIN m.saved

(* What the body has after the cleanups of xs, the last of them last.      *)
LockKept(m, xs) == {m.overflow}  \* mutant: the cleanup does not restore the style
Restored(m, xs) == IF xs = {} THEN {m.overflow} ELSE {m.saved[x] : x \in xs}

ModalOpens(m, x) ==
  [saved |-> [y \in Open(m) \cup {x} |-> IF y = x THEN m.overflow ELSE m.saved[y]],
   overflow |-> "hidden",
   stacked |-> m.stacked \/ Open(m) # {}]
ModalCloses(m, xs) ==
  {[m EXCEPT !.saved = Restrict(m.saved, Open(m) \ xs), !.overflow = style] :
     style \in Restored(m, xs)}

(* A render of the page: onClose is new, so the effect of every overlay    *)
(* runs again, after the cleanups of all; those in gone have lost the      *)
(* block they were in.  The first to lock finds the style of the page.     *)
Locked(m, rest, style) ==
  {[m EXCEPT !.saved = [x \in rest |-> IF x = first THEN style ELSE "hidden"],
             !.overflow = "hidden"] : first \in rest}
ModalRendered(m, gone) ==
  LET rest == Open(m) \ gone
  IN IF rest = {} THEN ModalCloses(m, Open(m))
     ELSE UNION {Locked(m, rest, style) : style \in Restored(m, Open(m))}

-----------------------------------------------------------------------------
(* What the pages derive from an answer. *)

Success(d) == d # None /\ d.status = "success"
Points == IF data = None THEN <<>> ELSE data.points

(* Runs of one regime, as <<first, last, regime>>. *)
NextSegment(ps, acc, k) ==
  IF ps[k] = ps[k - 1] THEN acc
  ELSE [segs |-> Append(acc.segs, <<acc.start, k - 1, ps[k - 1]>>), start |-> k]
Scan(ps) ==
  LET acc[k \in 1..Len(ps)] == IF k = 1 THEN [segs |-> <<>>, start |-> 1]
                               ELSE NextSegment(ps, acc[k - 1], k)
  IN acc
SegmentDropped(ps) ==  \* mutant: the push after the loop is missing
  IF ps = <<>> THEN <<>> ELSE Scan(ps)[Len(ps)].segs
BuildSegments(ps) ==
  IF ps = <<>> THEN <<>>
  ELSE LET acc == Scan(ps)[Len(ps)]
       IN Append(acc.segs, <<acc.start, Len(ps), ps[Len(ps)]>>)

-----------------------------------------------------------------------------
(* The screens: chart is what the main panel shows, figures the inputs     *)
(* whose numbers are on the page.                                          *)

IfOk == IF Success(data) THEN {data.of} ELSE {}
Placeholder == IF loading THEN "busy" ELSE "prompt"

RegimeFigures == IF data = None \/ data.status = "error" THEN {} ELSE {data.of}
RegimeChart ==
  IF loading THEN "busy"
  ELSE IF Points # <<>> THEN "chart"
  ELSE IF data # None /\ data.status = "insufficient_data" THEN "too short" ELSE "no data"

FrontierPanel ==
  IF loading THEN "busy"
  ELSE IF Success(data) THEN "chart"
  ELSE IF data # None /\ data.status # "error" THEN data.status ELSE "no data"
OptimalPortfolios == IfOk

OptionValuation == IfOk
SimulationPanel == IF loading THEN "busy" ELSE IF sim.on THEN "chart" ELSE "prompt"

SurfaceFigures == IfOk
SurfacePanel == IF Success(data) THEN panel.view ELSE Placeholder

ForecastFigures == IfOk
ForecastPanel == IF Success(data) THEN panel.surf ELSE Placeholder

BacktestFigures == IfOk
BacktestPanel == IF Success(data) THEN "chart" ELSE Placeholder

PredictionFigures == IfOk
PredictionPanel == IF Success(data) THEN "chart" ELSE Placeholder

SentimentFigures == IfOk
SentimentPanel == IF Success(data) THEN "chart" ELSE Placeholder

LabOverview ==
  IF \A c \in Modules : stats[c] # None THEN "chart" ELSE "busy"

Screen ==
  CASE page = "regime" -> [chart |-> RegimeChart, figures |-> RegimeFigures]
    [] page = "optimizer" -> [chart |-> FrontierPanel, figures |-> OptimalPortfolios]
    [] page = "options" -> [chart |-> SimulationPanel, figures |-> OptionValuation]
    [] page = "vol-surface" -> [chart |-> SurfacePanel, figures |-> SurfaceFigures]
    [] page = "vol-forecast" -> [chart |-> ForecastPanel, figures |-> ForecastFigures]
    [] page = "backtest" -> [chart |-> BacktestPanel, figures |-> BacktestFigures]
    [] page = "predict" -> [chart |-> PredictionPanel, figures |-> PredictionFigures]
    [] page = "sentiment" -> [chart |-> SentimentPanel, figures |-> SentimentFigures]
    [] page = "quant" -> [chart |-> LabOverview, figures |-> {}]
    [] OTHER -> [chart |-> "none", figures |-> {}]

-----------------------------------------------------------------------------
(* Renders. *)

(* The surface a volatility page hands to its canvas. *)
SurfaceIv(d, pn) ==
  CASE Success(d) /\ page = "vol-surface" /\ pn.view = "3d" -> <<d.of, "iv">>
    [] Success(d) /\ page = "vol-forecast" -> <<d.of, pn.surf>>
    [] OTHER -> None

HostGone(d) == IF Success(d) THEN {} ELSE FigureButtons
Rendered(d, pn) ==
  /\ modal' \in ModalRendered(modal, HostGone(d))
  /\ orb' = LET iv == SurfaceIv(d, pn) IN OrbRendered(iv # None, iv, pn.spin)

SimulationLands(d) ==
  IF page # "options" THEN sim
  ELSE IF Success(d) THEN Replay(sim, sim.run + 1, TRUE)
  ELSE Replay(sim, sim.run, FALSE)

Edits == edits < MaxEdits /\ edits' = edits + 1

-----------------------------------------------------------------------------
(* Asking. *)

StillMounted(cs) == cs  \* mutant: the cleanup leaves mounted as it was
Unmounted(cs) == [k \in DOMAIN cs |-> [cs[k] EXCEPT !.mounted = FALSE]]

(* The request effects begin. *)
Asks(i, cs) ==
  /\ calls' = Append(cs, [of |-> i, mounted |-> TRUE])
  /\ loading' = TRUE
  /\ asked' = i
  /\ overtaken' = FALSE

(* The effects of the guarded pages, at a change of what they depend on.   *)
RegimeEffect(i) == Asks(i, Unmounted(calls)) /\ UNCHANGED data
OptimizerEffect(i) ==
  IF i \in TooFew
  THEN /\ calls' = Unmounted(calls) /\ loading' = FALSE
       /\ data' = [of |-> i, status |-> "need_two_symbols", points |-> <<>>]
       /\ asked' = i /\ UNCHANGED overtaken
  ELSE Asks(i, Unmounted(calls)) /\ UNCHANGED data
OptionsEffect(i) == Asks(i, Unmounted(calls)) /\ UNCHANGED data

(* A control of the regime page: another symbol or interval asks at once.  *)
RegimeEdit(i) ==
  /\ page = "regime" /\ i # form /\ Edits
  /\ form' = i
  /\ RegimeEffect(i)
  /\ Rendered(data, panel)
  /\ UNCHANGED <<page, due, stats, panel, sim>>

(* A symbol of the universe is toggled, a field of the contract is edited, *)
(* a transcript is typed: nothing is asked yet.                            *)
OptimizerToggle(i) == page = "optimizer" /\ i # form /\ form' = i
OptionsEdit(i) == page = "options" /\ i # form /\ form' = i
TypeText(i) == page = "sentiment" /\ i # form /\ form' = i
Fill ==
  /\ \E i \in Inputs : OptimizerToggle(i) \/ OptionsEdit(i) \/ TypeText(i)
  /\ Edits
  /\ Rendered(data, panel)
  /\ UNCHANGED <<page, due, calls, data, loading, asked, overtaken, stats, panel, sim>>

(* The buttons, and when they are enabled. *)
OptimizeEnabled == ~loading /\ form \notin TooFew
SimulateEnabled == ~loading
AnalyzeEnabled == ~loading

OptimizerRun ==
  /\ page = "optimizer" /\ OptimizeEnabled /\ Edits
  /\ OptimizerEffect(form)
  /\ Rendered(data, panel)
  /\ UNCHANGED <<page, form, due, stats, panel, sim>>

OptionsRun ==
  /\ page = "options" /\ SimulateEnabled /\ Edits
  /\ OptionsEffect(form)
  /\ Rendered(data, panel)
  /\ UNCHANGED <<page, form, due, stats, panel, sim>>

(* Sentiment runs at a new symbol even when an answer is out. *)
Analyze ==
  /\ page = "sentiment" /\ AnalyzeEnabled /\ Edits
  /\ Asks(form, calls)
  /\ Rendered(data, panel)
  /\ UNCHANGED <<page, form, due, data, stats, panel, sim>>

ChooseSymbol(i) ==
  /\ page = "sentiment" /\ i # form /\ Edits
  /\ form' = i
  /\ Asks(i, calls)
  /\ Rendered(data, panel)
  /\ UNCHANGED <<page, due, data, stats, panel, sim>>

(* The effects of the debounced pages: clear the timer and start another.  *)
TimerKept(i) == IF due = None THEN i ELSE due  \* mutant: the running timer stays
TimerRestarted(i) == i
Edit(i) ==
  /\ page \in Debounced /\ i # form /\ Edits
  /\ form' = i
  /\ due' = TimerRestarted(i)
  /\ Rendered(data, panel)
  /\ UNCHANGED <<page, calls, data, loading, asked, overtaken, stats, panel, sim>>

TimerFires ==
  /\ due # None
  /\ due' = None
  /\ Asks(due, calls)
  /\ Rendered(data, panel)
  /\ UNCHANGED <<page, form, data, stats, panel, sim, edits>>

-----------------------------------------------------------------------------
(* Answering. *)

PointSeqs == UNION {[1..n -> 0..2] : n \in 0..MaxPoints}
Answers ==
  [status : {"error"}, points : {<<>>}]
    \cup (IF page \in {"regime", "optimizer"}
          THEN [status : {"insufficient_data"}, points : {<<>>}] ELSE {})
    \cup [status : {"success"},
          points : IF page = "regime" THEN PointSeqs ELSE {<<>>}]

(* An effect that was cleaned up keeps its hands off the page. *)
NeverDropped(c) == FALSE  \* mutant: the flag is not looked at
Dropped(c) == page \in Guarded /\ ~c.mounted

(* A failure replaces the answer before it by its message.                 *)
KeptOnError(c, a) ==  \* mutant: the catch leaves the old answer
  IF a.status = "error" THEN data ELSE [of |-> c.of, status |-> a.status, points |-> a.points]
Landed(c, a) == [of |-> c.of, status |-> a.status, points |-> a.points]
BusyAfterError(a) == a.status = "error"  \* mutant: the catch does not reset loading
BusyAfter(a) == FALSE

Lands(k, a) ==
  LET c == calls[k]
  IN /\ calls' = RemoveAt(calls, k)
     /\ overtaken' = (overtaken \/ (k = Len(calls) /\ k > 1))
     /\ IF Dropped(c) THEN UNCHANGED <<data, loading, sim, orb, modal>>
        ELSE /\ data' = Landed(c, a)
             /\ loading' = BusyAfter(a)
             /\ sim' = SimulationLands(data')
             /\ Rendered(data', panel)

AnswerLands ==
  /\ page \in AtOnce \cup Debounced
  /\ \E k \in DOMAIN calls : \E a \in Answers : Lands(k, a)
  /\ UNCHANGED <<page, form, due, asked, stats, panel, edits>>

(* A module of the overview answers; what its pick cannot read is a dash.  *)
StatLands ==
  /\ page = "quant"
  /\ \E c \in Modules, v \in {"value", "dash"} :
       /\ stats[c] = None
       /\ stats' = [stats EXCEPT ![c] = v]
  /\ Rendered(data, panel)
  /\ UNCHANGED <<page, form, due, calls, data, loading, asked, overtaken, panel, edits, sim>>

-----------------------------------------------------------------------------
(* Toggles and the overlay. *)

PanelOff == [view |-> "3d", spin |-> FALSE, surf |-> "forecast"]

ToggleView == \E v \in {"3d", "heat"} : panel' = [panel EXCEPT !.view = v]
ToggleSpin == panel.view = "3d" /\ panel' = [panel EXCEPT !.spin = ~@]
ToggleSurf == \E s \in {"current", "forecast"} : panel' = [panel EXCEPT !.surf = s]
Toggle ==
  /\ \/ page = "vol-surface" /\ (ToggleView \/ ToggleSpin)
     \/ page = "vol-forecast" /\ ToggleSurf
  /\ Rendered(data, panel')
  /\ UNCHANGED <<page, form, due, calls, data, loading, asked, overtaken, stats, edits, sim>>

(* The regime page explains a regime in an overlay of the page: choosing   *)
(* another one renders the page.  On the other pages an info button renders*)
(* only itself.  Nothing keeps the focus inside an open overlay.           *)
PageOwn == "page"
DeepDive ==
  /\ page = "regime"
  /\ \/ PageOwn \notin Open(modal) /\ modal' = ModalOpens(modal, PageOwn)
     \/ PageOwn \in Open(modal) /\ modal' \in ModalRendered(modal, {})
InfoButton ==
  /\ page \in LabRoutes \ {"regime", "quant"}
  /\ \E x \in InfoButtons \ (HostGone(data) \cup Open(modal)) : modal' = ModalOpens(modal, x)
OpenInfo ==
  /\ DeepDive \/ InfoButton
  /\ UNCHANGED <<page, form, due, calls, data, loading, asked, overtaken, stats, panel, edits,
                 sim, orb>>

(* The cross and the backdrop close one overlay, Escape all there are.     *)
CloseInfo ==
  /\ \E xs \in {{x} : x \in Open(modal)} \cup ({Open(modal)} \ {{}}) :
       modal' \in ModalCloses(modal, xs)
  /\ UNCHANGED <<page, form, due, calls, data, loading, asked, overtaken, stats, panel, edits,
                 sim, orb>>

StillPage == UNCHANGED <<page, form, due, calls, data, loading, asked, overtaken, stats,
                         panel, modal, edits>>
Animation == CanvasNext /\ StillPage

-----------------------------------------------------------------------------
(* A page mounts: its state is new and its effects ask.  The page that was *)
(* mounted is gone with its state, its timer, its frames and its overlay;  *)
(* what still comes back for it changes nothing.                           *)

TimerOutlives(q) ==  \* mutant: the timer of the old page is not cleared
  [calls |-> IF q \in AtOnce THEN <<[of |-> Default, mounted |-> TRUE]>> ELSE <<>>,
   due |-> IF q \in Debounced THEN Default ELSE due,
   asked |-> IF q \in AtOnce THEN Default ELSE None,
   loading |-> q \in AtOnce \cup Debounced]
LabFresh(q) ==
  [calls |-> IF q \in AtOnce THEN <<[of |-> Default, mounted |-> TRUE]>> ELSE <<>>,
   due |-> IF q \in Debounced THEN Default ELSE None,
   asked |-> IF q \in AtOnce THEN Default ELSE None,
   loading |-> q \in AtOnce \cup Debounced]

LabMounts(q) ==
  /\ form' = Default /\ data' = None /\ overtaken' = FALSE /\ edits' = 0
  /\ LET f == LabFresh(q)
     IN calls' = f.calls /\ due' = f.due /\ asked' = f.asked /\ loading' = f.loading
  /\ stats' = [c \in Modules |-> None]
  /\ panel' = PanelOff
  /\ modal' \in ModalCloses(modal, Open(modal))
  /\ sim' = SimOff /\ orb' = OrbGone(orb)

Init ==
  /\ page = "dashboard"
  /\ form = Default /\ data = None /\ overtaken = FALSE /\ edits = 0
  /\ calls = <<>> /\ due = None /\ asked = None /\ loading = FALSE
  /\ stats = [c \in Modules |-> None]
  /\ panel = PanelOff /\ modal = ModalOff
  /\ CanvasInit

(* The lab, and the page the terminal starts on. *)
Navigate ==
  \E q \in Links(page) \cap (LabRoutes \cup {"dashboard"}) : page' = q /\ LabMounts(q)

Next ==
  \/ \E i \in Inputs : RegimeEdit(i) \/ ChooseSymbol(i) \/ Edit(i)
  \/ Fill \/ OptimizerRun \/ OptionsRun \/ Analyze
  \/ TimerFires \/ AnswerLands \/ StatLands
  \/ Toggle \/ OpenInfo \/ CloseInfo \/ Animation
  \/ Navigate

Spec == Init /\ [][Next]_vars

(* Timers fire, the browser draws frames and every request is answered or  *)
(* fails: the client gives up on one after its timeout.                    *)
Fairness ==
  /\ WF_vars(TimerFires) /\ WF_vars(AnswerLands) /\ WF_vars(StatLands)
  /\ WF_vars(SimTick /\ StillPage)
FairSpec == Spec /\ Fairness

-----------------------------------------------------------------------------
(* Properties *)

LabTypeOK ==
  /\ form \in Inputs
  /\ due \in Inputs \cup {None} /\ (due # None => page \in Debounced)
  /\ asked \in Inputs \cup {None}
  /\ calls \in Seq([of : Inputs, mounted : BOOLEAN]) /\ Len(calls) <= MaxEdits + 1
  /\ data # None => data.of \in Inputs
  /\ loading \in BOOLEAN /\ overtaken \in BOOLEAN
  /\ edits \in 0..MaxEdits

(* The pages that drop unawaited answers (mounted, e.g. MarketRegime.jsx:  *)
(* 141-156) implement LatestAnswer: whatever is edited, rerun and answered *)
(* in whatever order, when such a page shows figures and is not busy they  *)
(* are those of its newest request, and it goes back to busy first.        *)
ShownFigures ==
  IF page \notin Guarded \/ Screen.chart = "busy" THEN None
  ELSE IF data.status = "error" THEN 0 ELSE data.of
LA == INSTANCE LatestAnswer WITH
        Requests <- Inputs, Failed <- 0,
        asked <- IF page \in Guarded THEN asked ELSE Default,
        shown <- ShownFigures
GuardedPagesShowTheAnswer == LA!Spec

(* On the guarded pages the busy flag counts: it is up exactly while one   *)
(* request that is still awaited is out, and never two are awaited.        *)
OneLiveCall ==
  page \in Guarded =>
    Cardinality({k \in DOMAIN calls : calls[k].mounted}) = (IF loading THEN 1 ELSE 0)

(* A pause in the typing always asks for what the form holds: no edit of a *)
(* debounced page is lost, however it falls against the timer.             *)
LastEditIsAsked ==
  page \in Debounced => (IF due = None THEN asked ELSE due) = form

(* The pages without the mounted flag can end up with an answer that is    *)
(* not the last asked for, but only if the newest answer came before an    *)
(* older one: there is no other way to lose it.                            *)
StaleOnlyFromOvertaking ==
  /\ page \in AtOnce \cup Debounced /\ due = None /\ calls = <<>>
  => /\ ~loading
     /\ Screen.figures \subseteq {asked} \/ overtaken

(* The bands of the regime chart (MarketRegime.jsx:103) paint every bar    *)
(* once, in its regime, and two neighbours never share one.                *)
SegmentsCoverPoints ==
  page = "regime" =>
    LET segs == BuildSegments(Points)
    IN /\ \A k \in DOMAIN Points :
            \E s \in DOMAIN segs : /\ segs[s][1] <= k /\ k <= segs[s][2]
                                   /\ segs[s][3] = Points[k]
       /\ \A s \in 1..Len(segs) - 1 : segs[s][2] + 1 = segs[s + 1][1] /\ segs[s][3] # segs[s + 1][3]

(* The page under an overlay does not scroll (Modal.jsx:9), and it scrolls *)
(* again once the overlay is gone, whether it was closed, lost the block it*)
(* was in or was left with its page, and however often the page was        *)
(* rendered under it: as long as no two overlays have been open at once.   *)
(* Two of them save and restore the style in no order that would be right. *)
ScrollFollowsModal ==
  ~modal.stacked => (modal.overflow = "hidden" <=> Open(modal) # {})

(* A page one stays on is not busy for ever, with an answer to wait for,   *)
(* a timer, or modules of the overview still out, and a replay comes to    *)
(* its end.                                                                *)
Leaving == []<><<TRUE>>_page
Busy == Screen.chart = "busy"
BusyEnds == Leaving \/ ([]<>(~Busy) /\ []<>(~(sim.on /\ sim.running)))
=============================================================================
