------------------------------- MODULE Router -------------------------------
(***************************************************************************)
(* The routes of the terminal (frontend/src/App.jsx) and what its layout   *)
(* (frontend/src/components/layout/DashboardLayout.jsx) offers on every    *)
(* one of them: the router mounts one page at a time.                      *)
(***************************************************************************)
EXTENDS FiniteSets

VARIABLE page  \* the route whose element is mounted

LabRoutes == {"quant", "regime", "optimizer", "options", "vol-surface",
              "vol-forecast", "backtest", "predict", "sentiment"}
DeskRoutes == {"dashboard", "portfolio", "performance", "trade", "paper-account", "account"}
Routes == LabRoutes \cup DeskRoutes

(* The navigation and the account chip below it. *)
Sidebar == Routes \ {"account"}

(* The modules of the quant lab, and the cards of its page. *)
Modules == {"options", "vol-surface", "vol-forecast", "backtest", "predict", "sentiment"}
Cards == Modules \cup {"regime", "optimizer"}

(* What a click can mount: only the paper account links to the settings.   *)
(* A link to the route that is mounted mounts nothing.                     *)
Links(p) ==
  ( Sidebar \cup (IF p = "paper-account" THEN {"account"} ELSE {})
            \cup (IF p = "quant" THEN Cards ELSE {}) ) \ {p}
=============================================================================
