------------------------------ MODULE WindowLog ------------------------------
(***************************************************************************)
(* What the windowed runtime promises of the spans it retains, with the    *)
(* locks, the clock and the handlers of internal/runtime/engine.go hidden: *)
(*                                                                         *)
(*   - there is one open window; a retained span enters it once and for    *)
(*     all, whatever request carried it;                                   *)
(*   - a window closes as a whole, and at most one closed window is being  *)
(*     published at any time;                                              *)
(*   - a closed window is published whole or given up whole, and the       *)
(*     published windows appear in the order in which they closed.         *)
(***************************************************************************)
EXTENDS Integers, Sequences

CONSTANT Span           \* the spans that may ever be retained

VARIABLES
  open,                 \* spans of the open window
  horizon,              \* end of the open window
  closing,              \* the closed windows not yet settled: none or one
  log,                  \* the published windows, oldest first
  seen                  \* every span retained so far

vars == <<open, horizon, closing, log, seen>>

Init ==
  /\ open = {}
  /\ horizon \in Nat
  /\ closing = {}
  /\ log = << >>
  /\ seen = {}

\* A span is retained: it is new, and it joins the open window.
Retain(s) ==
  /\ s \notin seen
  /\ open' = open \cup {s}
  /\ seen' = seen \cup {s}
  /\ UNCHANGED <<horizon, closing, log>>

\* An empty window is passed over.
Skip ==
  /\ open = {}
  /\ horizon' \in Nat /\ horizon' > horizon
  /\ UNCHANGED <<open, closing, log, seen>>

\* The open window closes; a later one opens, empty.
CloseWindow ==
  /\ closing = {}
  /\ closing' = {[end |-> horizon, spans |-> open]}
  /\ open' = {}
  /\ horizon' \in Nat /\ horizon' > horizon
  /\ UNCHANGED <<log, seen>>

\* The closed window is published as the newest entry of the log.
Publish ==
  /\ \E w \in closing : log' = Append(log, w)
  /\ closing' = {}
  /\ UNCHANGED <<open, horizon, seen>>

\* Publication failed, or there was nothing to show: the window is given up.
GiveUp ==
  /\ closing # {}
  /\ closing' = {}
  /\ UNCHANGED <<open, horizon, log, seen>>

Next ==
  \/ \E s \in Span : Retain(s)
  \/ Skip
  \/ CloseWindow
  \/ Publish
  \/ GiveUp

Spec == Init /\ [][Next]_vars
=============================================================================
