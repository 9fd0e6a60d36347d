---------------------------- MODULE MCReconciler ----------------------------
(***************************************************************************)
(* Two services, an edge between them, and endpoints of the caller.        *)
(***************************************************************************)
EXTENDS Reconciler

CONSTANTS a, b, ab, ep, eq, Overlay, Shapes, Supports, Latencies

MCFrom == [e \in Entities |-> IF e = b THEN b ELSE a]
MCTo == [e \in Entities |-> IF e \in {b, ab} THEN b ELSE a]

\* Traces have the strength 0.35; an overlay pins the entities of Overlay.
MCProvenance == [e \in Entities |-> IF e \in Overlay THEN 1000 ELSE 350]

Window(observed, n, frozen, latency) ==
  [observed |-> observed, frozen |-> frozen,
   support |-> [e \in Entities |-> IF e \in observed THEN n ELSE 0],
   latency |-> [e \in Entities |-> IF e = ab THEN latency ELSE 1]]

\* Each window shows one of Shapes, with as many observations of each entity,
\* or nothing at all.
MCWindows ==
  {Window(o, n, f, l) : o \in Shapes, n \in Supports, f \in BOOLEAN, l \in Latencies}
    \cup {Window({}, 0, FALSE, 1)}

\* The thresholds of the unit tests, small enough to be crossed in a few
\* windows.  The guardrail threshold is not set: it is 0.3 in effect.
MCWritten ==
  [softGapMultiplier |-> 1000, hardGapMultiplier |-> 1000,
   minSoftWindows |-> 1, minHardWindows |-> 2,
   minimumOpportunity |-> 2, gapEMAAlpha |-> 350,
   sourceResistanceSoft |-> 0, sourceResistanceHard |-> 0,
   stableCoreExistence |-> 500, stableCoreActivity |-> 350,
   guardrailExistence |-> 0, retirementExistence |-> 450,
   retiredTTL |-> 1, compactionCadence |-> 2, maxRetiredPerKind |-> 1, maxRetiredOverall |-> 1]
=============================================================================
