----------------------------- MODULE Reconciler -----------------------------
(***************************************************************************)
(* The reconciler of internal/reconciliation: what is remembered of each   *)
(* service, edge and endpoint from window to window, the two views made of *)
(* it, their versions, and the state file behind them.                     *)
(*                                                                         *)
(* Confidences are thousandths: clamp01 rounds them to that.  Strengths,   *)
(* multipliers and gaps are thousandths too; of these only the gap is not  *)
(* exact, and is rounded down.  What a window brings is a record: the      *)
(* entities discovery reported, the observations that support each,        *)
(* latency, for the rest of what it reported of them, and frozen, for the  *)
(* verdict of evaluateTelemetryHealth.                                     *)
(***************************************************************************)
EXTENDS Integers, FiniteSetsExt, Functions

CONSTANTS
  Services, Edges, Endpoints,
  From, To,             \* the services of an edge; of an endpoint, both its own
  Provenance,           \* the strength of the sources of each entity
  Windows,              \* what a window may bring
  Written,              \* the settings, as they are written
  LastWindow,           \* bound: the clock stops there
  Faults,               \* whether writes fail and the process crashes
  None

Entities == Services \cup Edges \cup Endpoints
Fields == {"softGapMultiplier", "hardGapMultiplier", "minSoftWindows", "minHardWindows",
           "minimumOpportunity", "gapEMAAlpha", "sourceResistanceSoft",
           "sourceResistanceHard", "stableCoreExistence", "stableCoreActivity",
           "guardrailExistence", "retirementExistence", "retiredTTL",
           "compactionCadence", "maxRetiredPerKind", "maxRetiredOverall"}

\* RuntimeReconciliationConfig.Validate looks at the settings as they are
\* written.  Config.Validate comes after WithDefaults and does not compare the
\* two views.
ASSUME ConfigAssumption ==
  /\ Written \in [Fields -> Nat]
  /\ Written.minSoftWindows \in 1..Written.minHardWindows
  /\ Written.guardrailExistence <= Written.stableCoreExistence
  /\ \A f \in {"minimumOpportunity", "retiredTTL", "compactionCadence",
               "maxRetiredPerKind", "maxRetiredOverall"} : Written[f] > 0
  /\ Written.gapEMAAlpha \in 1..1000
  /\ LastWindow \in Nat /\ Faults \in BOOLEAN

\* Config.WithDefaults takes a threshold of 0 for one that is not set.  It is
\* applied to what was validated; no other setting is 0 by then.
Defaults ==
  [stableCoreExistence |-> 700, stableCoreActivity |-> 350,
   guardrailExistence |-> 300, retirementExistence |-> 180]

Config ==
  [f \in Fields |->
     IF f \in DOMAIN Defaults /\ Written[f] = 0 THEN Defaults[f] ELSE Written[f]]

\* ResilienceModel.ValidateSemantic: a window reports no edge and no endpoint
\* without its services.  An overlay reports entities that nothing supports.
ASSUME WindowsAssumption ==
  /\ Provenance \in [Entities -> 0..1000]
  /\ \A e \in Entities : From[e] \in Services /\ To[e] \in Services
  /\ \A w \in Windows :
       /\ w.observed \in SUBSET Entities
       /\ w.support \in [Entities -> Nat]
       /\ w.frozen \in BOOLEAN /\ DOMAIN w.latency = Entities
       /\ \A e \in w.observed : {From[e], To[e]} \subseteq w.observed
       /\ \A e \in Entities \ w.observed : w.support[e] = 0

\* The maps of the code are finite, and no topology that it builds is nil.
ASSUME EntitiesAssumption ==
  /\ IsFiniteSet(Services) /\ IsFiniteSet(Edges) /\ IsFiniteSet(Endpoints)
  /\ \A shown \in SUBSET Entities :
       None \notin [shown -> UNION {Range(w.latency) : w \in Windows}]

VARIABLES
  step,         \* "idle", "save" or "publish" a window, or the process is "down"
  clock,        \* the end of the last window
  state,        \* Reconciler.state
  disk,         \* the state file
  report,       \* the report of the window in progress
  published     \* the last report written

vars == <<step, clock, state, disk, report, published>>
-----------------------------------------------------------------------------
(* One entity.                                                             *)

PositiveExistenceBoost == 420
PositiveActivityBoost == 550
PassiveActivityDecay == 40
MissActivityPenalty == 120
MissExistencePenalty == 80
AdditionalMissPenalty == 50

AtLeast(a, b) == IF a < b THEN b ELSE a
AtMost(a, b) == IF a > b THEN b ELSE a
MutantClamp01(x) == AtLeast(0, x)

Clamp01(x) == AtLeast(0, AtMost(x, 1000))
Ceil(x) == (x + 999999) \div 1000000
Round(x) == (x + 500) \div 1000

\* ensureEntityState
Candidate ==
  [lifecycle |-> "candidate", existence |-> 250, activity |-> 200, misses |-> 0,
   seen |-> 0, gap |-> 1000, strength |-> 0, retiredAt |-> None, latency |-> None]

SoftThreshold(s) ==
  AtLeast(Ceil(AtLeast(s.gap, 1000) * Config.softGapMultiplier), Config.minSoftWindows)
    + Round(s.strength * Config.sourceResistanceSoft)

MutantHardThreshold(s) ==
  AtLeast(Ceil(AtLeast(s.gap, 1000) * Config.hardGapMultiplier)
            + Round(s.strength * Config.sourceResistanceHard),
          SoftThreshold(s))

HardThreshold(s) ==
  AtLeast(AtLeast(Ceil(AtLeast(s.gap, 1000) * Config.hardGapMultiplier), Config.minHardWindows)
            + Round(s.strength * Config.sourceResistanceHard),
          SoftThreshold(s))

GapEMA(s, version) ==
  IF s.seen = 0 THEN 1000
  ELSE AtLeast(1000, (s.gap * (1000 - Config.gapEMAAlpha)
                        + (version - s.seen) * 1000 * Config.gapEMAAlpha) \div 1000)

ObserveEntity(s, e, w, version) ==
  LET boost == Round(PositiveExistenceBoost * (400 + 60 * AtMost(w.support[e], 10)))
      existence == Clamp01(s.existence + boost)
  IN [lifecycle |-> IF existence >= Config.stableCoreExistence THEN "active" ELSE "candidate",
      existence |-> existence,
      activity |-> Clamp01(s.activity + PositiveActivityBoost),
      misses |-> 0,
      seen |-> version,
      gap |-> GapEMA(s, version),
      strength |-> AtLeast(s.strength, Provenance[e]),
      retiredAt |-> None,
      latency |-> w.latency[e]]

\* An entity without opportunity is not classified again.
MutantNoOpportunity(s) ==
  [s EXCEPT !.activity = Clamp01(@ - PassiveActivityDecay),
            !.lifecycle = IF s.existence >= Config.guardrailExistence THEN "candidate" ELSE @]

\* Absence alone is no negative evidence.
AbsentNoOpportunity(s) ==
  [s EXCEPT !.activity = Clamp01(@ - PassiveActivityDecay),
            !.existence = Clamp01(@ - MissExistencePenalty)]

NoOpportunity(s) ==
  [s EXCEPT !.activity = Clamp01(@ - PassiveActivityDecay)]

\* A miss counts when the entity had its chance to appear.
Miss(s, w, now) ==
  LET t == [s EXCEPT !.misses = @ + 1]
      soft == SoftThreshold(t)
      escalation == AdditionalMissPenalty * AtLeast(0, t.misses - soft + 1)
      resistance == 1000 - AtMost(800, (600 * t.strength) \div 1000)
      damping == IF w.frozen THEN 350 ELSE 1000
      activity == Clamp01(t.activity + Round(-(MissActivityPenalty + escalation) * resistance))
      penalty == -(MissExistencePenalty + escalation) * resistance * damping
      existence == IF t.misses >= soft
                   THEN Clamp01(t.existence + (penalty + 500000) \div 1000000) ELSE t.existence
      retires == /\ t.misses >= HardThreshold(t) /\ ~w.frozen
                 /\ existence <= Config.retirementExistence
      lifecycle == CASE retires -> "retired"
                     [] ~retires /\ t.misses >= soft -> "stale"
                     [] t.misses < soft /\ existence >= Config.stableCoreExistence -> "active"
                     [] OTHER -> "candidate"
  IN [t EXCEPT !.lifecycle = lifecycle, !.existence = existence, !.activity = activity,
               !.retiredAt = IF retires THEN now ELSE @]
-----------------------------------------------------------------------------
(* One window.                                                             *)

\* The chances of an entity to appear: the traffic of the service it belongs
\* to, or for a service that of its known callers.
Opportunity(e, known, w) ==
  IF e \in Services
  THEN MapThenSumSet(LAMBDA d : w.support[From[d]], {d \in known \cap Edges : To[d] = e})
  ELSE w.support[From[e]]

Advance(entities, w, version, now) ==
  LET known == DOMAIN entities \cup w.observed
  IN [e \in known |->
        IF e \in w.observed
        THEN ObserveEntity(IF e \in DOMAIN entities THEN entities[e] ELSE Candidate, e, w, version)
        ELSE IF Opportunity(e, known, w) < Config.minimumOpportunity
             THEN NoOpportunity(entities[e])
             ELSE Miss(entities[e], w, now)]

Retired(entities) == {e \in DOMAIN entities : entities[e].lifecycle = "retired"}

\* The retired entities are trimmed oldest first, in any order among equals.
MutantOldest(retired, max, entities) ==
  {trimmed \in SUBSET retired :
     /\ Cardinality(trimmed) = AtLeast(0, Cardinality(retired) - max - 1)
     /\ \A d \in trimmed, k \in retired \ trimmed :
          entities[d].retiredAt <= entities[k].retiredAt}

Oldest(retired, max, entities) ==
  {trimmed \in SUBSET retired :
     /\ Cardinality(trimmed) = AtLeast(0, Cardinality(retired) - max)
     /\ \A d \in trimmed, k \in retired \ trimmed :
          entities[d].retiredAt <= entities[k].retiredAt}

\* compact: the entities it may evict, expired or trimmed for room.
Evictions(entities, now) ==
  LET expired == {e \in Retired(entities) : now - entities[e].retiredAt > Config.retiredTTL}
      perKind(kind) == Oldest((Retired(entities) \ expired) \cap kind,
                              Config.maxRetiredPerKind, entities)
      overall(gone) == {gone \cup trimmed :
                          trimmed \in Oldest(Retired(entities) \ gone, Config.maxRetiredOverall, entities)}
  IN UNION {overall(expired \cup s \cup d \cup p) :
              s \in perKind(Services), d \in perKind(Edges), p \in perKind(Endpoints)}

Compact(entities, now) ==
  {Restrict(entities, DOMAIN entities \ gone) : gone \in Evictions(entities, now)}

CompactIfDue(entities, version, last, now) ==
  IF version - last < Config.compactionCadence THEN {entities} ELSE Compact(entities, now)

InStableCore(s, version) ==
  /\ s.lifecycle = "active"
  /\ s.existence >= Config.stableCoreExistence
  /\ s.activity >= Config.stableCoreActivity

MutantInGuardrailUnion(s, version) ==
  s.lifecycle # "retired" /\ (s.seen = version \/ s.strength >= 900)

InGuardrailUnion(s, version) ==
  /\ s.lifecycle # "retired"
  /\ \/ s.seen = version
     \/ s.strength >= 900
     \/ s.existence >= Config.guardrailExistence

\* buildProjection: a view shows an edge or an endpoint with its services only.
\* The topology is its fingerprint: what is shown, with all that is shown of it.
Projection(entities, included) ==
  LET shown == {e \in included : {From[e], To[e]} \subseteq included}
  IN [e \in shown |-> entities[e].latency]

StableCore(entities, version) ==
  Projection(entities, {e \in DOMAIN entities : InStableCore(entities[e], version)})

GuardrailUnion(entities, version) ==
  Projection(entities, {e \in DOMAIN entities : InGuardrailUnion(entities[e], version)})

Bump(view, topology) ==
  [version |-> view.version + (IF topology = view.topology THEN 0 ELSE 1),
   topology |-> topology]
-----------------------------------------------------------------------------
NewState ==
  [version |-> 0, lastCompaction |-> 0, entities |-> <<>>,
   stable |-> [version |-> 0, topology |-> None],
   guardrail |-> [version |-> 0, topology |-> None]]

NoReport == [version |-> 0, stable |-> NewState.stable, guardrail |-> NewState.guardrail]

Init ==
  /\ step = "idle" /\ clock = 0
  /\ state = NewState /\ disk = NewState
  /\ report = NoReport /\ published = NoReport

\* Reconciler.state after a window, and the report made of it.
Reconciled(w, now) ==
  LET version == state.version + 1
      advanced == Advance(state.entities, w, version, now)
      due == version - state.lastCompaction >= Config.compactionCadence
  IN {[version |-> version,
       lastCompaction |-> IF due THEN version ELSE state.lastCompaction,
       entities |-> entities,
       stable |-> Bump(state.stable, StableCore(entities, version)),
       guardrail |-> Bump(state.guardrail, GuardrailUnion(entities, version))] :
        entities \in CompactIfDue(advanced, version, state.lastCompaction, now)}

Reported(s) == [version |-> s.version, stable |-> s.stable, guardrail |-> s.guardrail]

Process(w) ==
  /\ step = "idle" /\ clock < LastWindow
  /\ clock' = clock + 1
  /\ state' \in Reconciled(w, clock')
  /\ report' = Reported(state')
  /\ step' = "save"
  /\ UNCHANGED <<disk, published>>

\* The versions are saved with what they count.
MutantSave ==
  /\ step = "save"
  /\ disk' = [state EXCEPT !.stable = disk.stable, !.guardrail = disk.guardrail]
  /\ step' = "publish"
  /\ UNCHANGED <<clock, state, report, published>>

Save ==
  /\ step = "save"
  /\ disk' = state
  /\ step' = "publish"
  /\ UNCHANGED <<clock, state, report, published>>

\* The report and the snapshots are written after the state.
Publish ==
  /\ step = "publish"
  /\ published' = report
  /\ step' = "idle"
  /\ UNCHANGED <<clock, state, disk, report>>

\* A failed write loses the window, not what was learnt from it.
WriteFails ==
  /\ Faults /\ step \in {"save", "publish"}
  /\ step' = "idle"
  /\ UNCHANGED <<clock, state, disk, report, published>>

Crash ==
  /\ Faults /\ step # "down"
  /\ step' = "down"
  /\ UNCHANGED <<clock, state, disk, report, published>>

\* New, some windows later: what is not in the file is gone.
Restart ==
  /\ step = "down"
  /\ clock' \in clock..LastWindow
  /\ state' = disk
  /\ report' = NoReport
  /\ step' = "idle"
  /\ UNCHANGED <<disk, published>>

Finished == step = "idle" /\ clock = LastWindow /\ UNCHANGED vars

Next ==
  \/ \E w \in Windows : Process(w)
  \/ Save \/ Publish \/ WriteFails \/ Crash \/ Restart \/ Finished

Spec == Init /\ [][Next]_vars
-----------------------------------------------------------------------------
Views == {"stable", "guardrail"}

EntityState ==
  [lifecycle : {"candidate", "active", "stale", "retired"},
   existence : 0..1000, activity : 0..1000, strength : 0..1000,
   misses : Nat, seen : Nat, gap : Nat, retiredAt : Nat \cup {None},
   latency : UNION {Range(w.latency) : w \in Windows}]

View(v) == v.version \in Nat /\ (v.topology # None => DOMAIN v.topology \subseteq Entities)

State(s) ==
  /\ s.version \in Nat /\ s.lastCompaction \in 0..s.version
  /\ DOMAIN s.entities \subseteq Entities
  /\ \A e \in DOMAIN s.entities : s.entities[e] \in EntityState
  /\ View(s.stable) /\ View(s.guardrail)

TypeOK ==
  /\ step \in {"idle", "save", "publish", "down"} /\ clock \in 0..LastWindow
  /\ State(state) /\ State(disk)
  /\ report.version \in Nat /\ published.version \in Nat

\* A view shows what the other one is surer of: the stable core is part of
\* the guardrail union, in the same words.
StableInGuardrail ==
  report.version > 0 =>
    \A e \in DOMAIN report.stable.topology :
      /\ e \in DOMAIN report.guardrail.topology
      /\ report.stable.topology[e] = report.guardrail.topology[e]

\* It is so under the thresholds that are in order after WithDefaults.
InOrder == Config.guardrailExistence <= Config.stableCoreExistence

ViewsNested == InOrder => StableInGuardrail

\* A retired entity has been away for minimum_hard_windows, across restarts,
\* lost windows and spells without traffic.
RetiredLongUnseen ==
  \A e \in Retired(state.entities) :
    state.version - state.entities[e].seen >= Config.minHardWindows

\* After a compaction no kind and no state has too many retired entities.
RetiredBounded ==
  state.lastCompaction = state.version =>
    /\ Cardinality(Retired(state.entities)) <= Config.maxRetiredOverall
    /\ \A kind \in {Services, Edges, Endpoints} :
         Cardinality(Retired(state.entities) \cap kind) <= Config.maxRetiredPerKind

\* The published versions: they never go back, and one version is never two
\* topologies, whatever write failed and whenever the process restarted.
PublishedAdvances ==
  [][/\ published.version < published'.version
     /\ \A view \in Views :
          /\ published[view].version <= published'[view].version
          /\ published[view].version = published'[view].version =>
               published[view].topology = published'[view].topology]_published

Guarded == IF state.guardrail.topology = None THEN {} ELSE DOMAIN state.guardrail.topology

Parts(e) == {e, From[e], To[e]}
Believed(s) == s.existence >= Config.guardrailExistence \/ s.strength >= 900

\* The guardrail union gains an entity when it, or its service, is observed;
\* or when a frozen window calls one that was retired stale again.
EntersBySight ==
  [][\A w \in Windows : Process(w) =>
       \A e \in Guarded' \ Guarded : \E p \in Parts(e) :
         \/ p \in w.observed
         \/ w.frozen /\ p \in Retired(state.entities)]_vars

\* It loses one that misses a chance to appear, or whose service does; or one
\* so little believed in that only its sight in the last window kept it.
LeavesByMiss ==
  [][\A w \in Windows : Process(w) =>
       \A e \in Guarded \ Guarded' : \E p \in Parts(e) \ w.observed :
         \/ ~(Opportunity(p, DOMAIN state.entities, w) < Config.minimumOpportunity)
         \/ ~Believed(state.entities[p])]_vars

\* docs/runtime-config.md: retired_ttl is how long retired entities remain
\* retained before eviction: it runs from the retirement.
RetentionRuns ==
  [][\A e \in Retired(state.entities) \cap Retired(state'.entities) :
       state.entities[e].retiredAt = state'.entities[e].retiredAt]_state
=============================================================================
