-------------------------- MODULE ReconcilerProofs --------------------------
(***************************************************************************)
(* Proofs about Reconciler.  Memory, which has every processed window, and *)
(* the file, which has the saved ones, satisfy the same predicate, so that *)
(* a restart is one more way of reaching a state that satisfies it.        *)
(***************************************************************************)
EXTENDS Reconciler, FiniteSetTheorems, TLAPS

-----------------------------------------------------------------------------
(* The published versions: what has been published is an earlier value of  *)
(* what is saved, and that of what is in memory.                           *)

\* One view may follow another: it has a later version, or it is the same.
Follows(v, u) ==
  /\ v.version <= u.version
  /\ v.version = u.version => v.topology = u.topology

Behind(s, t) ==
  /\ s.version <= t.version
  /\ \A view \in Views : Follows(s[view], t[view])

Versioned(s) ==
  s.version \in Nat /\ s.stable.version \in Nat /\ s.guardrail.version \in Nat

VersionInv ==
  /\ Versioned(state) /\ Versioned(disk) /\ Versioned(published)
  /\ step \in {"save", "publish"} => report = Reported(state) /\ published.version < state.version
  /\ step = "publish" => disk = state
  /\ Behind(published, disk) /\ Behind(disk, state)

\* Following is transitive.
LEMMA BehindTransitive ==
  ASSUME NEW s, NEW t, NEW u, Versioned(s), Versioned(t), Versioned(u),
         Behind(s, t), Behind(t, u)
  PROVE  Behind(s, u)
  BY DEF Versioned, Behind, Follows, Views

\* A bumped view follows the one it was bumped from.
LEMMA BumpFollows ==
  ASSUME NEW view, view.version \in Nat, NEW topology
  PROVE  Bump(view, topology).version \in Nat /\ Follows(view, Bump(view, topology))
  BY DEF Bump, Follows

\* A window advances every version of the state.
LEMMA ReconciledFollows ==
  ASSUME Versioned(state), NEW w, NEW now, NEW s \in Reconciled(w, now)
  PROVE  /\ Versioned(s) /\ Behind(state, s) /\ s.version = state.version + 1
<1>1. PICK t, u : /\ s.version = state.version + 1
                  /\ s.stable = Bump(state.stable, t)
                  /\ s.guardrail = Bump(state.guardrail, u)
  BY DEF Reconciled
<1>2. /\ s.stable.version \in Nat /\ Follows(state.stable, s.stable)
      /\ s.guardrail.version \in Nat /\ Follows(state.guardrail, s.guardrail)
  BY <1>1, BumpFollows DEF Versioned
<1>3. QED
  BY <1>1, <1>2 DEF Versioned, Behind, Views

\* Init establishes the invariant.
LEMMA VersionInit == Init => VersionInv
  BY DEF Init, NewState, NoReport, VersionInv, Versioned, Behind, Follows, Views

\* Every step keeps it.
LEMMA VersionNext == VersionInv /\ [Next]_vars => VersionInv'
<1> SUFFICES ASSUME VersionInv, [Next]_vars PROVE VersionInv'
  OBVIOUS
<1>1. CASE UNCHANGED vars
  BY <1>1 DEF vars, VersionInv, Versioned, Behind, Follows, Views, Reported
<1>2. ASSUME NEW w \in Windows, Process(w) PROVE VersionInv'
  <2>1. Versioned(state') /\ Behind(state, state') /\ state'.version = state.version + 1
    BY <1>2, ReconciledFollows DEF VersionInv, Process
  <2>2. disk' = disk /\ published' = published /\ step' = "save" /\ report' = Reported(state')
    BY <1>2 DEF Process
  <2>3. Behind(disk, state') /\ published.version <= disk.version /\ disk.version <= state.version
    BY <2>1, BehindTransitive DEF VersionInv, Behind
  <2>4. published.version < state'.version
    BY <2>1, <2>3 DEF VersionInv, Versioned
  <2>5. QED
    BY <2>1, <2>2, <2>3, <2>4 DEF VersionInv
<1>3. CASE Save
  <2>1. Behind(published, state) /\ Behind(state, state)
    BY BehindTransitive DEF VersionInv, Versioned, Behind, Follows, Views
  <2>2. QED
    BY <1>3, <2>1 DEF VersionInv, Save
<1>4. CASE Publish
  <2>1. /\ published' = Reported(state) /\ disk = state /\ step' = "idle"
        /\ UNCHANGED <<state, disk>>
    BY <1>4 DEF VersionInv, Publish
  <2>2. Versioned(Reported(state)) /\ Behind(Reported(state), state)
    BY DEF VersionInv, Versioned, Reported, Behind, Follows, Views
  <2>3. QED
    BY <2>1, <2>2 DEF VersionInv
<1>5. CASE WriteFails \/ Crash
  BY <1>5 DEF VersionInv, WriteFails, Crash
<1>6. CASE Restart
  <2>1. Behind(disk, disk)
    BY DEF VersionInv, Versioned, Behind, Follows, Views
  <2>2. QED
    BY <1>6, <2>1 DEF VersionInv, Restart
<1>7. QED
  BY <1>1, <1>2, <1>3, <1>4, <1>5, <1>6 DEF Next, Finished

\* A published version never goes back and never has two topologies, for any
\* windows, entities and thresholds, with any failed write and any restart.
THEOREM VersionsAdvance == Spec => PublishedAdvances
<1>1. VersionInv /\ [Next]_vars =>
        [/\ published.version < published'.version
         /\ \A view \in Views :
              /\ published[view].version <= published'[view].version
              /\ published[view].version = published'[view].version =>
                   published[view].topology = published'[view].topology]_published
  <2> SUFFICES ASSUME VersionInv, [Next]_vars, published' # published
               PROVE  /\ published.version < published'.version
                      /\ \A view \in Views : Follows(published[view], published'[view])
    BY DEF Follows
  <2>1. Publish
    BY DEF Next, vars, Process, Save, WriteFails, Crash, Restart, Finished
  <2>2. /\ published' = Reported(state) /\ disk = state
        /\ published.version < state.version /\ Behind(published, state)
    BY <2>1 DEF VersionInv, Publish
  <2>3. QED
    BY <2>2 DEF Reported, Behind, Views
<1>2. QED
  BY <1>1, VersionInit, VersionNext, PTL DEF Spec, PublishedAdvances
-----------------------------------------------------------------------------
(* Retirement: an entity has been away for at least its misses, and is not *)
(* retired before minimum_hard_windows of them.                            *)

Aged(s, version) ==
  /\ s \in EntityState
  /\ s.seen + s.misses <= version
  /\ s.lifecycle = "retired" => s.misses >= Config.minHardWindows

Remembered(s) ==
  /\ s.version \in Nat
  /\ DOMAIN s.entities \subseteq Entities
  /\ \A e \in DOMAIN s.entities : Aged(s.entities[e], s.version)

AgeInv == clock \in Nat /\ Remembered(state) /\ Remembered(disk)

\* What WithDefaults leaves of a configuration that was validated as written.
LEMMA ConfigFacts ==
  /\ Config \in [Fields -> Nat]
  /\ Config.minSoftWindows \in 1..Config.minHardWindows
  /\ \A f \in {"minimumOpportunity", "retiredTTL", "compactionCadence",
               "maxRetiredPerKind", "maxRetiredOverall"} : Config[f] > 0
  /\ Config.gapEMAAlpha \in 1..1000
<1>1. /\ Written \in [Fields -> Nat]
      /\ DOMAIN Defaults = {"stableCoreExistence", "stableCoreActivity",
                            "guardrailExistence", "retirementExistence"}
      /\ \A f \in DOMAIN Defaults : Defaults[f] \in Nat
  BY ConfigAssumption DEF Defaults
<1>2. Config \in [Fields -> Nat]
  BY <1>1 DEF Config
<1>3. \A f \in Fields \ DOMAIN Defaults : Config[f] = Written[f]
  BY DEF Config
<1>4. {"minSoftWindows", "minHardWindows", "gapEMAAlpha", "minimumOpportunity", "retiredTTL",
       "compactionCadence", "maxRetiredPerKind", "maxRetiredOverall"}
        \subseteq Fields \ DOMAIN Defaults
  BY <1>1 DEF Fields
<1> QED
  BY <1>2, <1>3, <1>4, ConfigAssumption

\* The order of the two views survives WithDefaults, but for a guardrail
\* threshold of 0.
LEMMA OrderKept == Written.guardrailExistence # 0 => InOrder
<1> SUFFICES ASSUME Written.guardrailExistence # 0 PROVE InOrder
  OBVIOUS
<1>1. /\ {"guardrailExistence", "stableCoreExistence"} \subseteq Fields
      /\ Written.guardrailExistence \in Nat /\ Written.stableCoreExistence \in Nat
      /\ Written.guardrailExistence <= Written.stableCoreExistence
  BY ConfigAssumption DEF Fields
<1>2. /\ Config.guardrailExistence = Written.guardrailExistence
      /\ Config.stableCoreExistence = Written.stableCoreExistence
  BY <1>1 DEF Config
<1> QED
  BY <1>1, <1>2 DEF InOrder

\* The configuration, field by field.
LEMMA ConfigFields ==
  /\ Config.softGapMultiplier \in Nat /\ Config.hardGapMultiplier \in Nat
  /\ Config.minSoftWindows \in Nat /\ Config.minHardWindows \in Nat
  /\ Config.sourceResistanceSoft \in Nat /\ Config.sourceResistanceHard \in Nat
  /\ Config.gapEMAAlpha \in Nat
  BY ConfigFacts DEF Fields

\* Resistance only adds to a threshold.
LEMMA RoundNat == \A n, m \in Nat : Round(n * m) \in Nat
<1> SUFFICES ASSUME NEW n \in Nat, NEW m \in Nat PROVE Round(n * m) \in Nat
  OBVIOUS
<1>1. n * m \in Nat
  OBVIOUS
<1>2. \A x \in Nat : (x + 500) \div 1000 \in Nat
  OBVIOUS
<1>3. QED
  BY <1>1, <1>2 DEF Round

\* The thresholds are integers and the hard one is at least
\* minimum_hard_windows, however rarely the entity is seen.
LEMMA HardThresholdBound ==
  ASSUME NEW s, s.gap \in Nat, s.strength \in Nat
  PROVE  /\ SoftThreshold(s) \in Int /\ HardThreshold(s) \in Int
         /\ HardThreshold(s) >= Config.minHardWindows /\ HardThreshold(s) >= SoftThreshold(s)
<1> DEFINE gap == AtLeast(s.gap, 1000)
<1>1. gap \in Nat
  BY DEF AtLeast
<1>2. gap * Config.softGapMultiplier \in Nat /\ gap * Config.hardGapMultiplier \in Nat
  BY <1>1, ConfigFields
<1>3. \A x \in Nat : Ceil(x) \in Int
  BY DEF Ceil
<1>4. /\ Ceil(gap * Config.softGapMultiplier) \in Int
      /\ Ceil(gap * Config.hardGapMultiplier) \in Int
  BY <1>2, <1>3
<1>5. /\ Round(s.strength * Config.sourceResistanceSoft) \in Nat
      /\ Round(s.strength * Config.sourceResistanceHard) \in Nat
  BY RoundNat, ConfigFields
<1> HIDE DEF gap
<1>6. SoftThreshold(s) \in Int
  <2>1. SoftThreshold(s) = AtLeast(Ceil(gap * Config.softGapMultiplier), Config.minSoftWindows)
                             + Round(s.strength * Config.sourceResistanceSoft)
    BY DEF SoftThreshold, gap
  <2>2. QED
    BY <2>1, <1>4, <1>5, ConfigFields DEF AtLeast
<1>7. HardThreshold(s) = AtLeast(AtLeast(Ceil(gap * Config.hardGapMultiplier), Config.minHardWindows)
                                   + Round(s.strength * Config.sourceResistanceHard),
                                 SoftThreshold(s))
  BY DEF HardThreshold, gap
<1>8. QED
  BY <1>4, <1>5, <1>6, <1>7, ConfigFields DEF AtLeast

Confidence == 0..1000

\* Confidences are natural numbers; Confidence itself stays hidden from the provers.
LEMMA ConfidenceNat == \A c \in Confidence : c \in Nat /\ c <= 1000
  BY DEF Confidence

\* A confidence stays a confidence.
LEMMA Clamped ==
  ASSUME NEW x \in Int
  PROVE  Clamp01(x) \in Confidence
  BY DEF Clamp01, AtLeast, AtMost, Confidence

\* The confidences an observation leaves.
SeenExistence(x, n) == Clamp01(x + Round(PositiveExistenceBoost * (400 + 60 * AtMost(n, 10))))
SeenActivity(x) == Clamp01(x + PositiveActivityBoost)

\* What a sighting makes of a confidence is a confidence.
LEMMA Boosted ==
  ASSUME NEW x \in Confidence, NEW n \in Nat
  PROVE  SeenExistence(x, n) \in Confidence /\ SeenActivity(x) \in Confidence
<1> DEFINE boost == Round(PositiveExistenceBoost * (400 + 60 * AtMost(n, 10)))
           y == x + boost
           z == x + PositiveActivityBoost
<1>1. AtMost(n, 10) \in Int
  BY DEF AtMost
<1>2. boost \in Int
  BY <1>1 DEF PositiveExistenceBoost, Round
<1>3. y \in Int /\ z \in Int
  <2> HIDE DEF boost
  <2>1. QED
    BY <1>2 DEF PositiveActivityBoost, Confidence
<1>4. SeenExistence(x, n) = Clamp01(y) /\ SeenActivity(x) = Clamp01(z)
  BY DEF SeenExistence, SeenActivity
<1> HIDE DEF y, z
<1>5. QED
  BY <1>3, <1>4, Clamped

\* What a well-typed entity has.
LEMMA EntityFields ==
  ASSUME NEW t \in EntityState
  PROVE  /\ t.existence \in Confidence /\ t.activity \in Confidence
         /\ t.strength \in Confidence
         /\ t.gap \in Nat /\ t.seen \in Nat /\ t.misses \in Nat
  BY DEF EntityState, Confidence

\* An entity as Process finds it: new, or remembered since some window.
Found(s, version) ==
  (s = Candidate \/ s \in EntityState) /\ s.seen <= version

\* An observed entity is not retired, and its absence starts again.
LEMMA ObservedAged ==
  ASSUME NEW version \in Nat, NEW s, Found(s, version), NEW w \in Windows, NEW e \in Entities
  PROVE  Aged(ObserveEntity(s, e, w, version), version)
<1> DEFINE t == ObserveEntity(s, e, w, version)
<1>1. /\ s.existence \in Confidence /\ s.activity \in Confidence /\ s.strength \in Confidence
      /\ s.gap \in Nat /\ s.seen \in Nat
  BY EntityFields DEF Found, Candidate, Confidence
<1>2. Provenance[e] \in Confidence /\ w.support[e] \in Nat /\ e \in DOMAIN w.latency
  BY WindowsAssumption DEF Confidence
<1>3. GapEMA(s, version) \in Nat
  <2>1. \A x \in Int : AtLeast(1000, x) \in Nat
    BY DEF AtLeast
  <2>2. (s.gap * (1000 - Config.gapEMAAlpha) + (version - s.seen) * 1000 * Config.gapEMAAlpha) \in Int
    BY <1>1, ConfigFields
  <2>3. \A x \in Int : x \div 1000 \in Int
    OBVIOUS
  <2>4. QED
    BY <2>1, <2>2, <2>3 DEF GapEMA
<1>4. /\ t.existence \in Confidence /\ t.activity \in Confidence
      /\ t.lifecycle \in {"active", "candidate"}
  <2>1. t.existence = SeenExistence(s.existence, w.support[e])
    BY DEF ObserveEntity, SeenExistence
  <2>2. t.activity = SeenActivity(s.activity)
    BY DEF ObserveEntity, SeenActivity
  <2>3. t.lifecycle \in {"active", "candidate"}
    BY DEF ObserveEntity
  <2> HIDE DEF t
  <2>4. t.existence \in Confidence
    BY <1>1, <1>2, <2>1, Boosted
  <2>5. t.activity \in Confidence
    BY <1>1, <2>2, Boosted
  <2>6. QED
    BY <2>3, <2>4, <2>5
<1>5. AtLeast(s.strength, Provenance[e]) \in Confidence
  BY <1>1, <1>2 DEF AtLeast, Confidence
<1>6. w.latency[e] \in UNION {Range(v.latency) : v \in Windows}
  BY <1>2 DEF Range
<1>7. t.misses = 0 /\ t.seen = version
  BY DEF ObserveEntity
<1>8. t \in EntityState
  <2>1. t = [lifecycle |-> t.lifecycle, existence |-> t.existence, activity |-> t.activity,
             misses |-> 0, seen |-> version, gap |-> GapEMA(s, version),
             strength |-> AtLeast(s.strength, Provenance[e]), retiredAt |-> None,
             latency |-> w.latency[e]]
    BY DEF ObserveEntity
  <2> HIDE DEF t
  <2>2. QED
    BY <1>3, <1>4, <1>5, <1>6, <2>1 DEF EntityState, Confidence
<1>9. QED
  BY <1>4, <1>7, <1>8 DEF Aged

\* Without opportunity nothing ages.
LEMMA NoOpportunityAged ==
  ASSUME NEW version \in Nat, NEW s, Aged(s, version)
  PROVE  Aged(NoOpportunity(s), version + 1)
<1>1. Clamp01(s.activity - PassiveActivityDecay) \in 0..1000
  BY DEF Aged, EntityState, PassiveActivityDecay, Clamp01, AtLeast, AtMost
<1>2. QED
  BY <1>1, ConfigFields DEF Aged, EntityState, NoOpportunity

Classify(t, l, x, a, r) ==
  [t EXCEPT !.lifecycle = l, !.existence = x, !.activity = a, !.retiredAt = r]

Class(l, x, a, r) ==
  /\ l \in {"candidate", "active", "stale", "retired"}
  /\ x \in 0..1000 /\ a \in 0..1000 /\ r \in Nat \cup {None}

Classified(m, t, l) ==
  m \in EntityState /\ m.seen = t.seen /\ m.misses = t.misses /\ m.lifecycle = l

\* Classifying an entity again touches these four fields only.
LEMMA Reclassified ==
  ASSUME NEW t \in EntityState, NEW l, NEW x, NEW a, NEW r, Class(l, x, a, r)
  PROVE  Classified(Classify(t, l, x, a, r), t, l)
<1> DEFINE t1 == [t EXCEPT !.lifecycle = l]
           t2 == [t1 EXCEPT !.existence = x]
           t3 == [t2 EXCEPT !.activity = a]
           t4 == [t3 EXCEPT !.retiredAt = r]
<1> USE DEF Classified, Class
<1>1. Classified(t1, t, l)
  BY DEF EntityState
<1> HIDE DEF t1
<1>2. Classified(t2, t, l)
  BY <1>1 DEF EntityState
<1> HIDE DEF t2
<1>3. Classified(t3, t, l)
  BY <1>2 DEF EntityState
<1> HIDE DEF t3
<1>4. Classified(t4, t, l)
  BY <1>3 DEF EntityState
<1>5. Classify(t, l, x, a, r) = t4
  BY DEF Classify, t1, t2, t3
<1>6. QED
  BY <1>4, <1>5

\* A miss retires an entity only at its hard threshold.
LEMMA MissAged ==
  ASSUME NEW version \in Nat, NEW s, Aged(s, version), NEW w \in Windows, NEW now \in Nat
  PROVE  Aged(Miss(s, w, now), version + 1)
<1> DEFINE t == [s EXCEPT !.misses = @ + 1]
           soft == SoftThreshold(t)
           escalation == AdditionalMissPenalty * AtLeast(0, t.misses - soft + 1)
           resistance == 1000 - AtMost(800, (600 * t.strength) \div 1000)
           damping == IF w.frozen THEN 350 ELSE 1000
           activity == Clamp01(t.activity + Round(-(MissActivityPenalty + escalation) * resistance))
           penalty == -(MissExistencePenalty + escalation) * resistance * damping
           existence == IF t.misses >= soft
                        THEN Clamp01(t.existence + (penalty + 500000) \div 1000000) ELSE t.existence
           retires == /\ t.misses >= HardThreshold(t) /\ ~w.frozen
                      /\ existence <= Config.retirementExistence
           lifecycle == CASE retires -> "retired"
                          [] ~retires /\ t.misses >= soft -> "stale"
                          [] t.misses < soft /\ existence >= Config.stableCoreExistence -> "active"
                          [] OTHER -> "candidate"
           stamp == IF retires THEN now ELSE t.retiredAt
           m == [t EXCEPT !.lifecycle = lifecycle, !.existence = existence, !.activity = activity,
                          !.retiredAt = stamp]
<1>1. Miss(s, w, now) = m
  BY DEF Miss
<1>2. t \in EntityState /\ t.seen + t.misses <= version + 1 /\ t.misses \in Nat
  BY DEF Aged, EntityState
<1>3. /\ soft \in Int /\ HardThreshold(t) \in Int
      /\ HardThreshold(t) >= Config.minHardWindows
  BY <1>2, HardThresholdBound DEF EntityState
<1> HIDE DEF t, soft
<1>4. escalation \in Int /\ resistance \in Int /\ damping \in Int
  BY <1>2, <1>3 DEF EntityState, AtLeast, AtMost, AdditionalMissPenalty
<1> HIDE DEF escalation, resistance, damping
<1>5. penalty \in Int /\ -(MissActivityPenalty + escalation) * resistance \in Int
  BY <1>4 DEF MissExistencePenalty, MissActivityPenalty
<1> HIDE DEF penalty
<1>6. activity \in 0..1000 /\ existence \in 0..1000
  <2> DEFINE less == -(MissActivityPenalty + escalation) * resistance
             x == t.activity + Round(less)
             y == t.existence + (penalty + 500000) \div 1000000
  <2>1. t.activity \in Int /\ t.existence \in Int /\ t.existence \in Confidence
    <3>1. t \in EntityState
      BY <1>2
    <3>2. t.activity \in Confidence /\ t.existence \in Confidence
      BY <3>1, EntityFields
    <3>3. \A c \in Confidence : c \in Int
      BY DEF Confidence
    <3>4. QED
      BY <3>2, <3>3
  <2>2. \A i \in Int : Round(i) \in Int /\ (i + 500000) \div 1000000 \in Int
    BY DEF Round
  <2>3. x \in Int /\ y \in Int
    <3>1. less \in Int /\ penalty \in Int
      BY <1>5
    <3> HIDE DEF less
    <3>2. Round(less) \in Int /\ (penalty + 500000) \div 1000000 \in Int
      BY <3>1, <2>2
    <3>3. QED
      BY <2>1, <3>2
  <2>4. activity = Clamp01(x) /\ (existence = Clamp01(y) \/ existence = t.existence)
    OBVIOUS
  <2> HIDE DEF x, y, activity, existence
  <2>5. activity \in Confidence /\ existence \in Confidence
    BY <2>1, <2>3, <2>4, Clamped
  <2>6. QED
    BY <2>5 DEF Confidence
<1> HIDE DEF activity, existence
<1>7. /\ lifecycle \in {"candidate", "active", "stale", "retired"}
      /\ lifecycle = "retired" => t.misses >= Config.minHardWindows
  <2>1. lifecycle = "retired" => retires
    OBVIOUS
  <2>2. retires => t.misses >= Config.minHardWindows
    BY <1>2, <1>3, ConfigFields DEF EntityState
  <2>3. lifecycle \in {"candidate", "active", "stale", "retired"}
    OBVIOUS
  <2>4. QED
    BY <2>1, <2>2, <2>3
<1> HIDE DEF lifecycle, retires
<1>8. stamp \in Nat \cup {None}
  BY <1>2 DEF EntityState
<1> HIDE DEF stamp
<1>9. m \in EntityState /\ m.seen = t.seen /\ m.misses = t.misses /\ m.lifecycle = lifecycle
  <2>1. m = Classify(t, lifecycle, existence, activity, stamp)
    BY DEF Classify
  <2> HIDE DEF m
  <2>2. Class(lifecycle, existence, activity, stamp)
    BY <1>6, <1>7, <1>8 DEF Class
  <2>3. Classified(m, t, lifecycle)
    BY <1>2, <2>1, <2>2, Reclassified
  <2>4. QED
    BY <2>3 DEF Classified
<1>10. QED
  BY <1>1, <1>2, <1>7, <1>9 DEF Aged

\* One window ages what it does not show by one window.
LEMMA AdvanceAged ==
  ASSUME NEW s, Remembered(s), NEW w \in Windows, NEW now \in Nat
  PROVE  /\ DOMAIN Advance(s.entities, w, s.version + 1, now) \subseteq Entities
         /\ \A e \in DOMAIN Advance(s.entities, w, s.version + 1, now) :
              Aged(Advance(s.entities, w, s.version + 1, now)[e], s.version + 1)
<1> DEFINE version == s.version + 1
           known == DOMAIN s.entities \cup w.observed
           next == Advance(s.entities, w, version, now)
<1>1. known \subseteq Entities /\ DOMAIN next = known
  BY WindowsAssumption DEF Remembered, Advance
<1>2. ASSUME NEW e \in known PROVE Aged(next[e], version)
  <2>1. version \in Nat /\ s.version \in Nat /\ e \in Entities
    BY <1>1 DEF Remembered
  <2>2. CASE e \in w.observed
    <3> DEFINE old == IF e \in DOMAIN s.entities THEN s.entities[e] ELSE Candidate
    <3>1. next[e] = ObserveEntity(old, e, w, version)
      BY <2>2 DEF Advance
    <3>2. ASSUME e \in DOMAIN s.entities PROVE Found(old, version)
      <4>1. old = s.entities[e] /\ Aged(s.entities[e], s.version)
        BY <3>2 DEF Remembered
      <4> HIDE DEF old
      <4>2. old \in EntityState /\ old.seen + old.misses <= s.version
        BY <4>1 DEF Aged
      <4>3. old.seen \in Nat /\ old.misses \in Nat
        BY <4>2, EntityFields
      <4>4. QED
        BY <2>1, <4>2, <4>3 DEF Found
    <3>3. ASSUME e \notin DOMAIN s.entities PROVE Found(old, version)
      BY <2>1, <3>3 DEF Found, Candidate
    <3>4. Found(old, version)
      BY <3>2, <3>3
    <3> HIDE DEF old
    <3>5. QED
      BY <2>1, <3>1, <3>4, ObservedAged
  <2>3. CASE e \notin w.observed
    <3>1. /\ e \in DOMAIN s.entities /\ Aged(s.entities[e], s.version)
          /\ next[e] = NoOpportunity(s.entities[e]) \/ next[e] = Miss(s.entities[e], w, now)
      BY <2>3 DEF Remembered, Advance
    <3>2. QED
      BY <2>1, <3>1, NoOpportunityAged, MissAged
  <2>4. QED
    BY <2>2, <2>3
<1>3. QED
  BY <1>1, <1>2

\* A compaction only forgets.
LEMMA CompactForgets ==
  ASSUME NEW entities, NEW version, NEW last, NEW now,
         NEW kept \in CompactIfDue(entities, version, last, now)
  PROVE  /\ DOMAIN kept \subseteq DOMAIN entities
         /\ \A e \in DOMAIN kept : kept[e] = entities[e]
<1>1. CASE kept = entities
  BY <1>1
<1>2. CASE kept \in Compact(entities, now)
  BY <1>2 DEF Compact, Restrict
<1>3. QED
  BY <1>1, <1>2 DEF CompactIfDue

\* What is remembered after a window.
LEMMA ReconciledAged ==
  ASSUME Remembered(state), NEW w \in Windows, NEW now \in Nat, NEW s \in Reconciled(w, now)
  PROVE  Remembered(s)
<1> DEFINE version == state.version + 1
           advanced == Advance(state.entities, w, version, now)
<1>1. /\ s.version = version
      /\ s.entities \in CompactIfDue(advanced, version, state.lastCompaction, now)
  BY DEF Reconciled
<1>2. /\ DOMAIN s.entities \subseteq DOMAIN advanced
      /\ \A e \in DOMAIN s.entities : s.entities[e] = advanced[e]
  BY <1>1, CompactForgets
<1>3. DOMAIN advanced \subseteq Entities /\ \A e \in DOMAIN advanced : Aged(advanced[e], version)
  BY AdvanceAged
<1>4. version \in Nat
  BY DEF Remembered
<1> HIDE DEF advanced, version
<1>5. QED
  BY <1>1, <1>2, <1>3, <1>4 DEF Remembered

\* The invariant holds at first and is kept by every step.
LEMMA AgeInit == Init => AgeInv
  BY DEF Init, NewState, AgeInv, Remembered

\* Every step keeps the ages, in memory and on disk.
LEMMA AgeNext == AgeInv /\ [Next]_vars => AgeInv'
<1> SUFFICES ASSUME AgeInv, [Next]_vars PROVE AgeInv'
  OBVIOUS
<1>1. CASE UNCHANGED vars
  BY <1>1 DEF vars, AgeInv, Remembered, Aged
<1>2. ASSUME NEW w \in Windows, Process(w) PROVE AgeInv'
  BY <1>2, ReconciledAged DEF AgeInv, Process
<1>3. CASE Save \/ Publish \/ WriteFails \/ Crash
  BY <1>3 DEF AgeInv, Save, Publish, WriteFails, Crash
<1>4. CASE Restart
  BY <1>4, ConfigAssumption DEF AgeInv, Restart
<1>5. QED
  BY <1>1, <1>2, <1>3, <1>4 DEF Next, Finished

\* A retired entity has been unseen for at least minimum_hard_windows, for
\* every configuration and through any restart.
THEOREM RetirementIsSlow == Spec => []RetiredLongUnseen
<1>1. ASSUME AgeInv, NEW e \in Retired(state.entities)
      PROVE  state.version - state.entities[e].seen >= Config.minHardWindows
  <2> DEFINE t == state.entities[e]
  <2>1. Aged(t, state.version) /\ t.lifecycle = "retired" /\ state.version \in Nat
    BY <1>1 DEF AgeInv, Remembered, Retired
  <2> HIDE DEF t
  <2>2. /\ t.seen \in Nat /\ t.misses \in Nat /\ t.misses >= Config.minHardWindows
        /\ t.seen + t.misses <= state.version
    BY <2>1, EntityFields DEF Aged
  <2>3. state.version - t.seen >= Config.minHardWindows
    BY <2>1, <2>2, ConfigFields
  <2>4. QED
    BY <2>3 DEF t
<1>2. AgeInv => RetiredLongUnseen
  BY <1>1 DEF RetiredLongUnseen
<1>3. QED
  BY <1>2, AgeInit, AgeNext, PTL DEF Spec
-----------------------------------------------------------------------------
(* The two views of one window.                                            *)

\* What qualifies for the stable core qualifies for the guardrail union.
LEMMA CoreIsGuarded ==
  ASSUME NEW version, NEW t, Aged(t, version), InStableCore(t, version),
         Config.guardrailExistence <= Config.stableCoreExistence,
         Config.guardrailExistence \in Nat, Config.stableCoreExistence \in Nat
  PROVE  InGuardrailUnion(t, version)
<1>1. t.existence \in Confidence
  BY EntityFields DEF Aged
<1>2. t.lifecycle = "active"
  BY DEF InStableCore
<1>3. t.existence >= Config.stableCoreExistence
  BY DEF InStableCore
<1>4. t.existence >= Config.guardrailExistence
  BY <1>1, <1>3 DEF Confidence
<1>5. QED
  BY <1>2, <1>4 DEF InGuardrailUnion

\* What the stable core of a window shows, its guardrail union shows.
LEMMA WindowNested ==
  ASSUME InOrder, Remembered(state), NEW w \in Windows, NEW now \in Nat, NEW s \in Reconciled(w, now)
  PROVE  \A e \in DOMAIN s.stable.topology :
           /\ e \in DOMAIN s.guardrail.topology
           /\ s.stable.topology[e] = s.guardrail.topology[e]
<1>1. Remembered(s)
  BY ReconciledAged
<1>2. /\ s.stable.topology = StableCore(s.entities, s.version)
      /\ s.guardrail.topology = GuardrailUnion(s.entities, s.version)
  BY DEF Reconciled, Bump
<1>3. Config.guardrailExistence <= Config.stableCoreExistence
      /\ Config.guardrailExistence \in Nat /\ Config.stableCoreExistence \in Nat
  BY ConfigFacts DEF Fields, InOrder
<1>4. ASSUME NEW e \in DOMAIN s.entities, InStableCore(s.entities[e], s.version)
      PROVE  InGuardrailUnion(s.entities[e], s.version)
  <2> DEFINE t == s.entities[e]
  <2>1. Aged(t, s.version) /\ InStableCore(t, s.version)
    BY <1>1, <1>4 DEF Remembered
  <2> HIDE DEF t
  <2>2. InGuardrailUnion(t, s.version)
    BY <1>3, <2>1, CoreIsGuarded
  <2>3. QED
    BY <2>2 DEF t
<1>5. QED
  BY <1>2, <1>4 DEF StableCore, GuardrailUnion, Projection

\* The stable core is part of the guardrail union in every report, as long as
\* the thresholds in effect are in order.
THEOREM StableIsGuarded == Spec => []ViewsNested
<1>1. Init => ViewsNested
  BY DEF Init, NoReport, StableInGuardrail, ViewsNested
<1>2. ViewsNested /\ AgeInv /\ [Next]_vars => ViewsNested'
  <2> SUFFICES ASSUME InOrder, StableInGuardrail, AgeInv, [Next]_vars PROVE StableInGuardrail'
    BY DEF ViewsNested, InOrder
  <2>1. CASE UNCHANGED report
    BY <2>1 DEF StableInGuardrail
  <2>2. ASSUME NEW w \in Windows, Process(w) PROVE StableInGuardrail'
    BY <2>2, WindowNested DEF Process, AgeInv, Reported, StableInGuardrail
  <2>3. CASE Restart
    BY <2>3 DEF Restart, NoReport, StableInGuardrail
  <2>4. QED
    BY <2>1, <2>2, <2>3 DEF Next, vars, Save, Publish, WriteFails, Crash, Finished
<1>3. QED
  BY <1>1, <1>2, AgeInit, AgeNext, PTL DEF Spec

\* So it is for every configuration that sets the guardrail threshold: the
\* order that serve.go checks is then the order in effect.
THEOREM NestedAsWritten ==
  ASSUME Written.guardrailExistence # 0
  PROVE  Spec => []StableInGuardrail
<1>1. ViewsNested => StableInGuardrail
  BY OrderKept DEF ViewsNested
<1> QED
  BY <1>1, StableIsGuarded, PTL
-----------------------------------------------------------------------------
(* What enters the guardrail union and what leaves it.  A window changes   *)
(* an entity it does not show in two ways only; what was retired once has  *)
(* the misses and the little belief that retire it, as long as it is away. *)

\* The thresholds look at the gap and the strength alone.
LEMMA SameThreshold ==
  ASSUME NEW s, NEW t, s.gap = t.gap, s.strength = t.strength
  PROVE  SoftThreshold(s) = SoftThreshold(t) /\ HardThreshold(s) = HardThreshold(t)
BY DEF SoftThreshold, HardThreshold

Lapsed(s) ==
  s.lifecycle = "retired" =>
    s.misses >= HardThreshold(s) /\ s.existence <= Config.retirementExistence

\* What the entity keeps while it is away.
Away(s, t) ==
  /\ t.strength = s.strength /\ t.seen = s.seen /\ t.gap = s.gap
  /\ t.existence <= s.existence

\* An entity without opportunity keeps its class and what is believed of it.
LEMMA NoOpportunityKeeps ==
  ASSUME NEW s \in EntityState
  PROVE  LET t == NoOpportunity(s) IN
         /\ Away(s, t) /\ t.existence = s.existence
         /\ t.lifecycle = s.lifecycle /\ t.misses = s.misses
<1>1. s.existence \in Confidence
  BY EntityFields
<1> QED
  BY <1>1 DEF NoOpportunity, EntityState, Away, Confidence

\* A miss takes belief away and never gives any.
LEMMA MissKeeps ==
  ASSUME NEW s \in EntityState, NEW w \in Windows, NEW now \in Nat
  PROVE  LET t == Miss(s, w, now) IN
         /\ Away(s, t) /\ t.misses = s.misses + 1
         /\ t.lifecycle = "retired" <=>
              /\ t.misses >= HardThreshold(t) /\ ~w.frozen
              /\ t.existence <= Config.retirementExistence
<1> DEFINE t == [s EXCEPT !.misses = @ + 1]
           soft == SoftThreshold(t)
           escalation == AdditionalMissPenalty * AtLeast(0, t.misses - soft + 1)
           resistance == 1000 - AtMost(800, (600 * t.strength) \div 1000)
           damping == IF w.frozen THEN 350 ELSE 1000
           activity == Clamp01(t.activity + Round(-(MissActivityPenalty + escalation) * resistance))
           penalty == -(MissExistencePenalty + escalation) * resistance * damping
           existence == IF t.misses >= soft
                        THEN Clamp01(t.existence + (penalty + 500000) \div 1000000) ELSE t.existence
           retires == /\ t.misses >= HardThreshold(t) /\ ~w.frozen
                      /\ existence <= Config.retirementExistence
           lifecycle == CASE retires -> "retired"
                          [] ~retires /\ t.misses >= soft -> "stale"
                          [] t.misses < soft /\ existence >= Config.stableCoreExistence -> "active"
                          [] OTHER -> "candidate"
           stamp == IF retires THEN now ELSE t.retiredAt
           m == [t EXCEPT !.lifecycle = lifecycle, !.existence = existence, !.activity = activity,
                          !.retiredAt = stamp]
<1>1. Miss(s, w, now) = m
  BY DEF Miss
<1>2. /\ t \in EntityState /\ t.misses = s.misses + 1 /\ t.existence = s.existence
      /\ t.gap = s.gap /\ t.strength = s.strength /\ t.seen = s.seen
  BY DEF EntityState
<1>3. soft \in Int /\ HardThreshold(t) \in Int /\ t.misses \in Nat /\ t.strength \in Confidence
      /\ t.existence \in Confidence
  <2> HIDE DEF t
  <2>1. /\ t.misses \in Nat /\ t.gap \in Nat
        /\ t.strength \in Confidence /\ t.existence \in Confidence
    BY <1>2, EntityFields
  <2> QED
    BY <2>1, ConfidenceNat, HardThresholdBound
<1> HIDE DEF t, soft
<1>4. escalation \in Nat /\ resistance \in Nat /\ damping \in Nat
  <2>1. escalation \in Nat /\ damping \in Nat
    BY <1>3 DEF AtLeast, AdditionalMissPenalty
  <2>2. AtMost(800, (600 * t.strength) \div 1000) \in 0..800
    BY <1>3 DEF AtMost, Confidence
  <2> QED
    BY <2>1, <2>2
<1> HIDE DEF escalation, resistance, damping
<1>5. penalty \in Int /\ penalty <= 0
  <2> DEFINE a == MissExistencePenalty + escalation
  <2>1. a \in Nat
    BY <1>4 DEF MissExistencePenalty
  <2> HIDE DEF a
  <2>2. \A x, y, z \in Nat : -x * y * z \in Int /\ -x * y * z <= 0
    <3> TAKE x, y, z \in Nat
    <3>1. x * y \in Nat
      OBVIOUS
    <3>2. (x * y) * z \in Nat
      BY <3>1
    <3>3. -x * y * z = -((x * y) * z)
      OBVIOUS
    <3> QED
      BY <3>2, <3>3
  <2>3. penalty = -a * resistance * damping
    BY DEF a
  <2> QED
    BY <1>4, <2>1, <2>2, <2>3
<1> HIDE DEF penalty, activity
<1>6. existence \in Int /\ existence <= t.existence
  <2> DEFINE less == (penalty + 500000) \div 1000000
             y == t.existence + less
  <2>1. less \in Int /\ less <= 0
    BY <1>5
  <2> HIDE DEF less
  <2>2. y \in Int /\ y <= t.existence /\ t.existence >= 0 /\ t.existence \in Int
    <3>1. t.existence \in Nat
      BY <1>3, ConfidenceNat
    <3> QED
      BY <2>1, <3>1
  <2>3. existence = Clamp01(y) \/ existence = t.existence
    BY DEF less
  <2> HIDE DEF y, existence
  <2>4. Clamp01(y) \in Int /\ Clamp01(y) <= t.existence
    BY <2>2 DEF Clamp01, AtLeast, AtMost
  <2> QED
    BY <2>2, <2>3, <2>4
<1> HIDE DEF existence
<1>7. lifecycle = "retired" <=> retires
  <2>1. retires => ~(t.misses < soft)
    <3>1. HardThreshold(t) >= soft
      <4>1. t.gap \in Nat /\ t.strength \in Nat
        BY <1>2, EntityFields, ConfidenceNat
      <4> QED
        BY <4>1, HardThresholdBound DEF soft
    <3> QED
      BY <1>3, <3>1
  <2> QED
    BY <2>1
<1>8. retires <=> /\ t.misses >= HardThreshold(t) /\ ~w.frozen
                  /\ existence <= Config.retirementExistence
  OBVIOUS
<1> HIDE DEF lifecycle, stamp, retires
<1>9. /\ m.lifecycle = lifecycle /\ m.existence = existence /\ m.misses = t.misses
      /\ m.gap = t.gap /\ m.strength = t.strength /\ m.seen = t.seen
  BY <1>2 DEF EntityState
<1>10. HardThreshold(m) = HardThreshold(t)
  BY <1>9, SameThreshold
<1> HIDE DEF m
<1> QED
  BY <1>1, <1>2, <1>6, <1>7, <1>8, <1>9, <1>10 DEF Away

\* The two steps of a compaction.
Expired(entities, now) ==
  {e \in Retired(entities) : now - entities[e].retiredAt > Config.retiredTTL}

Trimmed(entities, now, kind) ==
  Oldest((Retired(entities) \ Expired(entities, now)) \cap kind, Config.maxRetiredPerKind,
         entities)

TrimmedAfter(entities, gone) ==
  Oldest(Retired(entities) \ gone, Config.maxRetiredOverall, entities)

Forgotten(entities, now, s, d, p) ==
  LET gone == Expired(entities, now) \cup s \cup d \cup p
  IN  {gone \cup trimmed : trimmed \in TrimmedAfter(entities, gone)}

\* What may be evicted: what has expired, and the oldest of each kind and of all.
LEMMA Evicted ==
  ASSUME NEW entities, NEW now, NEW gone \in Evictions(entities, now)
  PROVE  \E s \in Trimmed(entities, now, Services), d \in Trimmed(entities, now, Edges),
           p \in Trimmed(entities, now, Endpoints) : gone \in Forgotten(entities, now, s, d, p)
<1>1. Evictions(entities, now) =
        UNION {Forgotten(entities, now, s, d, p) :
                 s \in Trimmed(entities, now, Services), d \in Trimmed(entities, now, Edges),
                 p \in Trimmed(entities, now, Endpoints)}
  BY DEF Evictions, Forgotten, Trimmed, TrimmedAfter, Expired
<1> DEFINE f(s, d, p) == Forgotten(entities, now, s, d, p)
           t(kind) == Trimmed(entities, now, kind)
<1>2. gone \in UNION {f(s, d, p) : s \in t(Services), d \in t(Edges), p \in t(Endpoints)}
  BY <1>1
<1> HIDE DEF f, t
<1>3. \E s \in t(Services), d \in t(Edges), p \in t(Endpoints) : gone \in f(s, d, p)
  BY <1>2
<1> QED
  BY <1>3 DEF f, t

\* A compaction evicts retired entities only.
LEMMA CompactEvictsRetired ==
  ASSUME NEW entities, NEW version, NEW last, NEW now,
         NEW kept \in CompactIfDue(entities, version, last, now)
  PROVE  /\ \A e \in DOMAIN entities \ Retired(entities) : e \in DOMAIN kept
         /\ DOMAIN kept \subseteq DOMAIN entities
         /\ \A e \in DOMAIN kept : kept[e] = entities[e]
<1>1. DOMAIN kept \subseteq DOMAIN entities /\ \A e \in DOMAIN kept : kept[e] = entities[e]
  BY CompactForgets
<1>2. CASE kept = entities
  BY <1>2
<1>3. CASE kept \in Compact(entities, now)
  <2>1. PICK gone \in Evictions(entities, now) : kept = Restrict(entities, DOMAIN entities \ gone)
    BY <1>3 DEF Compact
  <2>2. gone \subseteq Retired(entities)
    <3>1. PICK s \in Trimmed(entities, now, Services), d \in Trimmed(entities, now, Edges),
               p \in Trimmed(entities, now, Endpoints) : gone \in Forgotten(entities, now, s, d, p)
      BY Evicted
    <3>2. /\ s \subseteq Retired(entities) /\ d \subseteq Retired(entities)
          /\ p \subseteq Retired(entities) /\ Expired(entities, now) \subseteq Retired(entities)
      BY DEF Trimmed, Oldest, Expired
    <3> QED
      BY <3>1, <3>2 DEF Forgotten, TrimmedAfter, Oldest
  <2> QED
    BY <1>1, <2>1, <2>2 DEF Restrict
<1> QED
  BY <1>1, <1>2, <1>3 DEF CompactIfDue

\* What the guardrail union of a state shows.
Shown(s) == IF s.guardrail.topology = None THEN {} ELSE DOMAIN s.guardrail.topology

Included(s, p) == p \in DOMAIN s.entities /\ InGuardrailUnion(s.entities[p], s.version)

SightOf(s) ==
  /\ \A e \in DOMAIN s.entities : Lapsed(s.entities[e])
  /\ \A e : e \in Shown(s) <=> \A p \in Parts(e) : Included(s, p)

SightInv == SightOf(state) /\ SightOf(disk)

\* Advance, one entity at a time.
LEMMA Advanced ==
  ASSUME Remembered(state), NEW w \in Windows, NEW now \in Nat, NEW e
  PROVE  LET next == Advance(state.entities, w, state.version + 1, now)
             known == DOMAIN state.entities \cup w.observed
         IN  /\ DOMAIN next = known
             /\ e \in w.observed => /\ next[e].seen = state.version + 1
                                    /\ next[e].lifecycle \in {"active", "candidate"}
             /\ e \in known \ w.observed =>
                  /\ e \in DOMAIN state.entities /\ e \in Entities
                  /\ state.entities[e] \in EntityState
                  /\ state.entities[e].seen <= state.version
                  /\ next[e] = IF Opportunity(e, DOMAIN state.entities, w) < Config.minimumOpportunity
                               THEN NoOpportunity(state.entities[e])
                               ELSE Miss(state.entities[e], w, now)
<1> DEFINE version == state.version + 1
           next == Advance(state.entities, w, version, now)
           known == DOMAIN state.entities \cup w.observed
<1>1. DOMAIN next = known
  BY DEF Advance
<1>2. ASSUME e \in w.observed
      PROVE  next[e].seen = version /\ next[e].lifecycle \in {"active", "candidate"}
  <2> DEFINE old == IF e \in DOMAIN state.entities THEN state.entities[e] ELSE Candidate
  <2>1. next[e] = ObserveEntity(old, e, w, version)
    BY <1>2 DEF Advance
  <2> HIDE DEF old, next, version
  <2> QED
    BY <2>1 DEF ObserveEntity
<1>3. ASSUME e \in known \ w.observed
      PROVE  /\ e \in DOMAIN state.entities /\ e \in Entities
             /\ state.entities[e] \in EntityState
             /\ state.entities[e].seen <= state.version
             /\ next[e] = IF Opportunity(e, DOMAIN state.entities, w) < Config.minimumOpportunity
                          THEN NoOpportunity(state.entities[e])
                          ELSE Miss(state.entities[e], w, now)
  <2>1. /\ e \in DOMAIN state.entities /\ e \in Entities /\ state.version \in Nat
        /\ Aged(state.entities[e], state.version)
    BY <1>3 DEF Remembered
  <2>2. state.entities[e] \in EntityState /\ state.entities[e].seen <= state.version
    <3> DEFINE s == state.entities[e]
    <3>1. s \in EntityState /\ s.seen + s.misses <= state.version
      BY <2>1 DEF Aged
    <3> HIDE DEF s
    <3>2. s.seen \in Nat /\ s.misses \in Nat
      BY <3>1, EntityFields
    <3>3. s.seen <= state.version
      BY <2>1, <3>1, <3>2
    <3> QED
      BY <3>1, <3>3 DEF s
  <2>3. {d \in known \cap Edges : To[d] = e} = {d \in DOMAIN state.entities \cap Edges : To[d] = e}
    <3>1. ASSUME NEW d \in w.observed PROVE To[d] # e
      BY <1>3, WindowsAssumption
    <3> QED
      BY <3>1
  <2>4. Opportunity(e, known, w) = Opportunity(e, DOMAIN state.entities, w)
    BY <2>3 DEF Opportunity
  <2>5. next[e] = IF Opportunity(e, known, w) < Config.minimumOpportunity
                  THEN NoOpportunity(state.entities[e])
                  ELSE Miss(state.entities[e], w, now)
    BY <1>3 DEF Advance
  <2> QED
    BY <2>1, <2>2, <2>4, <2>5
<1> QED
  BY <1>1, <1>2, <1>3

\* What a window leaves lapsed was lapsed by it or before it.
LEMMA SightAdvances ==
  ASSUME Remembered(state), SightOf(state), NEW w \in Windows, NEW now \in Nat,
         NEW s \in Reconciled(w, now)
  PROVE  SightOf(s)
<1> DEFINE version == state.version + 1
           next == Advance(state.entities, w, version, now)
<1>1. /\ s.version = version
      /\ s.entities \in CompactIfDue(next, version, state.lastCompaction, now)
      /\ s.guardrail.topology = GuardrailUnion(s.entities, version)
  BY DEF Reconciled, Bump
<1>2. DOMAIN s.entities \subseteq DOMAIN next /\ \A e \in DOMAIN s.entities : s.entities[e] = next[e]
  BY <1>1, CompactForgets
<1>3. ASSUME NEW e \in DOMAIN next PROVE Lapsed(next[e])
  <2>1. CASE e \in w.observed
    <3>1. next[e].lifecycle \in {"active", "candidate"}
      BY <2>1, Advanced
    <3> QED
      BY <3>1 DEF Lapsed
  <2>2. CASE e \notin w.observed
    <3> DEFINE old == state.entities[e]
    <3>1. /\ old \in EntityState /\ Lapsed(old)
          /\ next[e] = NoOpportunity(old) \/ next[e] = Miss(old, w, now)
      BY <2>2, Advanced DEF SightOf
    <3> HIDE DEF old, next
    <3>2. CASE next[e] = NoOpportunity(old)
      <4>1. /\ Away(old, next[e]) /\ next[e].existence = old.existence
            /\ next[e].lifecycle = old.lifecycle /\ next[e].misses = old.misses
        BY <3>1, <3>2, NoOpportunityKeeps
      <4>2. HardThreshold(next[e]) = HardThreshold(old)
        BY <4>1, SameThreshold DEF Away
      <4> QED
        BY <3>1, <4>1, <4>2 DEF Lapsed
    <3>3. CASE next[e] = Miss(old, w, now)
      BY <3>1, <3>3, MissKeeps DEF Lapsed
    <3> QED
      BY <3>1, <3>2, <3>3
  <2> QED
    BY <2>1, <2>2
<1> HIDE DEF next, version
<1>4. Remembered(s)
  BY ReconciledAged
<1>5. s.guardrail.topology # None
  <2> DEFINE T == DOMAIN GuardrailUnion(s.entities, version)
             L == UNION {Range(x.latency) : x \in Windows}
  <2>1. T \subseteq DOMAIN s.entities /\ DOMAIN s.entities \subseteq Entities
    BY <1>4 DEF GuardrailUnion, Projection, Remembered
  <2>2. GuardrailUnion(s.entities, version) = [e \in T |-> s.entities[e].latency]
    BY DEF GuardrailUnion, Projection
  <2>3. ASSUME NEW e \in T PROVE s.entities[e].latency \in L
    <3>1. s.entities[e] \in EntityState
      BY <1>4, <2>1 DEF Remembered, Aged
    <3> QED
      BY <3>1 DEF EntityState
  <2> HIDE DEF T, L
  <2>4. GuardrailUnion(s.entities, version) \in [T -> L]
    BY <2>2, <2>3
  <2> QED
    BY <1>1, <2>1, <2>4, EntitiesAssumption DEF L
<1>6. ASSUME NEW e PROVE e \in Shown(s) <=> \A p \in Parts(e) : Included(s, p)
  BY <1>1, <1>5 DEF Shown, GuardrailUnion, Projection, Parts, Included
<1> QED
  BY <1>2, <1>3, <1>6 DEF SightOf

\* AgeInv and SightInv hold in every reachable state.
LEMMA SightAlways == Spec => [](AgeInv /\ SightInv)
<1>1. Init => SightInv
  <2> SUFFICES ASSUME Init PROVE SightOf(NewState)
    BY DEF Init, SightInv
  <2> QED
    BY DEF NewState, SightOf, Shown, Included, Parts
<1>2. AgeInv /\ SightInv /\ [Next]_vars => SightInv'
  <2> SUFFICES ASSUME AgeInv, SightInv, [Next]_vars PROVE SightInv'
    OBVIOUS
  <2>1. ASSUME NEW w \in Windows, Process(w) PROVE SightInv'
    <3>1. /\ Remembered(state) /\ clock' \in Nat /\ state' \in Reconciled(w, clock')
          /\ disk' = disk
      BY <2>1 DEF AgeInv, Process
    <3>2. SightOf(state')
      BY <3>1, SightAdvances DEF SightInv
    <3> QED
      BY <3>1, <3>2 DEF SightInv
  <2>2. CASE UNCHANGED vars \/ Save \/ Publish \/ WriteFails \/ Crash \/ Restart \/ Finished
    <3>1. state' \in {state, disk} /\ disk' \in {state, disk}
      BY <2>2 DEF vars, Save, Publish, WriteFails, Crash, Restart, Finished
    <3> QED
      BY <3>1 DEF SightInv
  <2> QED
    BY <2>1, <2>2 DEF Next
<1> QED
  BY <1>1, <1>2, AgeInit, AgeNext, PTL DEF Spec

\* One part of an entity in two windows that follow each other.
LEMMA PartsInWindow ==
  ASSUME AgeInv, SightInv, NEW w \in Windows, Process(w), NEW p
  PROVE  /\ Included(state', p) /\ ~Included(state, p) =>
              p \in w.observed \/ (w.frozen /\ p \in Retired(state.entities))
         /\ Included(state, p) /\ ~Included(state', p) =>
              /\ p \notin w.observed
              /\ \/ ~(Opportunity(p, DOMAIN state.entities, w) < Config.minimumOpportunity)
                 \/ ~Believed(state.entities[p])
<1> DEFINE version == state.version + 1
           next == Advance(state.entities, w, version, clock + 1)
           new == state'.entities
           old == state.entities[p]
<1>0. /\ Remembered(state) /\ clock + 1 \in Nat /\ state.version \in Nat
      /\ state' \in Reconciled(w, clock + 1)
  BY DEF AgeInv, Process, Remembered
<1>1. /\ state'.version = version
      /\ new \in CompactIfDue(next, version, state.lastCompaction, clock + 1)
  BY <1>0 DEF Reconciled
<1>2. /\ \A e \in DOMAIN next \ Retired(next) : e \in DOMAIN new
      /\ DOMAIN new \subseteq DOMAIN next
      /\ \A e \in DOMAIN new : new[e] = next[e]
  BY <1>1, CompactEvictsRetired
<1>3. /\ DOMAIN next = DOMAIN state.entities \cup w.observed
      /\ p \in w.observed => next[p].seen = version /\ next[p].lifecycle \in {"active", "candidate"}
      /\ p \in DOMAIN next \ w.observed =>
           /\ p \in DOMAIN state.entities /\ old \in EntityState /\ old.seen <= state.version
           /\ next[p] = IF Opportunity(p, DOMAIN state.entities, w) < Config.minimumOpportunity
                        THEN NoOpportunity(old) ELSE Miss(old, w, clock + 1)
  BY <1>0, Advanced
<1>4. Included(state', p) <=> p \in DOMAIN new /\ InGuardrailUnion(new[p], version)
  BY <1>1 DEF Included
<1>5. Included(state, p) <=> p \in DOMAIN state.entities /\ InGuardrailUnion(old, state.version)
  BY DEF Included
<1>6. p \in DOMAIN state.entities => Lapsed(old)
  BY DEF SightInv, SightOf
<1> HIDE DEF new, next
<1>7. ASSUME Included(state', p), ~Included(state, p), p \notin w.observed
      PROVE  w.frozen /\ p \in Retired(state.entities)
  <2>1. /\ p \in DOMAIN next /\ p \in DOMAIN state.entities /\ old \in EntityState
        /\ InGuardrailUnion(next[p], version) /\ ~InGuardrailUnion(old, state.version)
        /\ old.seen <= state.version /\ Lapsed(old)
        /\ next[p] = NoOpportunity(old) \/ next[p] = Miss(old, w, clock + 1)
    BY <1>2, <1>3, <1>4, <1>5, <1>6, <1>7
  <2> HIDE DEF old
  <2>2. Away(old, next[p])
    <3>1. CASE next[p] = NoOpportunity(old)
      BY <2>1, <3>1, NoOpportunityKeeps
    <3>2. CASE next[p] = Miss(old, w, clock + 1)
      BY <1>0, <2>1, <3>2, MissKeeps
    <3> QED
      BY <2>1, <3>1, <3>2
  <2>3. old.lifecycle = "retired"
    <3> SUFFICES ASSUME old.lifecycle # "retired" PROVE FALSE
      OBVIOUS
    <3>1. ~(old.strength >= 900) /\ ~(old.existence >= Config.guardrailExistence)
      BY <2>1 DEF InGuardrailUnion
    <3>2. next[p].seen # version
      <4>1. old.seen \in Nat /\ next[p].seen = old.seen
        BY <2>1, <2>2, EntityFields DEF Away
      <4> QED
        BY <1>0, <2>1, <4>1
    <3>3. next[p].existence >= Config.guardrailExistence
      BY <2>1, <2>2, <3>1, <3>2 DEF InGuardrailUnion, Away
    <3>4. next[p] \in EntityState
      <4>1. Aged(old, state.version)
        BY <1>0, <2>1 DEF Remembered, old
      <4>2. Aged(next[p], state.version + 1)
        BY <1>0, <2>1, <4>1, NoOpportunityAged, MissAged
      <4> QED
        BY <4>2 DEF Aged
    <3>5. next[p].existence \in Confidence /\ old.existence \in Confidence
      BY <2>1, <3>4, EntityFields
    <3>6. Config.guardrailExistence \in Nat
      BY ConfigFacts DEF Fields
    <3>7. \A a, b \in Confidence, c \in Nat : a >= c /\ a <= b => b >= c
      BY DEF Confidence
    <3> QED
      BY <2>2, <3>1, <3>3, <3>5, <3>6, <3>7 DEF Away
  <2>4. next[p].lifecycle # "retired"
    BY <2>1 DEF InGuardrailUnion
  <2>5. next[p] = Miss(old, w, clock + 1)
    <3>1. next[p] # NoOpportunity(old)
      BY <2>1, <2>3, <2>4, NoOpportunityKeeps
    <3> QED
      BY <2>1, <3>1
  <2>6. w.frozen
    <3> SUFFICES ASSUME ~w.frozen PROVE FALSE
      OBVIOUS
    <3>1. /\ next[p].misses = old.misses + 1
          /\ ~(/\ next[p].misses >= HardThreshold(next[p])
               /\ next[p].existence <= Config.retirementExistence)
      BY <1>0, <2>1, <2>4, <2>5, MissKeeps
    <3>2. HardThreshold(next[p]) = HardThreshold(old)
      BY <2>2, SameThreshold DEF Away
    <3>3. old.misses >= HardThreshold(old) /\ old.existence <= Config.retirementExistence
      BY <2>1, <2>3 DEF Lapsed
    <3>4. /\ HardThreshold(old) \in Int /\ old.misses \in Nat
          /\ old.existence \in Confidence
      <4>1. /\ old.misses \in Nat /\ old.gap \in Nat
            /\ old.strength \in Confidence /\ old.existence \in Confidence
        BY <2>1, EntityFields
      <4> QED
        BY <4>1, ConfidenceNat, HardThresholdBound
    <3>5. next[p].misses >= HardThreshold(next[p])
      BY <3>1, <3>2, <3>3, <3>4
    <3>6. next[p] \in EntityState
      <4>1. Aged(old, state.version)
        BY <1>0, <2>1 DEF Remembered, old
      <4>2. Aged(next[p], state.version + 1)
        BY <1>0, <2>5, <4>1, MissAged
      <4> QED
        BY <4>2 DEF Aged
    <3>7. next[p].existence \in Confidence
      BY <3>6, EntityFields
    <3>8. Config.retirementExistence \in Nat
      BY ConfigFacts DEF Fields
    <3>9. \A a, b \in Confidence, c \in Nat : a <= b /\ b <= c => a <= c
      BY DEF Confidence
    <3> QED
      BY <2>2, <3>1, <3>3, <3>4, <3>5, <3>7, <3>8, <3>9 DEF Away
  <2> QED
    BY <2>1, <2>3, <2>6 DEF Retired, old
<1>8. ASSUME Included(state, p), ~Included(state', p)
      PROVE  /\ p \notin w.observed
             /\ \/ ~(Opportunity(p, DOMAIN state.entities, w) < Config.minimumOpportunity)
                \/ ~Believed(old)
  <2>1. p \in DOMAIN next /\ p \in DOMAIN state.entities /\ InGuardrailUnion(old, state.version)
    BY <1>3, <1>5, <1>8
  <2>2. next[p].lifecycle # "retired" => ~InGuardrailUnion(next[p], version)
    BY <1>2, <1>4, <1>8, <2>1 DEF Retired
  <2>3. p \notin w.observed
    BY <1>3, <2>2 DEF InGuardrailUnion
  <2>4. ASSUME Opportunity(p, DOMAIN state.entities, w) < Config.minimumOpportunity
        PROVE  ~Believed(old)
    <3>1. next[p] = NoOpportunity(old) /\ old \in EntityState
      BY <1>3, <2>1, <2>3, <2>4
    <3> HIDE DEF old
    <3>2. /\ next[p].existence = old.existence /\ next[p].strength = old.strength
          /\ next[p].lifecycle = old.lifecycle
      BY <3>1, NoOpportunityKeeps DEF Away
    <3>3. old.lifecycle # "retired"
      BY <2>1 DEF InGuardrailUnion
    <3> QED
      BY <2>2, <3>2, <3>3 DEF InGuardrailUnion, Believed
  <2> QED
    BY <2>3, <2>4
<1> QED
  BY <1>7, <1>8 DEF old

\* An entity enters the guardrail union when it or its service is observed, or
\* when a frozen window takes its retirement back; for any windows and any
\* configuration, and across restarts.
THEOREM UnionEntersBySight == Spec => EntersBySight
<1>1. ASSUME AgeInv, SightInv, SightInv', NEW w \in Windows, Process(w),
             NEW e \in Guarded' \ Guarded
      PROVE  \E p \in Parts(e) : p \in w.observed \/ (w.frozen /\ p \in Retired(state.entities))
  <2>1. Shown(state) = Guarded /\ Shown(state') = Guarded'
    BY DEF Shown, Guarded
  <2>2. PICK p \in Parts(e) : ~Included(state, p)
    BY <1>1, <2>1 DEF SightInv, SightOf
  <2>3. Included(state', p)
    BY <1>1, <2>1 DEF SightInv, SightOf
  <2> QED
    BY <1>1, <2>2, <2>3, PartsInWindow
<1>2. AgeInv /\ SightInv /\ SightInv' =>
        [\A w \in Windows : Process(w) =>
           \A e \in Guarded' \ Guarded : \E p \in Parts(e) :
             \/ p \in w.observed
             \/ w.frozen /\ p \in Retired(state.entities)]_vars
  BY <1>1
<1> QED
  BY <1>2, SightAlways, PTL DEF EntersBySight

\* It leaves when it or its service misses a chance to appear, or was never
\* believed in: absence without traffic is no evidence.
THEOREM UnionLeavesByMiss == Spec => LeavesByMiss
<1>1. ASSUME AgeInv, SightInv, SightInv', NEW w \in Windows, Process(w),
             NEW e \in Guarded \ Guarded'
      PROVE  \E p \in Parts(e) \ w.observed :
               \/ ~(Opportunity(p, DOMAIN state.entities, w) < Config.minimumOpportunity)
               \/ ~Believed(state.entities[p])
  <2>1. Shown(state) = Guarded /\ Shown(state') = Guarded'
    BY DEF Shown, Guarded
  <2>2. PICK p \in Parts(e) : ~Included(state', p)
    BY <1>1, <2>1 DEF SightInv, SightOf
  <2>3. Included(state, p)
    BY <1>1, <2>1 DEF SightInv, SightOf
  <2> QED
    BY <1>1, <2>2, <2>3, PartsInWindow
<1>2. AgeInv /\ SightInv /\ SightInv' =>
        [\A w \in Windows : Process(w) =>
           \A e \in Guarded \ Guarded' : \E p \in Parts(e) \ w.observed :
             \/ ~(Opportunity(p, DOMAIN state.entities, w) < Config.minimumOpportunity)
             \/ ~Believed(state.entities[p])]_vars
  BY <1>1
<1> QED
  BY <1>2, SightAlways, PTL DEF LeavesByMiss
-----------------------------------------------------------------------------
(* Compaction, and types.                                                  *)

\* Of a finite set no more is kept than the limit.
LEMMA OldestBound ==
  ASSUME NEW retired, IsFiniteSet(retired), NEW max \in Nat, NEW entities,
         NEW trimmed \in Oldest(retired, max, entities)
  PROVE  IsFiniteSet(retired \ trimmed) /\ Cardinality(retired \ trimmed) <= max
<1>1. trimmed \subseteq retired /\ Cardinality(trimmed) = AtLeast(0, Cardinality(retired) - max)
  BY DEF Oldest
<1>2. retired \cap trimmed = trimmed
  BY <1>1
<1>3. /\ IsFiniteSet(retired \ trimmed)
      /\ Cardinality(retired \ trimmed) = Cardinality(retired) - Cardinality(retired \cap trimmed)
  BY FS_Difference
<1>4. Cardinality(retired) \in Nat
  BY FS_CardinalityType
<1> QED
  BY <1>1, <1>2, <1>3, <1>4 DEF AtLeast

Kinds == {Services, Edges, Endpoints}

Bounded(entities) ==
  /\ Cardinality(Retired(entities)) <= Config.maxRetiredOverall
  /\ \A kind \in Kinds : Cardinality(Retired(entities) \cap kind) <= Config.maxRetiredPerKind

\* After a compaction the retired entities fit both limits.
LEMMA CompactBounds ==
  ASSUME NEW entities, DOMAIN entities \subseteq Entities, NEW now,
         NEW kept \in Compact(entities, now)
  PROVE  Bounded(kept)
<1>1. PICK gone \in Evictions(entities, now) : kept = Restrict(entities, DOMAIN entities \ gone)
  BY DEF Compact
<1>2. Retired(kept) = Retired(entities) \ gone
  BY <1>1 DEF Restrict, Retired
<1>3. PICK s \in Trimmed(entities, now, Services), d \in Trimmed(entities, now, Edges),
           p \in Trimmed(entities, now, Endpoints) : gone \in Forgotten(entities, now, s, d, p)
  BY Evicted
<1>4. Config.maxRetiredOverall \in Nat /\ Config.maxRetiredPerKind \in Nat
  BY ConfigFacts DEF Fields
<1>5. IsFiniteSet(Entities)
  <2>1. IsFiniteSet(Services \cup Edges)
    BY EntitiesAssumption, FS_Union
  <2> QED
    BY <2>1, EntitiesAssumption, FS_Union DEF Entities
<1>6. IsFiniteSet(Retired(entities))
  <2>1. Retired(entities) \subseteq Entities
    BY DEF Retired
  <2> QED
    BY <1>5, <2>1, FS_Subset
<1>7. Cardinality(Retired(kept)) <= Config.maxRetiredOverall
  <2> DEFINE most == Expired(entities, now) \cup s \cup d \cup p
             left == Retired(entities) \ most
  <2>1. PICK trimmed \in Oldest(left, Config.maxRetiredOverall, entities) :
          gone = most \cup trimmed
    BY <1>3 DEF Forgotten, TrimmedAfter
  <2>2. IsFiniteSet(left)
    <3>1. left \subseteq Retired(entities)
      OBVIOUS
    <3> HIDE DEF left
    <3> QED
      BY <1>6, <3>1, FS_Subset
  <2>3. Retired(kept) = left \ trimmed
    BY <1>2, <2>1
  <2> HIDE DEF left, most
  <2> QED
    BY <1>4, <2>1, <2>2, <2>3, OldestBound
<1>8. Expired(entities, now) \cup s \cup d \cup p \subseteq gone
  BY <1>3 DEF Forgotten
<1>9. ASSUME NEW kind, NEW trimmed \in Trimmed(entities, now, kind), trimmed \subseteq gone
      PROVE  Cardinality(Retired(kept) \cap kind) <= Config.maxRetiredPerKind
  <2> DEFINE left == (Retired(entities) \ Expired(entities, now)) \cap kind
  <2>1. IsFiniteSet(left)
    <3>1. left \subseteq Retired(entities)
      OBVIOUS
    <3> HIDE DEF left
    <3> QED
      BY <1>6, <3>1, FS_Subset
  <2>2. trimmed \in Oldest(left, Config.maxRetiredPerKind, entities)
    BY DEF Trimmed
  <2>3. Retired(kept) \cap kind \subseteq left \ trimmed
    BY <1>2, <1>8, <1>9
  <2> HIDE DEF left
  <2>4. IsFiniteSet(left \ trimmed) /\ Cardinality(left \ trimmed) <= Config.maxRetiredPerKind
    BY <1>4, <2>1, <2>2, OldestBound
  <2>5. /\ Cardinality(Retired(kept) \cap kind) <= Cardinality(left \ trimmed)
        /\ IsFiniteSet(Retired(kept) \cap kind)
    BY <2>3, <2>4, FS_Subset
  <2>6. Cardinality(Retired(kept) \cap kind) \in Nat /\ Cardinality(left \ trimmed) \in Nat
    BY <2>4, <2>5, FS_CardinalityType
  <2> QED
    BY <1>4, <2>4, <2>5, <2>6
<1> QED
  BY <1>7, <1>8, <1>9 DEF Bounded, Kinds

\* The versions and the views of a state, and its last compaction.
Compacted(s) ==
  /\ s.version \in Nat /\ s.lastCompaction \in 0..s.version
  /\ View(s.stable) /\ View(s.guardrail)
  /\ s.lastCompaction = s.version => Bounded(s.entities)

CompactInv ==
  /\ step \in {"idle", "save", "publish", "down"} /\ clock \in 0..LastWindow
  /\ report.version \in Nat /\ published.version \in Nat
  /\ Compacted(state) /\ Compacted(disk)

\* At the start nothing is remembered.
LEMMA CompactInit == Init => CompactInv
<1> SUFFICES ASSUME Init PROVE CompactInv
  OBVIOUS
<1>1. Retired(NewState.entities) = {} /\ \A kind : {} \cap kind = {}
  BY DEF NewState, Retired
<1>2. Bounded(NewState.entities)
  BY <1>1, FS_EmptySet, ConfigFacts DEF Bounded, Fields
<1>3. Compacted(NewState)
  BY <1>2 DEF Compacted, View, NewState
<1> QED
  BY <1>3, ConfigAssumption DEF Init, CompactInv, NoReport

\* What Process leaves in memory has been compacted.
LEMMA ReconciledCompacted ==
  ASSUME Remembered(state), Compacted(state), NEW w \in Windows, NEW now \in Nat,
         NEW s \in Reconciled(w, now)
  PROVE  Compacted(s)
<1> DEFINE version == state.version + 1
           next == Advance(state.entities, w, version, now)
           due == version - state.lastCompaction >= Config.compactionCadence
<1>1. /\ s.version = version
      /\ s.lastCompaction = IF due THEN version ELSE state.lastCompaction
      /\ s.entities \in CompactIfDue(next, version, state.lastCompaction, now)
      /\ s.stable = Bump(state.stable, StableCore(s.entities, version))
      /\ s.guardrail = Bump(state.guardrail, GuardrailUnion(s.entities, version))
  BY DEF Reconciled
<1>2. version \in Nat /\ state.lastCompaction \in 0..state.version /\ state.version \in Nat
  BY DEF Compacted
<1>3. DOMAIN s.entities \subseteq Entities
  BY ReconciledAged DEF Remembered
<1>4. View(s.stable) /\ View(s.guardrail)
  <2>1. /\ DOMAIN StableCore(s.entities, version) \subseteq Entities
        /\ DOMAIN GuardrailUnion(s.entities, version) \subseteq Entities
    BY <1>3 DEF StableCore, GuardrailUnion, Projection
  <2>2. state.stable.version \in Nat /\ state.guardrail.version \in Nat
    BY DEF Compacted, View
  <2> QED
    BY <1>1, <2>1, <2>2 DEF Bump, View
<1>5. s.lastCompaction = version => Bounded(s.entities)
  <2> SUFFICES ASSUME s.lastCompaction = version PROVE Bounded(s.entities)
    OBVIOUS
  <2>1. due
    BY <1>1, <1>2
  <2>2. Config.compactionCadence \in Nat
    BY ConfigFacts DEF Fields
  <2>3. s.entities \in Compact(next, now)
    BY <1>1, <1>2, <2>1, <2>2 DEF CompactIfDue
  <2>4. DOMAIN next \subseteq Entities
    BY AdvanceAged
  <2> HIDE DEF next
  <2> QED
    BY <2>3, <2>4, CompactBounds
<1>6. s.lastCompaction \in 0..s.version
  BY <1>1, <1>2
<1> QED
  BY <1>1, <1>2, <1>4, <1>5, <1>6 DEF Compacted

\* AgeInv and CompactInv hold in every reachable state.
LEMMA CompactAlways == Spec => [](AgeInv /\ CompactInv)
<1>1. AgeInv /\ CompactInv /\ [Next]_vars => CompactInv'
  <2> SUFFICES ASSUME AgeInv, CompactInv, [Next]_vars PROVE CompactInv'
    OBVIOUS
  <2>0. LastWindow \in Nat
    BY ConfigAssumption
  <2>1. ASSUME NEW w \in Windows, Process(w) PROVE CompactInv'
    <3>1. /\ Remembered(state) /\ clock' \in Nat /\ state' \in Reconciled(w, clock')
          /\ UNCHANGED <<disk, published>> /\ step' = "save" /\ clock' \in 0..LastWindow
          /\ report'.version = state'.version
      BY <2>0, <2>1 DEF AgeInv, CompactInv, Process, Reported
    <3>2. Compacted(state')
      BY <3>1, ReconciledCompacted DEF CompactInv
    <3> QED
      BY <3>1, <3>2 DEF CompactInv, Compacted
  <2>2. CASE UNCHANGED vars \/ Save \/ Publish \/ WriteFails \/ Crash \/ Finished
    BY <2>2 DEF vars, Save, Publish, WriteFails, Crash, Finished, CompactInv
  <2>3. CASE Restart
    BY <2>0, <2>3 DEF Restart, NoReport, CompactInv
  <2> QED
    BY <2>1, <2>2, <2>3 DEF Next
<1> QED
  BY <1>1, CompactInit, AgeInit, AgeNext, PTL DEF Spec

\* Every reachable state of the reconciler and of its file is well typed.
THEOREM TypeCorrect == Spec => []TypeOK
<1>1. AgeInv /\ CompactInv => TypeOK
  BY DEF AgeInv, CompactInv, TypeOK, State, Remembered, Aged, Compacted
<1> QED
  BY <1>1, CompactAlways, PTL

\* After a compaction no more retired entities are remembered than the limits
\* allow, of each kind and overall, however many there were.
THEOREM RetiredIsBounded == Spec => []RetiredBounded
<1>1. CompactInv => RetiredBounded
  BY DEF CompactInv, Compacted, Bounded, Kinds, RetiredBounded
<1> QED
  BY <1>1, CompactAlways, PTL
=============================================================================
