------------------------------ MODULE Overlays ------------------------------
(***************************************************************************)
(* The overlays of internal/overlay, and their merge into what a topology  *)
(* file or the spans of a window gave: the second half of Discover and     *)
(* DiscoverTopology of internal/discovery.                                 *)
(*                                                                         *)
(* Every entity has two forms that are merged apart: the one of the stable *)
(* model and the record of the snapshot.  Both are partial functions from  *)
(* fields to values.  A field that is a map stands for one of its keys; a  *)
(* pointer to an empty object, which Normalize drops in the end, is Empty. *)
(***************************************************************************)
EXTENDS TopologyFile, SequencesExt

CONSTANTS
  Observed,             \* what the spans of a window may have given
  OverlayFiles,         \* the lists of overlay files there may be
  Legacy,               \* the replica overrides there may be
  Invalid               \* a value that the check of its field refuses

VARIABLES
  source,               \* "topology" or "traces", or None: no overlay could be loaded
  legacy,               \* the replica override file
  files,                \* the overlays, weakest first
  items,                \* their items in the order of the loops
  mdl, record,          \* the two forms of each entity
  provenance,           \* the precedences appended to each record
  evidence              \* the replica evidence of the services that were seen

overlayVars == <<source, legacy, files, items, mdl, record, provenance, evidence>>
vars == <<fileVars, overlayVars>>
-----------------------------------------------------------------------------
(* The fields, and what a second value does to a first one.                *)

CommonFields == {"labels", "tags", "slo_refs"}

ServiceFields ==
  CommonFields \cup {"replicas", "reliability", "failure_eligible", "placements",
                     "shared_resource_refs", "attributes"}

ResilienceFields == {"timeouts", "max_attempts", "retry_on", "backoff", "circuit_breaker"}
ObservedFields == {"error_rate", "p50", "p99"}
ScopeFields == {"policy_scope"}

EdgeFields ==
  CommonFields \cup ResilienceFields \cup ObservedFields \cup ScopeFields
    \cup {"weight", "identity", "reliability", "attributes"}

SemanticsFields == {"predicate_mode", "mandatory_targets", "dependency_modes", "confidence"}

EndpointFields ==
  CommonFields \cup SemanticsFields \cup {"weight", "predicate_ref", "method", "path", "attributes"}

Fields == [service |-> ServiceFields, edge |-> EdgeFields, endpoint |-> EndpointFields]

\* The model has no attributes; one of them is reserved for discovery.
AttributeKey == "bering.observation_evidence.v1"

RecordOnly == {"attributes", "replicas_override"}

ModelForm(c) == [f \in DOMAIN c \ RecordOnly |-> c[f]]

\* Lists of names are united, an edge keeps its first identity, and all else
\* is replaced, an object of reliability evidence as a whole.
MutantMerged(f, old, new) == IF f \in {"tags", "slo_refs"} THEN old \cup new ELSE new

United == {"tags", "slo_refs", "retry_on"}

Merged(f, old, new) ==
  CASE f \in United -> old \cup new
    [] f = "identity" -> old
    [] f \notin United \cup {"identity"} -> new

Merge(c, set) ==
  [f \in DOMAIN c \cup DOMAIN set |->
     IF f \in DOMAIN c \cap DOMAIN set THEN Merged(f, c[f], set[f]) ELSE With(c, set)[f]]

\* SortDeterministic: what is empty goes.
Normalized(c) == [f \in {g \in DOMAIN c : c[g] # Empty} |-> c[f]]
-----------------------------------------------------------------------------
(* Loading.                                                                *)

OverlayKey(item) ==
  IF item.id # None THEN item.id
  ELSE IF item.kind = "edge" THEN EdgeIDWithIdentity(item.base, item.set)
  ELSE item.base

\* File.Normalize: an id is needed, or all that it is made from.
BadOverlay(item) ==
  \/ item.id = None /\ (item.kind = "service" \/ None \in ToSet(item.base))
  \/ item.kind = "service" /\ "replicas" \in DOMAIN item.set /\ item.set.replicas <= 0

LoadsOverlays(list) == \A i \in DOMAIN list : ~BadOverlay(list[i])

\* FromReplicas: the weakest overlay, its items in the order of a Go map.
FromReplicas(values) ==
  {[i \in DOMAIN ids |-> [kind |-> "service", id |-> ids[i], base |-> <<>>,
                          set |-> [replicas |-> values[ids[i]]]]] :
     ids \in SetToSeqs(DOMAIN values)}

\* The items of every file, with the precedence of their file.
Items(f) ==
  FlattenSeq([i \in DOMAIN f |-> [k \in DOMAIN f[i] |-> With([precedence |-> i], f[i][k])]])

\* The replica override file comes before the overlays that were given.
Overrides(replicas) ==
  IF replicas = <<>> THEN OverlayFiles
  ELSE {<<r>> \o given : r \in FromReplicas(replicas), given \in OverlayFiles}

\* An entity is known by its kind and id; a service has a number of replicas.
Entity(k, e) ==
  /\ k = <<k[1], k[2]>>
  /\ k[1] = "service" => "replicas" \in DOMAIN e.set /\ e.set.replicas \in Int

\* What there may be: finitely many entities, and overlays that have finitely
\* many items, of which those of services alone have replicas.
ASSUME OverlaysAssumption ==
  /\ None # "topology"
  /\ \A given \in Observed :
       IsFiniteSet(DOMAIN given) /\ \A k \in DOMAIN given : Entity(k, given[k])
  /\ \A replicas \in Legacy : \A f \in Overrides(replicas) :
       /\ Items(f) \in Seq({Items(f)[i] : i \in DOMAIN Items(f)})
       /\ \A i \in DOMAIN Items(f) : LET set == Items(f)[i].set IN
            "replicas" \in DOMAIN set => Items(f)[i].kind = "service" /\ set.replicas \in Int

\* loadDiscoveryResult: what can be read as traces is not read as a topology.
Init ==
  /\ legacy \in Legacy
  /\ files \in Overrides(legacy)
  /\ items = Items(files)
  /\ \/ /\ ~LoadsOverlays(items)
        /\ pass = "failed" /\ source = None
        /\ document = None /\ found = <<>>
     \/ /\ LoadsOverlays(items)
        /\ source = "traces" /\ pass = "first"
        /\ document = None /\ found \in Observed
     \/ /\ LoadsOverlays(items)
        /\ source = "topology" /\ pass = "services"
        /\ document \in Documents /\ found = <<>>
  /\ next = 1
  /\ mdl = <<>> /\ record = <<>> /\ provenance = <<>> /\ evidence = <<>>

Failed == pass' = "failed" /\ UNCHANGED <<next, document, found, overlayVars>>

\* applyReplicaOverlays: a topology gets its replicas before it is built.
SuppliesUnknown ==
  \E i \in DOMAIN items :
    items[i].kind = "service" /\ "replicas" \in DOMAIN items[i].set /\ ~IsService(items[i].id)

MutantSupplied(s) ==
  {items[i].set.replicas : i \in {k \in DOMAIN items :
     /\ <<items[k].kind, items[k].id>> = s /\ "replicas" \in DOMAIN items[k].set
     /\ items[k].precedence = 1}}

\* The last count supplied for a service.
Supplied(s) ==
  {items[i].set.replicas : i \in {k \in DOMAIN items :
     /\ <<items[k].kind, items[k].id>> = s /\ "replicas" \in DOMAIN items[k].set
     /\ \A j \in (k + 1)..Len(items) :
          <<items[j].kind, items[j].id>> = s => "replicas" \notin DOMAIN items[j].set}}

Supply ==
  /\ pass = "supply"
  /\ IF SuppliesUnknown THEN Failed
     ELSE /\ pass' = "first"
          /\ found' = [e \in DOMAIN found |->
               IF Supplied(e) = {} THEN found[e]
               ELSE [found[e] EXCEPT !.set.replicas = CHOOSE n \in Supplied(e) : TRUE]]
          /\ UNCHANGED <<next, document, overlayVars>>
-----------------------------------------------------------------------------
(* ValidateSemantic, as far as an overlay can break it.                    *)

\* The fields whose value is checked by itself, for a rate above one, a
\* negative count, a mode that is none, a pipe, or what is missing from it.
Checked ==
  {"identity", "reliability", "placements", "error_rate"}
    \cup (ResilienceFields \ {"retry_on"}) \cup (SemanticsFields \ {"mandatory_targets"})

ValuesValid(c) == \A f \in Checked \cap DOMAIN c : c[f] # Invalid

LatencyMonotonic(c) == {"p50", "p99"} \subseteq DOMAIN c => c.p50 <= c.p99

TargetsKnown(c) ==
  "mandatory_targets" \in DOMAIN c => \A id \in c.mandatory_targets : IsService(id)

NotNegative(c) == \A f \in DOMAIN c \cap {"weight", "p50", "p99"} : c[f] >= 0

ValidateSemantic(m) ==
  /\ Named("service") # {}
  /\ \A e \in DOMAIN m : /\ ValuesValid(m[e]) /\ NotNegative(m[e])
                         /\ LatencyMonotonic(m[e]) /\ TargetsKnown(m[e])

\* A service that spans showed, and not a file or the name of a database alone.
Spans == <<"spans">>

\* The two forms before the overlays, which must be valid without them.  An
\* empty object is still in a record then, but merging into it or into none
\* gives the same.
Build ==
  /\ pass = "first"
  /\ LET base == [e \in DOMAIN found |-> ModelForm(found[e].set)] IN
     IF ~ValidateSemantic(base) THEN Failed
     ELSE /\ mdl' = [e \in DOMAIN base |-> Normalized(base[e])]
          /\ record' = [e \in DOMAIN found |-> Normalized(found[e].set)]
          /\ provenance' = [e \in DOMAIN found |-> <<>>]
          /\ evidence' = [s \in {e \in Named("service") : found[e].base = Spans} |->
                            [model |-> mdl'[s].replicas, configured |-> None]]
          /\ pass' = "apply" /\ next' = 1
          /\ UNCHANGED <<document, found, source, legacy, files, items>>
-----------------------------------------------------------------------------
(* applyOverlays.                                                          *)

\* Ids made before edges had an identity are still understood.
LegacyEdges(id) == {e \in Named("edge") : found[e].base = id}

\* The second edge with a legacy id makes it ambiguous.
MutantResolve(item) ==
  LET exact == DOMAIN found \cap {<<item.kind, OverlayKey(item)>>}
      edges == IF item.kind = "edge" THEN LegacyEdges(OverlayKey(item)) ELSE {}
  IN  IF exact # {} THEN exact ELSE IF edges = {} THEN {} ELSE {CHOOSE e \in edges : TRUE}

\* An id written out comes first, then a legacy id that only one edge has.
Resolve(item) ==
  LET exact == DOMAIN found \cap {<<item.kind, OverlayKey(item)>>}
      edges == IF item.kind = "edge" THEN LegacyEdges(OverlayKey(item)) ELSE {}
  IN  IF exact # {} THEN exact ELSE IF Cardinality(edges) = 1 THEN edges ELSE {}

\* A replica count leaves its mark in the record.
RecordForm(set) ==
  IF "replicas" \in DOMAIN set THEN With(set, [replicas_override |-> set.replicas]) ELSE set

\* cloneEdgeIdentity makes nothing of an empty identity.
MutantCloned(set) == set

Cloned(set) == Restrict(set, {f \in DOMAIN set : f = "identity" => set[f] # Empty})

\* validateObservationOverlay looks at all items of a file before its first.
Reserved(precedence) ==
  \E i \in DOMAIN items :
    items[i].precedence = precedence /\ AttributeKey \in DOMAIN items[i].set

Apply ==
  /\ pass = "apply" /\ next <= Len(items)
  /\ LET item == items[next] IN
     IF Reserved(item.precedence) \/ Resolve(item) = {} THEN Failed
     ELSE \E e \in Resolve(item) :
          /\ mdl' = [mdl EXCEPT ![e] = Merge(@, ModelForm(Cloned(item.set)))]
          /\ record' = [record EXCEPT ![e] = Merge(@, RecordForm(Cloned(item.set)))]
          /\ provenance' = [provenance EXCEPT ![e] = Append(@, item.precedence)]
          /\ next' = next + 1
          /\ UNCHANGED <<pass, document, found, source, legacy, files, items, evidence>>
-----------------------------------------------------------------------------
(* The end of Discover and DiscoverTopology.                               *)

\* reconcileReplicaEvidence, for a service of the record.
Reconciled(s) ==
  [model |-> record'[s].replicas,
   configured |-> IF Supplied(s) = {} THEN None ELSE CHOOSE n \in Supplied(s) : TRUE]

\* Does the model hold after the overlays?
MutantHolds(m) == Named("service") # {}

Holds(m) == ValidateSemantic(m)

\* rebuildServiceRecords copies the replicas of the model to the records.
Finish ==
  /\ pass = "apply" /\ next > Len(items)
  /\ LET sorted == [e \in DOMAIN mdl |-> Normalized(mdl[e])] IN
     IF ~Holds(sorted) THEN Failed
     ELSE /\ mdl' = sorted
          /\ record' = [e \in DOMAIN record |->
               IF e[1] = "service" THEN With(Normalized(record[e]), [replicas |-> sorted[e].replicas])
               ELSE Normalized(record[e])]
          /\ evidence' = [s \in DOMAIN evidence |-> Reconciled(s)]
          /\ pass' = "done"
          /\ UNCHANGED <<next, document, found, source, legacy, files, items, provenance>>

Ended == pass \in {"done", "failed"} /\ UNCHANGED vars

Next ==
  \/ Normalize /\ UNCHANGED overlayVars
  \/ Supply \/ Build \/ Apply \/ Finish \/ Ended

Spec == Init /\ [][Next]_vars
-----------------------------------------------------------------------------
\* The item i is meant for an entity that has its id; or for the only edge
\* that had it before edges were told apart by their identity.
MeantFor(i, e) ==
  LET id == OverlayKey(items[i]) IN
  \/ e = <<items[i].kind, id>>
  \/ /\ items[i].kind = "edge" /\ e \in Named("edge") /\ found[e].base = id
     /\ \A d \in Named("edge") : found[d].base = id \/ d[2] = id => d = e

Merging == pass \in {"apply", "done"}

\* No overlay is applied to an entity it may not mean, none is passed over,
\* and the record of an entity says which were, in their order.
Traceable ==
  Merging => \A e \in DOMAIN found :
    \E applied \in [DOMAIN provenance[e] -> 1..(next - 1)] :
      /\ \A k, m \in DOMAIN applied : k < m => applied[k] < applied[m]
      /\ {applied[k] : k \in DOMAIN applied} = {i \in 1..(next - 1) : MeantFor(i, e)}
      /\ \A k \in DOMAIN applied : provenance[e][k] = items[applied[k]].precedence

\* docs/architecture.md: the precedence of overlays.  In the model and in the
\* record alike a field has the value of the last overlay that gives one, a
\* list of names those of all, and an edge its first identity, where an empty
\* one counts for none.  The replicas that were supplied for a service that was
\* seen are in its evidence, and are those of the model; what was not supplied
\* is not called configured.
GivesNone(i, f) == f = "identity" /\ items[i].set[f] = Empty

Given(i) ==
  LET all == RecordForm(items[i].set)
  IN  [f \in {g \in DOMAIN all : ~GivesNone(i, g)} |-> all[f]]

Givers(S, e, f) == {i \in S : MeantFor(i, e) /\ f \in DOMAIN Given(i)}

\* What the items in S make of the entity e.
MergedBy(S, e) ==
  LET first == Normalized(found[e].set)
      value(f) ==
        IF f \in United
        THEN UNION ({first[g] : g \in {f} \cap DOMAIN first} \cup {Given(i)[f] : i \in Givers(S, e, f)})
        ELSE IF Givers(S, e, f) = {} \/ (f = "identity" /\ f \in DOMAIN first) THEN first[f]
        ELSE Given(IF f = "identity" THEN Min(Givers(S, e, f)) ELSE Max(Givers(S, e, f)))[f]
  IN  [f \in DOMAIN first \cup {g \in UNION {DOMAIN Given(i) : i \in S} : Givers(S, e, g) # {}} |->
         value(f)]

Expected(e) == Normalized(MergedBy(DOMAIN items, e))

EvidenceOf(s) ==
  LET replicas == Expected(s).replicas IN
  [model |-> replicas, configured |-> IF Givers(DOMAIN items, s, "replicas") = {} THEN None ELSE replicas]

LastWins ==
  pass = "done" =>
    /\ \A e \in DOMAIN found : record[e] = Expected(e) /\ mdl[e] = ModelForm(Expected(e))
    /\ \A s \in DOMAIN evidence : evidence[s] = EvidenceOf(s)

\* Nothing is refused but a document that is not well formed, an overlay that
\* cannot be loaded, means no entity or writes what is reserved, and a result
\* that is not valid; and each of these is.
WasRead ==
  source = "topology" =>
    Cardinality(DOMAIN found) =
      Len(document.services) + Len(document.edges) + Len(document.endpoints)

Applicable ==
  /\ \A i \in DOMAIN items : ~Reserved(items[i].precedence)
  /\ \A i \in DOMAIN items : \E e \in DOMAIN found : MeantFor(i, e)

Publishable ==
  /\ ValidateSemantic([e \in DOMAIN found |-> found[e].set])
  /\ Applicable
  /\ ValidateSemantic([e \in DOMAIN found |-> Expected(e)])

RefusedForCause ==
  /\ pass = "done" => (source = "topology" => WellFormed(document)) /\ Publishable
  /\ pass = "failed" =>
       \/ source = None
       \/ source = "topology" /\ ~WellFormed(document)
       \/ WasRead /\ ~Publishable
=============================================================================
