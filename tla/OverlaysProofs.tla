--------------------------- MODULE OverlaysProofs ---------------------------
(***************************************************************************)
(* Proofs about Overlays.  What has been read of a file, and what has been *)
(* merged, is said of the items before next; an item that is looked at     *)
(* extends it, or is itself the cause of the refusal.                      *)
(***************************************************************************)
EXTENDS Overlays, FiniteSetTheorems, WellFoundedInduction, TLAPS

-----------------------------------------------------------------------------
(* What a state looks like.                                                *)

Loading == pass \in {"services", "edges", "endpoints", "supply"}

\* A sequence, whatever its elements.
Listed(s) == DOMAIN s = 1..Len(s) /\ Len(s) \in Nat /\ (Len(s) = 0 => s = <<>>)

ItemsListed ==
  /\ Listed(items)
  /\ \A i \in DOMAIN items :
       "replicas" \in DOMAIN items[i].set =>
         items[i].kind = "service" /\ items[i].set.replicas \in Int
  /\ pass # "failed" => LoadsOverlays(items)

FoundKnown ==
  /\ IsFiniteSet(DOMAIN found)
  /\ \A k \in DOMAIN found : Entity(k, found[k])

DocumentListed ==
  source = "topology" =>
    \A list \in {document.services, document.edges, document.endpoints} :
      Listed(list) /\ \A i \in DOMAIN list : Countable(list[i])

ShapeInv ==
  /\ pass \in {"services", "edges", "endpoints", "supply", "first", "apply", "done", "failed"}
  /\ next \in Nat \ {0}
  /\ Loading => source = "topology"
  /\ ItemsListed /\ FoundKnown /\ DocumentListed

\* A sequence over any set is listed.
LEMMA SequencesAreListed ==
  ASSUME NEW S, NEW s \in Seq(S)
  PROVE  Listed(s)
  BY DEF Listed

\* Init establishes it, by what there may be.
LEMMA ShapeInit == Init => ShapeInv
<1> SUFFICES ASSUME Init PROVE ShapeInv
  OBVIOUS
<1>1. /\ items \in Seq({items[i] : i \in DOMAIN items})
      /\ \A i \in DOMAIN items :
           "replicas" \in DOMAIN items[i].set =>
             items[i].kind = "service" /\ items[i].set.replicas \in Int
  BY OverlaysAssumption DEF Init
<1>2. ItemsListed
  BY <1>1, SequencesAreListed DEF ItemsListed, Init
<1>3. ASSUME NEW d \in Documents
      PROVE  \A list \in {d.services, d.edges, d.endpoints} :
               Listed(list) /\ \A i \in DOMAIN list : Countable(list[i])
  BY <1>3, DocumentsAssumption, SequencesAreListed
<1>4. DocumentListed
  BY <1>3, OverlaysAssumption DEF Init, DocumentListed
<1>5. FoundKnown
  <2>1. CASE found = <<>>
    <3>1. DOMAIN found = {}
      BY <2>1
    <3>2. QED
      BY <3>1, FS_EmptySet DEF FoundKnown
  <2>2. CASE found \in Observed
    BY <2>2, OverlaysAssumption DEF FoundKnown
  <2>3. QED
    BY <2>1, <2>2 DEF Init
<1>6. QED
  BY <1>2, <1>4, <1>5 DEF Init, ShapeInv, Loading

\* Reading an entity keeps what was read finite and known.
LEMMA ReadKeeps ==
  ASSUME ShapeInv, NEW key, NEW entity, Entity(key, entity), Read(key, entity)
  PROVE  /\ FoundKnown' /\ next' \in Nat \ {0}
         /\ DOMAIN found' = DOMAIN found \cup {key}
<1>1. /\ DOMAIN found' = DOMAIN found \cup {key}
      /\ \A k \in DOMAIN found' : found'[k] = IF k = key THEN entity ELSE found[k]
  BY DEF Read, With
<1>2. IsFiniteSet(DOMAIN found')
  BY <1>1, FS_AddElement DEF ShapeInv, FoundKnown
<1>3. \A k \in DOMAIN found' : Entity(k, found'[k])
  BY <1>1 DEF ShapeInv, FoundKnown
<1>4. QED
  BY <1>1, <1>2, <1>3 DEF Read, ShapeInv, FoundKnown

\* Every step preserves it.
LEMMA ShapeStep == ShapeInv /\ [Next]_vars => ShapeInv'
<1> SUFFICES ASSUME ShapeInv, [Next]_vars PROVE ShapeInv'
  OBVIOUS
<1> USE DEF ShapeInv
<1>0. ASSUME FoundKnown', DocumentListed', ItemsListed', next' \in Nat \ {0},
             pass' \in {"services", "edges", "endpoints", "supply", "first", "apply", "done",
                        "failed"},
             Loading' => source' = "topology"
      PROVE  ShapeInv'
  BY <1>0
<1>1. CASE Normalize /\ UNCHANGED overlayVars
  <2>1. UNCHANGED <<document, source, items>>
    BY <1>1 DEF Normalize, NormalizeService, NormalizeEdge, NormalizeEndpoint, Refuse, Read,
                Continue, overlayVars
  <2>2. Loading /\ source = "topology"
    BY <1>1 DEF Normalize, NormalizeService, NormalizeEdge, NormalizeEndpoint, Loading
  <2>3. DocumentListed'
    BY <2>1 DEF DocumentListed
  <2>4. pass' \in {"services", "edges", "endpoints", "supply", "failed"}
    BY <1>1 DEF Normalize, NormalizeService, NormalizeEdge, NormalizeEndpoint, Refuse, Read,
                Continue
  <2>5. ItemsListed'
    BY <2>1, <2>2 DEF ItemsListed, LoadsOverlays, Loading
  <2>6. FoundKnown' /\ next' \in Nat \ {0}
    <3>1. ASSUME UNCHANGED found, next' \in {next, 1} PROVE FoundKnown' /\ next' \in Nat \ {0}
      BY <3>1 DEF FoundKnown
    <3>2. CASE Refuse \/ Continue("edges") \/ Continue("endpoints") \/ Continue("supply")
      BY <3>1, <3>2 DEF Refuse, Continue
    <3>3. ASSUME NormalizeService, ~Refuse, ~Continue("edges")
          PROVE FoundKnown' /\ next' \in Nat \ {0}
      <4> DEFINE item == document.services[next]
      <4>1. Read(<<"service", item.id>>, Service(item)) /\ next \in DOMAIN document.services
        BY <3>3, <2>2 DEF NormalizeService, DocumentListed, Listed
      <4>2. Countable(item)
        BY <4>1, <2>2 DEF DocumentListed
      <4>3. /\ "replicas" \in DOMAIN With([replicas |-> 1], item.set)
            /\ With([replicas |-> 1], item.set).replicas \in Int
        BY <4>2 DEF With, Countable
      <4>4. Entity(<<"service", item.id>>, Service(item))
        BY <4>3 DEF Entity, Service
      <4>5. QED
        BY <4>1, <4>4, ReadKeeps
    <3>4. ASSUME NormalizeEdge, ~Refuse, ~Continue("endpoints")
          PROVE FoundKnown' /\ next' \in Nat \ {0}
      <4> DEFINE item == document.edges[next]
      <4>1. Read(EdgeKey(item), Edge(item))
        BY <3>4 DEF NormalizeEdge
      <4>2. Entity(EdgeKey(item), Edge(item))
        BY DEF Entity, EdgeKey
      <4>3. QED
        BY <4>1, <4>2, ReadKeeps
    <3>5. ASSUME NormalizeEndpoint, ~Refuse, ~Continue("supply")
          PROVE FoundKnown' /\ next' \in Nat \ {0}
      <4> DEFINE item == document.endpoints[next]
      <4>1. Read(EndpointKey(item), Endpoint(item))
        BY <3>5 DEF NormalizeEndpoint
      <4>2. Entity(EndpointKey(item), Endpoint(item))
        BY DEF Entity, EndpointKey
      <4>3. QED
        BY <4>1, <4>2, ReadKeeps
    <3>6. CASE ~(Refuse \/ Continue("edges") \/ Continue("endpoints") \/ Continue("supply"))
      BY <1>1, <3>6, <3>3, <3>4, <3>5 DEF Normalize
    <3>7. QED
      BY <3>2, <3>6
  <2>7. QED
    BY <1>0, <2>1, <2>2, <2>3, <2>4, <2>5, <2>6
<1>2. CASE Supply
  <2>1. UNCHANGED <<next, document, source, items>>
    BY <1>2 DEF Supply, Failed, overlayVars
  <2>2. DocumentListed' /\ next' \in Nat \ {0} /\ pass' \in {"first", "failed"}
    BY <1>2, <2>1 DEF Supply, Failed, DocumentListed
  <2>3. ItemsListed' /\ (Loading' => source' = "topology")
    BY <1>2, <2>1, <2>2 DEF ItemsListed, LoadsOverlays, Supply, Loading
  <2>4. FoundKnown'
    <3>1. CASE SuppliesUnknown
      BY <1>2, <3>1 DEF Supply, Failed, FoundKnown
    <3>2. CASE ~SuppliesUnknown
      <4>1. /\ DOMAIN found' = DOMAIN found
            /\ \A e \in DOMAIN found :
                 found'[e] = IF Supplied(e) = {} THEN found[e]
                             ELSE [found[e] EXCEPT !.set.replicas = CHOOSE n \in Supplied(e) : TRUE]
        BY <1>2, <3>2 DEF Supply
      <4>2. ASSUME NEW e \in DOMAIN found PROVE Entity(e, found'[e])
        <5>1. CASE Supplied(e) = {}
          BY <4>1, <5>1 DEF FoundKnown
        <5>2. CASE Supplied(e) # {}
          <6> DEFINE n == CHOOSE n \in Supplied(e) : TRUE
          <6>1. n \in Supplied(e)
            BY <5>2
          <6>2. n \in Int
            BY <6>1 DEF Supplied, ItemsListed
          <6>3. found'[e] = [found[e] EXCEPT !.set.replicas = n]
            BY <4>1, <5>2
          <6>4. Entity(e, found[e])
            BY DEF FoundKnown
          <6> HIDE DEF n
          <6>5. QED
            BY <6>2, <6>3, <6>4 DEF Entity
        <5>3. QED
          BY <5>1, <5>2
      <4>3. QED
        BY <4>1, <4>2 DEF FoundKnown
    <3>3. QED
      BY <3>1, <3>2
  <2>5. QED
    BY <1>0, <2>2, <2>3, <2>4
<1>3. CASE Build \/ Apply \/ Finish \/ Ended \/ UNCHANGED vars
  <2>1. UNCHANGED <<document, source, items, found>> /\ next' \in Nat \ {0}
    BY <1>3 DEF Build, Apply, Finish, Ended, Failed, overlayVars, fileVars, vars
  <2>2. \/ pass' = pass
        \/ pass' \in {"apply", "done", "failed"} /\ pass \notin {"done", "failed"}
    BY <1>3 DEF Build, Apply, Finish, Ended, Failed, fileVars, vars
  <2>3. FoundKnown' /\ DocumentListed'
    BY <2>1 DEF FoundKnown, DocumentListed
  <2>4. ItemsListed' /\ (Loading' => source' = "topology")
    BY <2>1, <2>2 DEF ItemsListed, LoadsOverlays, Loading
  <2>5. QED
    BY <1>0, <2>1, <2>2, <2>3, <2>4
<1>4. QED
  BY <1>1, <1>2, <1>3 DEF Next

\* What a state looks like, in every behaviour.
LEMMA ShapeAlways == Spec => []ShapeInv
  BY ShapeInit, ShapeStep, PTL DEF Spec

-----------------------------------------------------------------------------
(* The entity that an item is meant for.                                   *)

\* One element is what a set of one element has.
LEMMA OneElement ==
  ASSUME NEW S, IsFiniteSet(S)
  PROVE  Cardinality(S) = 1 <=> \E x \in S : S = {x}
  BY FS_Singleton

\* The entities that have a name are what was found of that kind.
LEMMA NamesArePairs ==
  ASSUME FoundKnown, NEW kind, NEW e \in Named(kind)
  PROVE  e \in DOMAIN found /\ e = <<kind, e[2]>>
  BY DEF FoundKnown, Entity, Named

\* The lookup finds what the item is meant for, which is one entity at most.
LEMMA ResolveMeant ==
  ASSUME FoundKnown, NEW i \in DOMAIN items
  PROVE  /\ Resolve(items[i]) = {e \in DOMAIN found : MeantFor(i, e)}
         /\ \A d, e \in Resolve(items[i]) : d = e
<1> DEFINE item == items[i]
           id == OverlayKey(item)
           exact == DOMAIN found \cap {<<item.kind, id>>}
           edges == IF item.kind = "edge" THEN LegacyEdges(id) ELSE {}
<1>1. Resolve(item) = IF exact # {} THEN exact ELSE IF Cardinality(edges) = 1 THEN edges ELSE {}
  BY DEF Resolve
<1>2. IsFiniteSet(edges)
  <2>1. LegacyEdges(id) \subseteq DOMAIN found
    BY DEF LegacyEdges, Named
  <2>2. IsFiniteSet(LegacyEdges(id))
    BY <2>1, FS_Subset DEF FoundKnown
  <2>3. QED
    BY <2>2, FS_EmptySet
<1>3. Cardinality(edges) = 1 <=> \E x \in edges : edges = {x}
  BY <1>2, OneElement
<1>4. ASSUME NEW e \in DOMAIN found
      PROVE  MeantFor(i, e) <=>
               \/ e = <<item.kind, id>>
               \/ /\ item.kind = "edge" /\ e \in Named("edge") /\ found[e].base = id
                  /\ \A d \in Named("edge") : found[d].base = id \/ d[2] = id => d = e
  BY DEF MeantFor
<1>5. ASSUME NEW e \in DOMAIN found, exact # {}
      PROVE  MeantFor(i, e) <=> e = <<item.kind, id>>
  <2>1. <<item.kind, id>> \in DOMAIN found
    BY <1>5
  <2>2. ASSUME item.kind = "edge" PROVE <<item.kind, id>> \in Named("edge")
    <3>1. <<item.kind, id>>[1] = "edge"
      BY <2>2
    <3>2. QED
      BY <2>1, <3>1 DEF Named
  <2>3. <<item.kind, id>>[2] = id
    OBVIOUS
  <2> HIDE DEF id, item, exact
  <2>4. QED
    BY <1>4, <2>2, <2>3
<1>6. ASSUME NEW e \in DOMAIN found, exact = {}
      PROVE  MeantFor(i, e) <=> e \in edges /\ edges = {e}
  <2>1. e # <<item.kind, id>>
    BY <1>6
  <2>2. ASSUME item.kind = "edge", NEW d \in Named("edge") PROVE d[2] # id
    <3>1. d \in DOMAIN found /\ d = <<"edge", d[2]>>
      BY NamesArePairs
    <3>2. QED
      BY <1>6, <2>2, <3>1
  <2>3. CASE item.kind = "edge"
    <3>1. edges = {d \in Named("edge") : found[d].base = id}
      BY <2>3 DEF LegacyEdges
    <3> HIDE DEF id, item, exact, edges
    <3>2. QED
      BY <1>4, <2>1, <2>2, <2>3, <3>1
  <2>4. CASE item.kind # "edge"
    BY <1>4, <2>1, <2>4
  <2>5. QED
    BY <2>3, <2>4
<1>7. CASE exact # {}
  <2>1. exact = {<<item.kind, id>>} /\ Resolve(item) = exact
    BY <1>1, <1>7
  <2> HIDE DEF id, item, exact, edges
  <2>2. Resolve(item) = {e \in DOMAIN found : MeantFor(i, e)}
    <3>1. exact \subseteq DOMAIN found
      BY DEF exact
    <3>2. QED
      BY <1>5, <1>7, <2>1, <3>1
  <2>3. QED
    BY <2>1, <2>2 DEF item
<1>8. CASE exact = {}
  <2>1. edges \subseteq DOMAIN found
    BY DEF LegacyEdges, Named
  <2>2. Resolve(item) = IF \E x \in edges : edges = {x} THEN edges ELSE {}
    BY <1>1, <1>3, <1>8
  <2> HIDE DEF id, item, exact, edges
  <2>3. \A e \in DOMAIN found : MeantFor(i, e) <=> e \in Resolve(item)
    BY <1>6, <1>8, <2>1, <2>2
  <2>4. Resolve(item) \subseteq DOMAIN found /\ \A d, e \in Resolve(item) : d = e
    BY <2>1, <2>2
  <2>5. QED
    BY <2>3, <2>4 DEF item
<1>9. QED
  BY <1>7, <1>8

-----------------------------------------------------------------------------
(* The record says which items were applied.                               *)

\* Before the items in S: an increasing list of those that are meant for e,
\* whose precedences are in p.
Lists(applied, n, e, p) ==
  /\ applied \in [DOMAIN p -> 1..(n - 1)]
  /\ \A k, m \in DOMAIN applied : k < m => applied[k] < applied[m]
  /\ {applied[k] : k \in DOMAIN applied} = {i \in 1..(n - 1) : MeantFor(i, e)}
  /\ \A k \in DOMAIN applied : p[k] = items[applied[k]].precedence

TraceInv ==
  /\ pass = "apply" => next <= Len(items) + 1
  /\ Merging =>
       /\ DOMAIN provenance = DOMAIN found
       /\ \A e \in DOMAIN found :
            Listed(provenance[e]) /\ \E applied : Lists(applied, next, e, provenance[e])

\* An item that is meant for the entity is listed last.
LEMMA ListsGrows ==
  ASSUME NEW n \in Nat \ {0}, NEW e, NEW p, Listed(p), NEW applied, Lists(applied, n, e, p),
         MeantFor(n, e)
  PROVE  \E a : Lists(a, n + 1, e, Append(p, items[n].precedence))
<1> DEFINE len == Len(p)
           q == Append(p, items[n].precedence)
           a == [k \in 1..(len + 1) |-> IF k = len + 1 THEN n ELSE applied[k]]
<1>1. len \in Nat /\ DOMAIN p = 1..len /\ DOMAIN applied = 1..len
  BY DEF Listed, Lists
<1>2. /\ DOMAIN q = 1..(len + 1) /\ q[len + 1] = items[n].precedence
      /\ \A k \in 1..len : q[k] = p[k]
  BY <1>1
<1>3. \A k \in 1..len : applied[k] \in 1..(n - 1)
  BY <1>1 DEF Lists
<1>4. DOMAIN a = 1..(len + 1) /\ a[len + 1] = n /\ \A k \in 1..len : a[k] = applied[k]
  BY <1>1
<1> HIDE DEF len, q, a
<1>5. a \in [DOMAIN q -> 1..n]
  <2>1. \A k \in 1..(len + 1) : a[k] \in 1..n
    BY <1>1, <1>3, <1>4
  <2>2. a = [k \in 1..(len + 1) |-> a[k]]
    BY DEF a
  <2>3. QED
    BY <1>2, <2>1, <2>2
<1>6. ASSUME NEW k \in DOMAIN a, NEW m \in DOMAIN a, k < m PROVE a[k] < a[m]
  <2>1. k \in 1..len
    BY <1>1, <1>4, <1>6
  <2>2. CASE m = len + 1
    BY <1>3, <1>4, <2>1, <2>2
  <2>3. CASE m \in 1..len
    <3>1. applied[k] < applied[m]
      BY <1>1, <1>6, <2>1, <2>3 DEF Lists
    <3>2. QED
      BY <1>4, <2>1, <2>3, <3>1
  <2>4. QED
    BY <1>1, <1>4, <2>2, <2>3
<1>7. ASSUME NEW i \in 1..n
      PROVE  MeantFor(i, e) <=> \E k \in DOMAIN a : a[k] = i
  <2>1. CASE i = n
    BY <1>1, <1>4, <2>1
  <2>2. CASE i # n
    <3>1. i \in 1..(n - 1)
      BY <2>2
    <3>2. MeantFor(i, e) <=> \E k \in 1..len : applied[k] = i
      BY <1>1, <3>1 DEF Lists
    <3>3. (\E k \in DOMAIN a : a[k] = i) <=> \E k \in 1..len : applied[k] = i
      BY <1>1, <1>4, <2>2
    <3>4. QED
      BY <3>2, <3>3
  <2>3. QED
    BY <2>1, <2>2
<1>8. {a[k] : k \in DOMAIN a} = {i \in 1..n : MeantFor(i, e)}
  <2>1. \A k \in DOMAIN a : a[k] \in 1..n
    BY <1>2, <1>5
  <2>2. QED
    BY <1>7, <2>1
<1>9. \A k \in DOMAIN a : q[k] = items[a[k]].precedence
  BY <1>1, <1>2, <1>4 DEF Lists
<1>10. (n + 1) - 1 = n
  OBVIOUS
<1>11. Lists(a, n + 1, e, q)
  BY <1>5, <1>6, <1>8, <1>9, <1>10 DEF Lists
<1>12. QED
  BY <1>11 DEF q

\* Any other item leaves the list as it is.
LEMMA ListsStays ==
  ASSUME NEW n \in Nat \ {0}, NEW e, NEW p, NEW applied, Lists(applied, n, e, p), ~MeantFor(n, e)
  PROVE  Lists(applied, n + 1, e, p)
<1>1. {i \in 1..(n - 1) : MeantFor(i, e)} = {i \in 1..((n + 1) - 1) : MeantFor(i, e)}
  <2>1. 1..((n + 1) - 1) = 1..(n - 1) \cup {n}
    OBVIOUS
  <2>2. QED
    BY <2>1
<1>2. 1..(n - 1) \subseteq 1..((n + 1) - 1)
  OBVIOUS
<1>3. applied \in [DOMAIN p -> 1..((n + 1) - 1)]
  BY <1>2 DEF Lists
<1>4. QED
  BY <1>1, <1>3 DEF Lists

\* The lists depend on the items and on what was found alone.
LEMMA ListsFixed ==
  ASSUME UNCHANGED <<found, items>>, NEW applied, NEW n, NEW e, NEW p
  PROVE  Lists(applied, n, e, p)' <=> Lists(applied, n, e, p)
<1>1. \A i : MeantFor(i, e)' <=> MeantFor(i, e)
  BY DEF MeantFor, Named
<1>2. QED
  BY <1>1 DEF Lists

\* Applying an item extends the list of the one entity it is meant for.
LEMMA TraceApply ==
  ASSUME ShapeInv, TraceInv, Apply, ~Failed
  PROVE  TraceInv'
<1> DEFINE n == next
           item == items[n]
<1>1. n \in Nat \ {0} /\ n \in DOMAIN items /\ n <= Len(items) /\ Len(items) \in Nat /\ Merging
  BY DEF Apply, ShapeInv, ItemsListed, Listed, Merging
<1>2. PICK t \in Resolve(item) :
        /\ provenance' = [provenance EXCEPT ![t] = Append(@, item.precedence)]
        /\ next' = n + 1 /\ UNCHANGED <<pass, found, items>>
  BY DEF Apply
<1> HIDE DEF n, item
<1>3. /\ Resolve(item) = {e \in DOMAIN found : MeantFor(n, e)}
      /\ \A d, e \in Resolve(item) : d = e
  BY <1>1, ResolveMeant DEF ShapeInv, item
<1>4. t \in DOMAIN found /\ \A e \in DOMAIN found : MeantFor(n, e) <=> e = t
  BY <1>2, <1>3
<1>5. /\ DOMAIN provenance' = DOMAIN found
      /\ \A e \in DOMAIN found :
           provenance'[e] = IF e = t THEN Append(provenance[t], item.precedence) ELSE provenance[e]
  BY <1>1, <1>2, <1>4 DEF TraceInv
<1>6. ASSUME NEW e \in DOMAIN found
      PROVE  Listed(provenance'[e]) /\ \E applied : Lists(applied, n + 1, e, provenance'[e])
  <2> DEFINE p == provenance[e]
  <2>1. PICK applied : Listed(p) /\ Lists(applied, n, e, p)
    BY <1>1 DEF TraceInv, n
  <2>2. CASE e = t
    <3>1. provenance'[e] = Append(p, items[n].precedence)
      BY <1>5, <2>2 DEF item
    <3> HIDE DEF p
    <3>2. \E a : Lists(a, n + 1, e, Append(p, items[n].precedence))
      BY <1>1, <1>4, <2>1, <2>2, ListsGrows
    <3>3. Listed(Append(p, items[n].precedence))
      BY <2>1 DEF Listed
    <3>4. QED
      BY <3>1, <3>2, <3>3
  <2>3. CASE e # t
    <3>1. Lists(applied, n + 1, e, p)
      BY <1>1, <1>4, <2>1, <2>3, ListsStays
    <3>2. QED
      BY <1>5, <2>1, <2>3, <3>1
  <2>4. QED
    BY <2>2, <2>3
<1>7. ASSUME NEW e \in DOMAIN found'
      PROVE  Listed(provenance'[e]) /\ \E applied : Lists(applied, next, e, provenance[e])'
  BY <1>2, <1>6, ListsFixed
<1>8. next' <= Len(items') + 1
  BY <1>1, <1>2
<1>9. QED
  BY <1>2, <1>5, <1>7, <1>8 DEF TraceInv

\* Every step preserves it.
LEMMA TraceStep == ShapeInv /\ TraceInv /\ [Next]_vars => TraceInv'
<1> SUFFICES ASSUME ShapeInv, TraceInv, [Next]_vars PROVE TraceInv'
  OBVIOUS
<1>1. CASE Failed \/ Supply \/ (Normalize /\ UNCHANGED overlayVars)
  <2>1. pass' \notin {"apply", "done"}
    BY <1>1 DEF Failed, Supply, Normalize, NormalizeService, NormalizeEdge, NormalizeEndpoint,
                Refuse, Read, Continue
  <2>2. QED
    BY <2>1 DEF TraceInv, Merging
<1>2. CASE Build /\ ~Failed
  <2>1. /\ provenance' = [e \in DOMAIN found |-> <<>>]
        /\ pass' = "apply" /\ next' = 1 /\ UNCHANGED <<found, items>>
    BY <1>2 DEF Build
  <2>2. ASSUME NEW e \in DOMAIN found PROVE Lists(<<>>, 1, e, <<>>)
    <3>1. DOMAIN <<>> = {} /\ 1..(1 - 1) = {}
      OBVIOUS
    <3>2. <<>> \in [DOMAIN <<>> -> 1..(1 - 1)]
      BY <3>1
    <3>3. QED
      BY <3>1, <3>2 DEF Lists
  <2>3. Listed(<<>>)
    BY DEF Listed
  <2>4. ASSUME NEW e \in DOMAIN found'
        PROVE  Listed(provenance'[e]) /\ \E applied : Lists(applied, next, e, provenance[e])'
    BY <2>1, <2>2, <2>3, ListsFixed
  <2>5. next' <= Len(items') + 1
    BY <2>1 DEF ShapeInv, ItemsListed, Listed
  <2>6. QED
    BY <2>1, <2>4, <2>5 DEF TraceInv
<1>3. CASE Apply /\ ~Failed
  BY <1>3, TraceApply
<1>4. CASE Finish /\ ~Failed
  <2>1. UNCHANGED <<next, found, items, provenance>> /\ Merging /\ pass' = "done"
    BY <1>4 DEF Finish, Merging
  <2>2. ASSUME NEW e \in DOMAIN found'
        PROVE  Listed(provenance'[e]) /\ \E applied : Lists(applied, next, e, provenance[e])'
    BY <2>1, ListsFixed DEF TraceInv
  <2>3. QED
    BY <2>1, <2>2 DEF TraceInv
<1>5. CASE Ended \/ UNCHANGED vars
  <2>1. UNCHANGED <<pass, next, found, items, provenance>>
    BY <1>5 DEF Ended, vars, fileVars, overlayVars
  <2>2. ASSUME Merging, NEW e \in DOMAIN found'
        PROVE  Listed(provenance'[e]) /\ \E applied : Lists(applied, next, e, provenance[e])'
    BY <2>1, <2>2, ListsFixed DEF TraceInv
  <2>3. QED
    BY <2>1, <2>2 DEF TraceInv, Merging
<1>6. QED
  BY <1>1, <1>2, <1>3, <1>4, <1>5 DEF Next

\* An overlay touches the entity it is meant for and no other, none is passed
\* over, and the record says which were applied, in their order: Traceable,
\* of applyOverlays.
THEOREM OverlaysAreTraceable == Spec => []Traceable
<1>1. Init => TraceInv
  BY DEF Init, TraceInv, Merging
<1>2. TraceInv => Traceable
  BY DEF TraceInv, Traceable, Lists
<1>3. QED
  BY <1>1, <1>2, ShapeAlways, TraceStep, PTL DEF Spec

-----------------------------------------------------------------------------
(* The least and the greatest of a set of positions.                       *)

\* A set of natural numbers has a least element.
LEMMA LeastPosition ==
  ASSUME NEW S \in SUBSET Nat, S # {}
  PROVE  /\ Min(S) \in S /\ \A x \in S : Min(S) <= x
         /\ \A m \in S : (\A x \in S : m <= x) => Min(S) = m
<1>1. PICK m \in S : \A x \in S : ~(<<x, m>> \in OpToRel(<, Nat))
  BY NatLessThanWellFounded, WFMin
<1>2. \A x \in S : ~(x < m)
  BY <1>1 DEF OpToRel
<1>3. \A x \in S : m <= x
  BY <1>2
<1>4. Min(S) \in S /\ \A x \in S : Min(S) <= x
  BY <1>3 DEF Min
<1>5. ASSUME NEW k \in S, \A x \in S : k <= x PROVE Min(S) = k
  <2>1. Min(S) \in Nat /\ k \in Nat /\ Min(S) <= k /\ k <= Min(S)
    BY <1>4, <1>5
  <2>2. QED
    BY <2>1
<1>6. QED
  BY <1>4, <1>5

\* Natural numbers below a bound have a greatest.
LEMMA GreatestPosition ==
  ASSUME NEW n \in Nat, NEW S \in SUBSET (0..n), S # {}
  PROVE  /\ Max(S) \in S /\ \A x \in S : x <= Max(S)
         /\ \A m \in S : (\A x \in S : x <= m) => Max(S) = m
<1> DEFINE T == {n - x : x \in S}
<1>1. T \subseteq Nat /\ T # {}
  <2>1. \A x \in S : n - x \in Nat
    OBVIOUS
  <2>2. QED
    BY <2>1
<1>2. Min(T) \in T /\ \A y \in T : Min(T) <= y
  <2> HIDE DEF T
  <2>1. QED
    BY <1>1, LeastPosition
<1>3. PICK m \in S : Min(T) = n - m
  BY <1>2
<1>4. \A x \in S : x <= m
  <2>1. ASSUME NEW x \in S PROVE x <= m
    <3>1. n - m <= n - x
      BY <1>2, <1>3
    <3>2. QED
      BY <3>1
  <2>2. QED
    BY <2>1
<1>5. Max(S) \in S /\ \A x \in S : x <= Max(S)
  <2>1. \A x \in S : m >= x
    BY <1>4
  <2>2. Max(S) \in S /\ \A x \in S : Max(S) >= x
    BY <2>1 DEF Max
  <2>3. QED
    BY <2>2
<1>6. ASSUME NEW k \in S, \A x \in S : x <= k PROVE Max(S) = k
  <2>1. Max(S) \in 0..n /\ k \in 0..n
    BY <1>5
  <2>2. Max(S) <= k /\ k <= Max(S)
    BY <1>5, <1>6
  <2>3. QED
    BY <2>1, <2>2
<1>7. QED
  BY <1>5, <1>6

-----------------------------------------------------------------------------
(* What an item adds to what the items before it made of an entity.        *)

Before(e) == Normalized(found[e].set)

ValueBy(S, e, f) ==
  IF f \in United
  THEN UNION ({Before(e)[g] : g \in {f} \cap DOMAIN Before(e)}
                \cup {Given(i)[f] : i \in Givers(S, e, f)})
  ELSE IF Givers(S, e, f) = {} \/ (f = "identity" /\ f \in DOMAIN Before(e)) THEN Before(e)[f]
  ELSE Given(IF f = "identity" THEN Min(Givers(S, e, f)) ELSE Max(Givers(S, e, f)))[f]

\* A merged object is a function of the fields of both.
LEMMA MergeFields ==
  ASSUME NEW c, NEW g
  PROVE  /\ DOMAIN Merge(c, g) = DOMAIN c \cup DOMAIN g
         /\ \A f \in DOMAIN Merge(c, g) :
              Merge(c, g)[f] = IF f \in DOMAIN g
                               THEN (IF f \in DOMAIN c THEN Merged(f, c[f], g[f]) ELSE g[f])
                               ELSE c[f]
         /\ Merge(c, g) = [f \in DOMAIN Merge(c, g) |-> Merge(c, g)[f]]
<1> DEFINE m == Merge(c, g)
           V(f) == IF f \in DOMAIN c \cap DOMAIN g THEN Merged(f, c[f], g[f]) ELSE With(c, g)[f]
<1>1. m = [f \in DOMAIN c \cup DOMAIN g |-> V(f)]
  BY Zenon DEF Merge
<1>2. \A f \in DOMAIN c \cup DOMAIN g : With(c, g)[f] = IF f \in DOMAIN g THEN g[f] ELSE c[f]
  BY DEF With
<1> HIDE DEF m
<1>3. \A f \in DOMAIN c \cup DOMAIN g :
        V(f) = IF f \in DOMAIN g
               THEN (IF f \in DOMAIN c THEN Merged(f, c[f], g[f]) ELSE g[f])
               ELSE c[f]
  BY <1>2
<1> HIDE DEF V
<1>4. /\ DOMAIN m = DOMAIN c \cup DOMAIN g
      /\ \A f \in DOMAIN m : m[f] = IF f \in DOMAIN g
                                  THEN (IF f \in DOMAIN c THEN Merged(f, c[f], g[f]) ELSE g[f])
                                  ELSE c[f]
      /\ m = [f \in DOMAIN m |-> m[f]]
  BY <1>1, <1>3
<1>5. QED
  BY <1>4 DEF m

\* The fields of the merged entity, and their values.
LEMMA MergedFields ==
  ASSUME NEW S, NEW e
  PROVE  /\ \A f : f \in DOMAIN MergedBy(S, e) <=> f \in DOMAIN Before(e) \/ Givers(S, e, f) # {}
         /\ MergedBy(S, e) = [f \in DOMAIN MergedBy(S, e) |-> ValueBy(S, e, f)]
<1> DEFINE dom == DOMAIN Before(e)
                    \cup {g \in UNION {DOMAIN Given(i) : i \in S} : Givers(S, e, g) # {}}
<1>1. MergedBy(S, e) = [f \in dom |-> ValueBy(S, e, f)]
  BY Zenon DEF MergedBy, ValueBy, Before
<1>2. ASSUME NEW f PROVE f \in dom <=> f \in DOMAIN Before(e) \/ Givers(S, e, f) # {}
  <2>1. Givers(S, e, f) # {} => f \in UNION {DOMAIN Given(i) : i \in S}
    BY DEF Givers
  <2>2. QED
    BY <2>1
<1> HIDE DEF dom
<1>3. QED
  BY <1>1, <1>2

\* The items up to n give what the ones before it give, and what n gives.
LEMMA GiversGrow ==
  ASSUME NEW n \in Nat \ {0}, NEW e, NEW f
  PROVE  /\ MeantFor(n, e) /\ f \in DOMAIN Given(n) =>
              Givers(1..n, e, f) = Givers(1..(n - 1), e, f) \cup {n}
         /\ ~(MeantFor(n, e) /\ f \in DOMAIN Given(n)) =>
              Givers(1..n, e, f) = Givers(1..(n - 1), e, f)
         /\ Givers(1..(n - 1), e, f) \subseteq 1..(n - 1)
<1>1. 1..n = 1..(n - 1) \cup {n}
  OBVIOUS
<1>2. QED
  BY <1>1 DEF Givers

\* The value of a field that the item gives: united, kept, replaced or new.
LEMMA ValueGrows ==
  ASSUME NEW n \in Nat \ {0}, NEW e, NEW f, MeantFor(n, e), f \in DOMAIN Given(n)
  PROVE  ValueBy(1..n, e, f) =
           IF f \in DOMAIN MergedBy(1..(n - 1), e)
           THEN Merged(f, ValueBy(1..(n - 1), e, f), Given(n)[f]) ELSE Given(n)[f]
<1> DEFINE G == Givers(1..(n - 1), e, f)
           H == Givers(1..n, e, f)
           old == {Before(e)[g] : g \in {f} \cap DOMAIN Before(e)}
<1>1. H = G \cup {n} /\ G \subseteq 1..(n - 1)
  BY GiversGrow
<1>2. f \in DOMAIN MergedBy(1..(n - 1), e) <=> f \in DOMAIN Before(e) \/ G # {}
  BY MergedFields
<1>3. /\ H # {} /\ Max(H) = n
      /\ G # {} => Min(H) = Min(G)
      /\ G = {} => Min(H) = n
  <2>1. H \subseteq 0..n /\ n \in H /\ \A x \in H : x <= n
    BY <1>1
  <2> HIDE DEF H, G
  <2>2. Max(H) = n
    BY <2>1, GreatestPosition
  <2>3. H \subseteq Nat /\ G \subseteq Nat
    BY <1>1
  <2>4. ASSUME G # {} PROVE Min(H) = Min(G)
    <3>1. Min(G) \in G /\ \A x \in G : Min(G) <= x
      BY <2>3, <2>4, LeastPosition
    <3>2. Min(G) \in H /\ \A x \in H : Min(G) <= x
      <4>1. Min(G) \in 1..(n - 1)
        BY <1>1, <3>1
      <4>2. QED
        BY <1>1, <3>1, <4>1
    <3>3. QED
      BY <2>3, <3>2, LeastPosition
  <2>5. ASSUME G = {} PROVE Min(H) = n
    <3>1. H = {n}
      BY <1>1, <2>5
    <3>2. QED
      BY <2>3, <3>1, LeastPosition
  <2>6. QED
    BY <2>1, <2>2, <2>4, <2>5
<1>4. CASE f \in United
  <2>1. ValueBy(1..n, e, f) = UNION (old \cup {Given(i)[f] : i \in H})
    BY <1>4 DEF ValueBy
  <2>2. ValueBy(1..(n - 1), e, f) = UNION (old \cup {Given(i)[f] : i \in G})
    BY <1>4 DEF ValueBy
  <2>3. {Given(i)[f] : i \in H} = {Given(i)[f] : i \in G} \cup {Given(n)[f]}
    BY <1>1
  <2>4. ASSUME f \notin DOMAIN Before(e), G = {} PROVE ValueBy(1..n, e, f) = Given(n)[f]
    <3>1. old = {} /\ {Given(i)[f] : i \in G} = {}
      BY <2>4
    <3> HIDE DEF old, H, G
    <3>2. QED
      BY <2>1, <2>3, <3>1
  <2>5. ValueBy(1..n, e, f) = ValueBy(1..(n - 1), e, f) \cup Given(n)[f]
    <3> HIDE DEF old, H, G
    <3>1. QED
      BY <2>1, <2>2, <2>3
  <2>6. Merged(f, ValueBy(1..(n - 1), e, f), Given(n)[f]) =
          ValueBy(1..(n - 1), e, f) \cup Given(n)[f]
    BY <1>4 DEF Merged, United
  <2>7. QED
    BY <1>2, <2>4, <2>5, <2>6
<1>5. CASE f = "identity"
  <2>1. /\ f \notin United
        /\ Merged(f, ValueBy(1..(n - 1), e, f), Given(n)[f]) = ValueBy(1..(n - 1), e, f)
    BY <1>5 DEF Merged, United
  <2> HIDE DEF H, G
  <2>2. ValueBy(1..n, e, f) = IF f \in DOMAIN Before(e) THEN Before(e)[f] ELSE Given(Min(H))[f]
    BY <1>3, <1>5, <2>1 DEF ValueBy, H
  <2>3. G # {} => ValueBy(1..(n - 1), e, f) =
          IF f \in DOMAIN Before(e) THEN Before(e)[f] ELSE Given(Min(G))[f]
    BY <1>5, <2>1 DEF ValueBy, G
  <2>4. G = {} => ValueBy(1..(n - 1), e, f) = Before(e)[f]
    BY <2>1 DEF ValueBy, G
  <2>5. QED
    BY <1>2, <1>3, <2>1, <2>2, <2>3, <2>4
<1>6. CASE f \notin United /\ f # "identity"
  <2>1. Merged(f, ValueBy(1..(n - 1), e, f), Given(n)[f]) = Given(n)[f]
    BY <1>6 DEF Merged
  <2> HIDE DEF H, G
  <2>2. ValueBy(1..n, e, f) = Given(n)[f]
    BY <1>3, <1>6 DEF ValueBy, H
  <2>3. QED
    BY <2>1, <2>2
<1>7. QED
  BY <1>4, <1>5, <1>6

\* An item that is meant for the entity is merged into what was there.
LEMMA MergeGrows ==
  ASSUME NEW n \in Nat \ {0}, NEW e, MeantFor(n, e)
  PROVE  Merge(MergedBy(1..(n - 1), e), Given(n)) = MergedBy(1..n, e)
<1> DEFINE c == MergedBy(1..(n - 1), e)
           d == MergedBy(1..n, e)
           g == Given(n)
           m == Merge(c, g)
<1>1. /\ DOMAIN m = DOMAIN c \cup DOMAIN g
      /\ \A f \in DOMAIN m : m[f] = IF f \in DOMAIN g
                                  THEN (IF f \in DOMAIN c THEN Merged(f, c[f], g[f]) ELSE g[f])
                                  ELSE c[f]
      /\ m = [f \in DOMAIN m |-> m[f]]
  BY MergeFields
<1>2. /\ \A f : f \in DOMAIN c <=> f \in DOMAIN Before(e) \/ Givers(1..(n - 1), e, f) # {}
      /\ c = [f \in DOMAIN c |-> ValueBy(1..(n - 1), e, f)]
  BY MergedFields
<1>3. /\ \A f : f \in DOMAIN d <=> f \in DOMAIN Before(e) \/ Givers(1..n, e, f) # {}
      /\ d = [f \in DOMAIN d |-> ValueBy(1..n, e, f)]
  BY MergedFields
<1>4. \A f \in DOMAIN c : c[f] = ValueBy(1..(n - 1), e, f)
  <2> HIDE DEF c
  <2>1. QED
    BY <1>2
<1>5. \A f \in DOMAIN d : d[f] = ValueBy(1..n, e, f)
  <2> HIDE DEF d
  <2>1. QED
    BY <1>3
<1>6. DOMAIN m = DOMAIN d
  <2>1. ASSUME NEW f PROVE f \in DOMAIN d <=> f \in DOMAIN c \/ f \in DOMAIN g
    <3> HIDE DEF c, d
    <3>1. QED
      BY <1>2, <1>3, GiversGrow
  <2> HIDE DEF c, d, g, m
  <2>2. QED
    BY <1>1, <2>1
<1>7. ASSUME NEW f \in DOMAIN d PROVE m[f] = d[f]
  <2>1. CASE f \in DOMAIN g
    <3>1. d[f] = IF f \in DOMAIN c THEN Merged(f, c[f], g[f]) ELSE g[f]
      BY <1>4, <1>5, <1>7, <2>1, ValueGrows
    <3>2. QED
      BY <1>1, <1>6, <1>7, <2>1, <3>1
  <2>2. CASE f \notin DOMAIN g
    <3>1. Givers(1..n, e, f) = Givers(1..(n - 1), e, f)
      BY <2>2, GiversGrow
    <3>2. ValueBy(1..n, e, f) = ValueBy(1..(n - 1), e, f)
      BY <3>1 DEF ValueBy
    <3>3. f \in DOMAIN c
      BY <1>1, <1>6, <2>2
    <3>4. QED
      BY <1>1, <1>4, <1>5, <1>6, <2>2, <3>2, <3>3
  <2>3. QED
    BY <2>1, <2>2
<1>8. m = d
  <2> HIDE DEF c, d, g, m
  <2>1. QED
    BY <1>1, <1>3, <1>5, <1>6, <1>7
<1>9. QED
  BY <1>8

\* An item that is not meant for the entity changes nothing of it.
LEMMA MergeStays ==
  ASSUME NEW n \in Nat \ {0}, NEW e, ~MeantFor(n, e)
  PROVE  MergedBy(1..(n - 1), e) = MergedBy(1..n, e)
<1>1. \A f : Givers(1..n, e, f) = Givers(1..(n - 1), e, f)
  BY GiversGrow
<1>2. \A f : ValueBy(1..n, e, f) = ValueBy(1..(n - 1), e, f)
  BY <1>1 DEF ValueBy
<1> DEFINE c == MergedBy(1..(n - 1), e)
           d == MergedBy(1..n, e)
<1>3. \A f : f \in DOMAIN c <=> f \in DOMAIN d
  BY <1>1, MergedFields
<1>4. /\ c = [f \in DOMAIN c |-> ValueBy(1..(n - 1), e, f)]
      /\ d = [f \in DOMAIN d |-> ValueBy(1..n, e, f)]
  BY MergedFields
<1>5. c = d
  <2> HIDE DEF c, d
  <2>1. DOMAIN c = DOMAIN d
    BY <1>3
  <2>2. QED
    BY <1>2, <1>4, <2>1
<1>6. QED
  BY <1>5

\* Nothing is what was there before the overlays.
LEMMA MergeNone ==
  ASSUME NEW e
  PROVE  MergedBy(1..0, e) = Before(e)
<1> DEFINE c == MergedBy(1..0, e)
<1>1. \A f : Givers(1..0, e, f) = {}
  BY DEF Givers
<1>2. \A f : f \in DOMAIN c <=> f \in DOMAIN Before(e)
  BY <1>1, MergedFields
<1>3. ASSUME NEW f \in DOMAIN Before(e) PROVE ValueBy(1..0, e, f) = Before(e)[f]
  <2>1. CASE f \in United
    <3>1. ValueBy(1..0, e, f) = UNION ({Before(e)[g] : g \in {f} \cap DOMAIN Before(e)} \cup {})
      BY <1>1, <2>1 DEF ValueBy
    <3>2. {Before(e)[g] : g \in {f} \cap DOMAIN Before(e)} = {Before(e)[f]}
      BY <1>3
    <3>3. QED
      BY <3>1, <3>2
  <2>2. CASE f \notin United
    BY <1>1, <2>2 DEF ValueBy
  <2>3. QED
    BY <2>1, <2>2
<1>4. c = [f \in DOMAIN c |-> ValueBy(1..0, e, f)]
  BY MergedFields
<1>5. Before(e) = [f \in DOMAIN Before(e) |-> Before(e)[f]]
  <2>1. \A k : Normalized(k) = [f \in DOMAIN Normalized(k) |-> Normalized(k)[f]]
    BY DEF Normalized
  <2>2. QED
    BY <2>1 DEF Before
<1>6. c = Before(e)
  <2> HIDE DEF c
  <2>1. DOMAIN c = DOMAIN Before(e)
    BY <1>2
  <2>2. QED
    BY <1>3, <1>4, <1>5, <2>1
<1>7. QED
  BY <1>6

-----------------------------------------------------------------------------
(* The two forms agree.                                                    *)

\* A normalised object is a function of the fields it keeps.
LEMMA NormalizedFields ==
  ASSUME NEW c
  PROVE  /\ \A f : f \in DOMAIN Normalized(c) <=> f \in DOMAIN c /\ c[f] # Empty
         /\ \A f \in DOMAIN Normalized(c) : Normalized(c)[f] = c[f]
         /\ Normalized(c) = [f \in DOMAIN Normalized(c) |-> Normalized(c)[f]]
  BY DEF Normalized

\* The model form is a function of the fields it keeps.
LEMMA ModelFields ==
  ASSUME NEW c
  PROVE  /\ \A f : f \in DOMAIN ModelForm(c) <=> f \in DOMAIN c /\ f \notin RecordOnly
         /\ \A f \in DOMAIN ModelForm(c) : ModelForm(c)[f] = c[f]
         /\ ModelForm(c) = [f \in DOMAIN ModelForm(c) |-> ModelForm(c)[f]]
  BY DEF ModelForm

\* Normalising and taking the model form commute.
LEMMA ModelOfNormalized ==
  ASSUME NEW c
  PROVE  ModelForm(Normalized(c)) = Normalized(ModelForm(c))
<1> DEFINE a == ModelForm(Normalized(c))
           b == Normalized(ModelForm(c))
<1>1. \A f : f \in DOMAIN a <=> f \in DOMAIN b
  BY NormalizedFields, ModelFields
<1>2. \A f \in DOMAIN a : a[f] = c[f]
  BY NormalizedFields, ModelFields
<1>3. \A f \in DOMAIN b : b[f] = c[f]
  BY NormalizedFields, ModelFields
<1>4. a = [f \in DOMAIN a |-> a[f]] /\ b = [f \in DOMAIN b |-> b[f]]
  BY NormalizedFields, ModelFields
<1>5. a = b
  <2> HIDE DEF a, b
  <2>1. DOMAIN a = DOMAIN b
    BY <1>1
  <2>2. QED
    BY <1>2, <1>3, <1>4, <2>1
<1>6. QED
  BY <1>5

\* What marks the replicas of a record.
LEMMA RecordFields ==
  ASSUME NEW set
  PROVE  /\ \A f : f \in DOMAIN RecordForm(set) <=>
               f \in DOMAIN set \/ (f = "replicas_override" /\ "replicas" \in DOMAIN set)
         /\ \A f \in DOMAIN RecordForm(set) :
              f # "replicas_override" => RecordForm(set)[f] = set[f]
  BY DEF RecordForm, With

\* Merging and taking the model form commute.
LEMMA ModelOfMerged ==
  ASSUME NEW c, NEW set
  PROVE  Merge(ModelForm(c), ModelForm(set)) = ModelForm(Merge(c, RecordForm(set)))
<1> DEFINE m == ModelForm(c)
           s == ModelForm(set)
           g == RecordForm(set)
           r == Merge(c, g)
           a == Merge(m, s)
           b == ModelForm(r)
<1>0. "replicas_override" \in RecordOnly
  BY DEF RecordOnly
<1>1. /\ \A f : f \in DOMAIN m <=> f \in DOMAIN c /\ f \notin RecordOnly
      /\ \A f \in DOMAIN m : m[f] = c[f]
  BY ModelFields
<1>2. /\ \A f : f \in DOMAIN s <=> f \in DOMAIN set /\ f \notin RecordOnly
      /\ \A f \in DOMAIN s : s[f] = set[f]
  BY ModelFields
<1>3. /\ \A f : f \in DOMAIN g /\ f \notin RecordOnly <=> f \in DOMAIN s
      /\ \A f \in DOMAIN s : g[f] = s[f]
  <2> HIDE DEF s
  <2>1. QED
    BY <1>0, <1>2, RecordFields
<1>4. /\ DOMAIN r = DOMAIN c \cup DOMAIN g
      /\ \A f \in DOMAIN r : r[f] = IF f \in DOMAIN g
                                  THEN (IF f \in DOMAIN c THEN Merged(f, c[f], g[f]) ELSE g[f])
                                  ELSE c[f]
  BY MergeFields
<1>5. /\ \A f : f \in DOMAIN b <=> f \in DOMAIN r /\ f \notin RecordOnly
      /\ \A f \in DOMAIN b : b[f] = r[f]
      /\ b = [f \in DOMAIN b |-> b[f]]
  BY ModelFields
<1>6. /\ DOMAIN a = DOMAIN m \cup DOMAIN s
      /\ \A f \in DOMAIN a : a[f] = IF f \in DOMAIN s
                                  THEN (IF f \in DOMAIN m THEN Merged(f, m[f], s[f]) ELSE s[f])
                                  ELSE m[f]
      /\ a = [f \in DOMAIN a |-> a[f]]
  BY MergeFields
<1> HIDE DEF m, s, g, r, a, b
<1>7. DOMAIN a = DOMAIN b
  BY <1>1, <1>3, <1>4, <1>5, <1>6
<1>8. ASSUME NEW f \in DOMAIN a PROVE a[f] = b[f]
  <2>1. f \notin RecordOnly /\ b[f] = r[f] /\ f \in DOMAIN r
    BY <1>5, <1>7, <1>8
  <2>2. (f \in DOMAIN g <=> f \in DOMAIN s) /\ (f \in DOMAIN c <=> f \in DOMAIN m)
    BY <1>1, <1>3, <2>1
  <2>3. CASE f \in DOMAIN s
    BY <1>1, <1>3, <1>4, <1>6, <1>8, <2>1, <2>2, <2>3
  <2>4. CASE f \notin DOMAIN s
    BY <1>1, <1>4, <1>6, <1>8, <2>1, <2>2, <2>4
  <2>5. QED
    BY <2>3, <2>4
<1>9. a = b
  BY <1>5, <1>6, <1>7, <1>8
<1>10. QED
  BY <1>9 DEF a, b, m, s, g, r

-----------------------------------------------------------------------------
(* The last overlay that gives a field wins.                               *)

\* The record of e is what the items before next make of it, and the model
\* its model form.
MergedSoFar(e) ==
  record[e] = MergedBy(1..(next - 1), e) /\ mdl[e] = ModelForm(record[e])

Replicated(c) == "replicas" \in DOMAIN c /\ c.replicas \in Int

MergeInv ==
  /\ Merging => /\ DOMAIN mdl = DOMAIN found /\ DOMAIN record = DOMAIN found
                /\ DOMAIN evidence \subseteq Named("service")
  /\ pass = "apply" => /\ next <= Len(items) + 1
                       /\ \A e \in DOMAIN found : MergedSoFar(e)
                       /\ \A e \in Named("service") : Replicated(record[e])
  /\ LastWins

\* What is merged depends on the items and on what was found alone.
LEMMA MergedFixed ==
  ASSUME UNCHANGED <<found, items>>
  PROVE  /\ \A S, e : MergedBy(S, e)' = MergedBy(S, e)
         /\ \A e : Expected(e)' = Expected(e)
         /\ \A s : EvidenceOf(s)' = EvidenceOf(s)
         /\ Named("service")' = Named("service")
<1>1. \A i, e : MeantFor(i, e)' <=> MeantFor(i, e)
  BY DEF MeantFor, Named
<1>2. \A i : Given(i)' = Given(i)
  BY DEF Given, GivesNone
<1>3. ASSUME NEW S, NEW e, NEW f PROVE Givers(S, e, f)' = Givers(S, e, f)
  BY <1>1, <1>2 DEF Givers
<1>4. ASSUME NEW S, NEW e PROVE MergedBy(S, e)' = MergedBy(S, e)
  BY <1>2, <1>3 DEF MergedBy
<1>5. ASSUME NEW e PROVE Expected(e)' = Expected(e)
  BY <1>4 DEF Expected
<1>6. ASSUME NEW s PROVE EvidenceOf(s)' = EvidenceOf(s)
  <2>1. Givers(DOMAIN items, s, "replicas")' = Givers(DOMAIN items, s, "replicas")
    BY <1>1, <1>2 DEF Givers
  <2>2. QED
    BY <1>5, <2>1 DEF EvidenceOf
<1>7. QED
  BY <1>4, <1>5, <1>6 DEF Named

\* What was found, before any overlay.
LEMMA MergeBuild ==
  ASSUME ShapeInv, Build, ~Failed
  PROVE  MergeInv'
<1>1. /\ mdl' = [e \in DOMAIN found |-> Normalized(ModelForm(found[e].set))]
      /\ record' = [e \in DOMAIN found |-> Normalized(found[e].set)]
      /\ DOMAIN evidence' \subseteq Named("service")
      /\ pass' = "apply" /\ next' = 1 /\ UNCHANGED <<found, items>>
  <2> DEFINE base == [e \in DOMAIN found |-> ModelForm(found[e].set)]
  <2>1. mdl' = [e \in DOMAIN base |-> Normalized(base[e])]
    BY DEF Build
  <2>2. mdl' = [e \in DOMAIN found |-> Normalized(ModelForm(found[e].set))]
    BY <2>1
  <2>3. DOMAIN evidence' = {e \in Named("service") : found[e].base = Spans}
    BY DEF Build
  <2>4. QED
    BY <2>2, <2>3 DEF Build
<1>2. ASSUME NEW e \in DOMAIN found PROVE MergedSoFar(e)'
  <2>1. record'[e] = MergedBy(1..0, e)
    BY <1>1, MergeNone DEF Before
  <2>2. MergedBy(1..0, e)' = MergedBy(1..0, e)
    BY <1>1, MergedFixed
  <2>3. mdl'[e] = ModelForm(record'[e])
    BY <1>1, ModelOfNormalized
  <2>4. record'[e] = MergedBy(1..0, e)'
    BY <2>1, <2>2
  <2>5. (next - 1)' = 0
    BY <1>1
  <2>6. QED
    BY <2>3, <2>4, <2>5 DEF MergedSoFar
<1>3. ASSUME NEW e \in Named("service") PROVE Replicated(record'[e])
  <2>1. e \in DOMAIN found /\ e[1] = "service"
    BY DEF Named
  <2>2. "replicas" \in DOMAIN found[e].set /\ found[e].set.replicas \in Int
    BY <2>1 DEF ShapeInv, FoundKnown, Entity
  <2>3. Empty \notin Int
    BY DocumentsAssumption
  <2>4. record'[e] = Normalized(found[e].set)
    BY <1>1, <2>1
  <2>5. QED
    BY <2>2, <2>3, <2>4, NormalizedFields DEF Replicated
<1>4. next' <= Len(items') + 1
  BY <1>1 DEF ShapeInv, ItemsListed, Listed
<1>5. ~(pass = "done")'
  BY <1>1
<1>6. Named("service")' = Named("service")
  BY <1>1, MergedFixed
<1>7. QED
  BY <1>1, <1>2, <1>3, <1>4, <1>5, <1>6 DEF MergeInv, LastWins, Merging

\* What an item gives: its fields but an empty identity, and the mark of its
\* replicas.
LEMMA GivenFields ==
  ASSUME NEW i
  PROVE  /\ \A f : f \in DOMAIN Given(i) <=>
               f \in DOMAIN RecordForm(items[i].set) /\ ~GivesNone(i, f)
         /\ \A f \in DOMAIN Given(i) : Given(i)[f] = RecordForm(items[i].set)[f]
         /\ Given(i) = [f \in DOMAIN Given(i) |-> Given(i)[f]]
         /\ "replicas" \in DOMAIN Given(i) <=> "replicas" \in DOMAIN items[i].set
         /\ "replicas" \in DOMAIN Given(i) => Given(i)["replicas"] = items[i].set["replicas"]
<1> DEFINE all == RecordForm(items[i].set)
<1>1. Given(i) = [f \in {g \in DOMAIN all : ~GivesNone(i, g)} |-> all[f]]
  BY DEF Given
<1>2. /\ "replicas" \in DOMAIN all <=> "replicas" \in DOMAIN items[i].set
      /\ "replicas" \in DOMAIN all => all["replicas"] = items[i].set["replicas"]
  BY RecordFields
<1>3. ~GivesNone(i, "replicas")
  BY DEF GivesNone
<1> HIDE DEF all
<1>4. /\ \A f : f \in DOMAIN Given(i) <=> f \in DOMAIN all /\ ~GivesNone(i, f)
      /\ \A f \in DOMAIN Given(i) : Given(i)[f] = all[f]
      /\ Given(i) = [f \in DOMAIN Given(i) |-> Given(i)[f]]
  BY <1>1
<1> QED
  BY <1>2, <1>3, <1>4 DEF all

\* It is what is merged into the record.
LEMMA ClonedGiven ==
  ASSUME NEW i
  PROVE  RecordForm(Cloned(items[i].set)) = Given(i)
<1> DEFINE set == items[i].set
           some == Cloned(set)
           all == RecordForm(set)
           kept == RecordForm(some)
<1>1. some = [f \in {g \in DOMAIN set : g = "identity" => set[g] # Empty} |-> set[f]]
  BY DEF Cloned, Restrict
<1>2. /\ \A f : f \in DOMAIN some <=> f \in DOMAIN set /\ ~GivesNone(i, f)
      /\ \A f \in DOMAIN some : some[f] = set[f]
      /\ some = [f \in DOMAIN some |-> some[f]]
  BY <1>1 DEF GivesNone
<1>3. ~GivesNone(i, "replicas") /\ ~GivesNone(i, "replicas_override")
  BY DEF GivesNone
<1>4. CASE "replicas" \in DOMAIN set
  <2>1. /\ all = With(set, [replicas_override |-> set.replicas])
        /\ kept = With(some, [replicas_override |-> set.replicas])
    BY <1>2, <1>3, <1>4 DEF RecordForm
  <2> HIDE DEF all, kept, some, set
  <2>2. /\ DOMAIN kept = DOMAIN some \cup {"replicas_override"}
        /\ DOMAIN all = DOMAIN set \cup {"replicas_override"}
        /\ \A f \in DOMAIN kept :
             kept[f] = IF f = "replicas_override" THEN set.replicas ELSE some[f]
        /\ \A f \in DOMAIN all :
             all[f] = IF f = "replicas_override" THEN set.replicas ELSE set[f]
        /\ kept = [f \in DOMAIN kept |-> kept[f]]
    BY <2>1 DEF With
  <2>3. /\ \A f : f \in DOMAIN kept <=> f \in DOMAIN all /\ ~GivesNone(i, f)
        /\ \A f \in DOMAIN kept : kept[f] = all[f]
    BY <1>2, <1>3, <2>2
  <2>4. /\ \A f : f \in DOMAIN Given(i) <=> f \in DOMAIN all /\ ~GivesNone(i, f)
        /\ \A f \in DOMAIN Given(i) : Given(i)[f] = all[f]
        /\ Given(i) = [f \in DOMAIN Given(i) |-> Given(i)[f]]
    BY GivenFields DEF all, set
  <2>5. DOMAIN kept = DOMAIN Given(i)
    BY <2>3, <2>4
  <2>6. kept = Given(i)
    BY <2>2, <2>3, <2>4, <2>5
  <2> QED
    BY <2>6 DEF kept, some, set
<1>5. CASE "replicas" \notin DOMAIN set
  <2>1. all = set /\ kept = some
    BY <1>2, <1>5 DEF RecordForm
  <2>2. /\ \A f : f \in DOMAIN Given(i) <=> f \in DOMAIN set /\ ~GivesNone(i, f)
        /\ \A f \in DOMAIN Given(i) : Given(i)[f] = set[f]
        /\ Given(i) = [f \in DOMAIN Given(i) |-> Given(i)[f]]
    BY <2>1, GivenFields
  <2> HIDE DEF all, kept, some, set
  <2>3. DOMAIN some = DOMAIN Given(i)
    BY <1>2, <2>2
  <2>4. some = Given(i)
    BY <1>2, <2>2, <2>3
  <2> QED
    BY <2>1, <2>4 DEF kept, some, set
<1> QED
  BY <1>4, <1>5

\* An item is merged into the two forms of the one entity it is meant for.
LEMMA MergeApply ==
  ASSUME ShapeInv, MergeInv, Apply, ~Failed
  PROVE  MergeInv'
<1>0. PICK n : n = next
  OBVIOUS
<1> DEFINE set == Cloned(items[n].set)
           c == record
           m == mdl
<1>1. n \in Nat \ {0} /\ n \in DOMAIN items /\ n <= Len(items) /\ Len(items) \in Nat
      /\ Merging /\ pass = "apply"
  BY <1>0 DEF Apply, ShapeInv, ItemsListed, Listed, Merging
<1>2. PICK t \in Resolve(items[n]) :
        /\ mdl' = [m EXCEPT ![t] = Merge(m[t], ModelForm(set))]
        /\ record' = [c EXCEPT ![t] = Merge(c[t], Given(n))]
        /\ next' = n + 1 /\ UNCHANGED <<pass, found, items, evidence>>
  BY <1>0, ClonedGiven DEF Apply
<1>3. t \in DOMAIN found /\ \A e \in DOMAIN found : MeantFor(n, e) <=> e = t
  BY <1>1, <1>2, ResolveMeant DEF ShapeInv
<1>4. DOMAIN m = DOMAIN found /\ DOMAIN c = DOMAIN found
  BY <1>1 DEF MergeInv
<1>5. \A e \in DOMAIN found : c[e] = MergedBy(1..(n - 1), e) /\ m[e] = ModelForm(c[e])
  BY <1>0, <1>1 DEF MergeInv, MergedSoFar
<1>6. \A e \in DOMAIN found :
        /\ record'[e] = IF e = t THEN Merge(c[t], Given(n)) ELSE c[e]
        /\ mdl'[e] = IF e = t THEN Merge(m[t], ModelForm(set)) ELSE m[e]
  BY <1>2, <1>4
<1>7. ASSUME NEW e \in DOMAIN found PROVE MergedSoFar(e)'
  <2>1. record'[e] = MergedBy(1..n, e)
    <3>1. CASE e = t
      BY <1>1, <1>3, <1>5, <1>6, <3>1, MergeGrows
    <3>2. CASE e # t
      BY <1>1, <1>3, <1>5, <1>6, <3>2, MergeStays
    <3>3. QED
      BY <3>1, <3>2
  <2>2. mdl'[e] = ModelForm(record'[e])
    <3>1. CASE e = t
      BY <1>5, <1>6, <3>1, ModelOfMerged, ClonedGiven
    <3>2. CASE e # t
      BY <1>5, <1>6, <3>2
    <3>3. QED
      BY <3>1, <3>2
  <2>3. record'[e] = MergedBy(1..n, e)'
    BY <1>2, <2>1, MergedFixed
  <2>4. (next - 1)' = n
    BY <1>1, <1>2
  <2>5. QED
    BY <2>2, <2>3, <2>4 DEF MergedSoFar
<1>8. ASSUME NEW e \in Named("service") PROVE Replicated(record'[e])
  <2>1. e \in DOMAIN found /\ Replicated(c[e])
    BY <1>1 DEF Named, MergeInv
  <2>2. CASE e = t
    <3> DEFINE r == Merge(c[t], Given(n))
    <3>1. /\ DOMAIN r = DOMAIN c[t] \cup DOMAIN Given(n)
          /\ \A f \in DOMAIN r :
               r[f] = IF f \in DOMAIN Given(n)
                      THEN (IF f \in DOMAIN c[t]
                            THEN Merged(f, c[t][f], Given(n)[f]) ELSE Given(n)[f])
                      ELSE c[t][f]
      BY MergeFields
    <3>2. \A old, given : Merged("replicas", old, given) = given
      BY DEF Merged, United
    <3>3. "replicas" \in DOMAIN Given(n) => Given(n)["replicas"] \in Int
      BY <1>1, GivenFields DEF ShapeInv, ItemsListed
    <3> HIDE DEF r
    <3>4. "replicas" \in DOMAIN r /\ r["replicas"] \in Int
      BY <2>1, <2>2, <3>1, <3>2, <3>3 DEF Replicated
    <3>5. record'[e] = r
      BY <1>6, <2>1, <2>2 DEF r
    <3>6. QED
      BY <3>4, <3>5 DEF Replicated
  <2>3. CASE e # t
    BY <1>6, <2>1, <2>3
  <2>4. QED
    BY <2>2, <2>3
<1>9. DOMAIN mdl' = DOMAIN found' /\ DOMAIN record' = DOMAIN found'
  BY <1>2, <1>4
<1>10. Named("service")' = Named("service")
  BY <1>2, MergedFixed
<1>11. DOMAIN evidence' \subseteq Named("service")'
  BY <1>1, <1>2, <1>10 DEF MergeInv
<1>12. next' <= Len(items') + 1
  BY <1>1, <1>2
<1>13. pass' = "apply"
  BY <1>1, <1>2
<1>14. ~(pass = "done")'
  BY <1>13
<1>15. \A e \in DOMAIN found' : MergedSoFar(e)'
  BY <1>2, <1>7
<1>16. \A e \in Named("service")' : Replicated(record[e])'
  BY <1>8, <1>10 DEF Replicated
<1>17. QED
  BY <1>9, <1>11, <1>12, <1>14, <1>15, <1>16 DEF MergeInv, LastWins

\* The last count supplied for a service is what its last giver gives.
LEMMA SuppliedLast ==
  ASSUME ItemsListed, LoadsOverlays(items), NEW s \in Named("service"), FoundKnown
  PROVE  LET G == Givers(DOMAIN items, s, "replicas") IN
         /\ Supplied(s) = {} <=> G = {}
         /\ G # {} => Supplied(s) = {Given(Max(G)).replicas}
<1> DEFINE G == Givers(DOMAIN items, s, "replicas")
           Names(i) == <<items[i].kind, items[i].id>> = s /\ "replicas" \in DOMAIN items[i].set
           last == {k \in DOMAIN items : Names(k) /\ \A j \in (k + 1)..Len(items) :
                      <<items[j].kind, items[j].id>> = s => "replicas" \notin DOMAIN items[j].set}
<1>1. s = <<"service", s[2]>>
  BY NamesArePairs
<1>2. ASSUME NEW i \in DOMAIN items PROVE i \in G <=> Names(i)
  <2>1. "replicas" \in DOMAIN Given(i) <=> "replicas" \in DOMAIN items[i].set
    BY GivenFields
  <2>2. s \notin Named("edge")
    BY <1>1 DEF Named
  <2>3. MeantFor(i, s) <=> s = <<items[i].kind, OverlayKey(items[i])>>
    BY <2>2 DEF MeantFor
  <2>4. ASSUME items[i].kind = "service" PROVE OverlayKey(items[i]) = items[i].id
    BY <2>4 DEF LoadsOverlays, BadOverlay, OverlayKey
  <2>5. \A x : <<items[i].kind, x>> = s => items[i].kind = "service"
    BY <1>1
  <2>6. MeantFor(i, s) <=> <<items[i].kind, items[i].id>> = s
    BY <2>3, <2>4, <2>5
  <2>7. QED
    BY <2>1, <2>6 DEF Givers
<1>3. Supplied(s) = {items[i].set.replicas : i \in last}
  BY DEF Supplied
<1>4. DOMAIN items = 1..Len(items) /\ Len(items) \in Nat
  BY DEF ItemsListed, Listed
<1>5. G \subseteq DOMAIN items
  BY DEF Givers
<1>6. \A k \in last : k \in G /\ \A j \in G : j <= k
  <2> SUFFICES ASSUME NEW k \in last, NEW j \in G PROVE k \in G /\ j <= k
    BY <1>2
  <2>1. k \in DOMAIN items /\ Names(k) /\ k \in G
    BY <1>2
  <2>2. j \in DOMAIN items /\ Names(j)
    BY <1>2, <1>5
  <2>3. j \notin (k + 1)..Len(items)
    BY <2>2
  <2>4. QED
    BY <1>4, <2>1, <2>2, <2>3
<1>7. ASSUME G # {} PROVE last = {Max(G)}
  <2>1. G \subseteq 0..Len(items)
    BY <1>4, <1>5
  <2> DEFINE x == Max(G)
  <2>2. x \in G /\ (\A j \in G : j <= x) /\ \A k \in G : (\A j \in G : j <= k) => x = k
    <3> HIDE DEF G
    <3>1. QED
      BY <1>4, <1>7, <2>1, GreatestPosition
  <2> HIDE DEF x
  <2>3. x \in last
    <3>1. x \in DOMAIN items /\ Names(x)
      BY <1>2, <1>5, <2>2
    <3>2. ASSUME NEW j \in (x + 1)..Len(items) PROVE ~Names(j)
      <4>1. j \in DOMAIN items /\ ~(j <= x)
        BY <1>4, <3>1
      <4>2. QED
        BY <1>2, <2>2, <4>1
    <3>3. QED
      BY <3>1, <3>2
  <2>4. \A k \in last : k = x
    BY <1>6, <2>2
  <2>5. last = {x}
    <3> HIDE DEF last
    <3>1. QED
      BY <2>3, <2>4
  <2>6. QED
    BY <2>5 DEF x
<1>8. ASSUME G # {} PROVE Supplied(s) = {Given(Max(G)).replicas}
  <2>1. Supplied(s) = {items[Max(G)].set.replicas}
    <3> HIDE DEF last
    <3>1. QED
      BY <1>3, <1>7, <1>8
  <2>2. Max(G) \in last
    <3> HIDE DEF last
    <3>1. QED
      BY <1>7, <1>8
  <2>3. "replicas" \in DOMAIN items[Max(G)].set
    BY <2>2
  <2>4. Given(Max(G))["replicas"] = items[Max(G)].set["replicas"]
    BY <2>3, GivenFields
  <2>5. QED
    BY <2>1, <2>4
<1>9. ASSUME G = {} PROVE Supplied(s) = {}
  <2>1. last = {}
    <3> HIDE DEF last, G
    <3>1. QED
      BY <1>6, <1>9
  <2>2. QED
    BY <1>3, <2>1
<1>10. QED
  BY <1>8, <1>9

\* When all items were looked at, the two forms are what all of them make.
LEMMA MergedAtEnd ==
  ASSUME ShapeInv, MergeInv, pass = "apply", next > Len(items)
  PROVE  \A e \in DOMAIN found :
           /\ Expected(e) = Normalized(record[e])
           /\ Normalized(mdl[e]) = ModelForm(Expected(e))
<1>1. DOMAIN items = 1..(next - 1)
  BY DEF ShapeInv, ItemsListed, Listed, MergeInv
<1>2. ASSUME NEW e \in DOMAIN found
      PROVE  record[e] = MergedBy(DOMAIN items, e) /\ mdl[e] = ModelForm(record[e])
  BY <1>1 DEF MergeInv, MergedSoFar
<1>3. QED
  BY <1>2, ModelOfNormalized DEF Expected

\* The evidence of a service has the replicas of the record, configured when
\* they were supplied.
LEMMA EvidenceAtEnd ==
  ASSUME ShapeInv, MergeInv, pass = "apply", next > Len(items), NEW s \in Named("service"),
         record'[s] = Expected(s)
  PROVE  Reconciled(s) = EvidenceOf(s)
<1> DEFINE G == Givers(DOMAIN items, s, "replicas")
           v == Given(Max(G)).replicas
<1>1. /\ Supplied(s) = {} <=> G = {}
      /\ G # {} => Supplied(s) = {v}
  BY SuppliedLast DEF ShapeInv, ItemsListed
<1>2. ASSUME G # {} PROVE (CHOOSE n \in Supplied(s) : TRUE) = v
  BY <1>1, <1>2
<1>3. ASSUME G # {} PROVE Expected(s).replicas = v
  <2>1. s \in DOMAIN found /\ Replicated(record[s])
    BY DEF Named, MergeInv
  <2>2. Expected(s) = Normalized(record[s])
    BY <2>1, MergedAtEnd
  <2>3. record[s].replicas # Empty
    BY <2>1, DocumentsAssumption DEF Replicated
  <2>4. Expected(s)["replicas"] = record[s]["replicas"]
    BY <2>1, <2>2, <2>3, NormalizedFields DEF Replicated
  <2>5. record[s] = MergedBy(DOMAIN items, s)
    <3>1. DOMAIN items = 1..(next - 1)
      BY DEF ShapeInv, ItemsListed, Listed, MergeInv
    <3>2. QED
      BY <2>1, <3>1 DEF MergeInv, MergedSoFar
  <2>6. record[s]["replicas"] = ValueBy(DOMAIN items, s, "replicas")
    <3> DEFINE c == MergedBy(DOMAIN items, s)
    <3>1. c = [f \in DOMAIN c |-> ValueBy(DOMAIN items, s, f)]
      BY MergedFields
    <3>2. "replicas" \in DOMAIN c
      BY <2>1, <2>5 DEF Replicated
    <3> HIDE DEF c
    <3>3. c["replicas"] = ValueBy(DOMAIN items, s, "replicas")
      BY <3>1, <3>2
    <3>4. QED
      BY <2>5, <3>3 DEF c
  <2>7. ValueBy(DOMAIN items, s, "replicas") = v
    <3>1. "replicas" \notin United /\ "replicas" # "identity"
      BY DEF United
    <3>2. QED
      BY <1>3, <3>1 DEF ValueBy
  <2>8. QED
    BY <2>4, <2>6, <2>7
<1>4. Reconciled(s) =
        [model |-> record'[s].replicas,
         configured |-> IF Supplied(s) = {} THEN None ELSE CHOOSE n \in Supplied(s) : TRUE]
  BY DEF Reconciled
<1>5. EvidenceOf(s) = [model |-> Expected(s).replicas,
                       configured |-> IF G = {} THEN None ELSE Expected(s).replicas]
  BY DEF EvidenceOf
<1> HIDE DEF G, v
<1>6. CASE G = {}
  BY <1>1, <1>4, <1>5, <1>6
<1>7. CASE G # {}
  BY <1>1, <1>2, <1>3, <1>4, <1>5, <1>7
<1>8. QED
  BY <1>6, <1>7

\* What is published is what all overlays make of what was found.
LEMMA MergeFinish ==
  ASSUME ShapeInv, MergeInv, Finish, ~Failed
  PROVE  MergeInv'
<1>1. /\ mdl' = [e \in DOMAIN mdl |-> Normalized(mdl[e])]
      /\ record' = [e \in DOMAIN record |->
           IF e[1] = "service"
           THEN With(Normalized(record[e]), [replicas |-> mdl'[e].replicas])
           ELSE Normalized(record[e])]
      /\ evidence' = [s \in DOMAIN evidence |-> Reconciled(s)]
      /\ pass' = "done" /\ UNCHANGED <<found, items>>
      /\ pass = "apply" /\ next > Len(items)
  BY DEF Finish
<1>2. DOMAIN mdl = DOMAIN found /\ DOMAIN record = DOMAIN found
      /\ DOMAIN evidence \subseteq Named("service")
  BY <1>1 DEF MergeInv, Merging
<1>3. ASSUME NEW e \in DOMAIN found
      PROVE  mdl'[e] = ModelForm(Expected(e)) /\ Expected(e) = Normalized(record[e])
  BY <1>1, <1>2, MergedAtEnd
<1>4. ASSUME NEW e \in DOMAIN found PROVE record'[e] = Expected(e)
  <2>1. CASE e[1] # "service"
    BY <1>1, <1>2, <1>3, <2>1
  <2>2. CASE e[1] = "service"
    <3> DEFINE c == Expected(e)
    <3>1. record'[e] = With(c, [replicas |-> mdl'[e].replicas])
      BY <1>1, <1>2, <1>3, <2>2
    <3>2. Replicated(record[e])
      BY <1>1, <2>2 DEF MergeInv, Named
    <3>3. "replicas" \in DOMAIN c
      BY <1>3, <3>2, NormalizedFields, DocumentsAssumption DEF Replicated
    <3>4. mdl'[e]["replicas"] = c["replicas"]
      <4>1. "replicas" \in DOMAIN ModelForm(c)
        BY <3>3, ModelFields DEF RecordOnly
      <4>2. QED
        BY <1>3, <4>1, ModelFields
    <3>5. c = [f \in DOMAIN c |-> c[f]]
      BY <1>3, NormalizedFields
    <3> HIDE DEF c
    <3>6. With(c, [replicas |-> c.replicas]) = c
      <4> DEFINE r == [replicas |-> c.replicas]
      <4>1. DOMAIN r = {"replicas"} /\ r["replicas"] = c["replicas"]
        OBVIOUS
      <4> HIDE DEF r
      <4>2. DOMAIN c \cup DOMAIN r = DOMAIN c
        BY <3>3, <4>1
      <4>3. \A f \in DOMAIN c : (IF f \in DOMAIN r THEN r[f] ELSE c[f]) = c[f]
        BY <4>1
      <4>4. With(c, r) = [f \in DOMAIN c |-> c[f]]
        BY <4>2, <4>3 DEF With
      <4>5. QED
        BY <3>5, <4>4 DEF r
    <3>7. QED
      BY <3>1, <3>4, <3>6 DEF c
  <2>3. QED
    BY <2>1, <2>2
<1>5. ASSUME NEW s \in DOMAIN evidence PROVE evidence'[s] = EvidenceOf(s)
  <2>1. s \in Named("service") /\ s \in DOMAIN found
    BY <1>2 DEF Named
  <2>2. QED
    BY <1>1, <1>4, <2>1, EvidenceAtEnd
<1>6. /\ \A e : Expected(e)' = Expected(e)
      /\ \A s : EvidenceOf(s)' = EvidenceOf(s)
      /\ Named("service")' = Named("service")
  BY <1>1, MergedFixed
<1>7. LastWins'
  <2>1. \A e \in DOMAIN found' : record'[e] = Expected(e)' /\ mdl'[e] = ModelForm(Expected(e))'
    BY <1>1, <1>3, <1>4, <1>6
  <2>2. \A s \in DOMAIN evidence' : evidence'[s] = EvidenceOf(s)'
    BY <1>1, <1>5, <1>6
  <2>3. QED
    BY <2>1, <2>2 DEF LastWins
<1>8. /\ DOMAIN mdl' = DOMAIN found' /\ DOMAIN record' = DOMAIN found'
      /\ DOMAIN evidence' \subseteq Named("service")'
  BY <1>1, <1>2, <1>6
<1>9. ~(pass = "apply")'
  BY <1>1
<1>10. QED
  BY <1>7, <1>8, <1>9 DEF MergeInv

\* Every step preserves it.
LEMMA MergeStep == ShapeInv /\ MergeInv /\ [Next]_vars => MergeInv'
<1> SUFFICES ASSUME ShapeInv, MergeInv, [Next]_vars PROVE MergeInv'
  OBVIOUS
<1>1. CASE Failed \/ Supply \/ (Normalize /\ UNCHANGED overlayVars)
  <2>1. pass' \notin {"apply", "done"}
    BY <1>1 DEF Failed, Supply, Normalize, NormalizeService, NormalizeEdge, NormalizeEndpoint,
                Refuse, Read, Continue
  <2>2. QED
    BY <2>1 DEF MergeInv, Merging, LastWins
<1>2. CASE Build /\ ~Failed
  BY <1>2, MergeBuild
<1>3. CASE Apply /\ ~Failed
  BY <1>3, MergeApply
<1>4. CASE Finish /\ ~Failed
  BY <1>4, MergeFinish
<1>5. CASE Ended \/ UNCHANGED vars
  <2>1. UNCHANGED <<pass, next, found, items, mdl, record, evidence>>
    BY <1>5 DEF Ended, vars, fileVars, overlayVars
  <2>2. /\ \A S, e : MergedBy(S, e)' = MergedBy(S, e)
        /\ \A e : Expected(e)' = Expected(e)
        /\ \A s : EvidenceOf(s)' = EvidenceOf(s)
        /\ Named("service")' = Named("service")
    BY <2>1, MergedFixed
  <2>3. LastWins'
    <3>1. ASSUME pass' = "done"
          PROVE  \A e \in DOMAIN found' :
                   record'[e] = Expected(e)' /\ mdl'[e] = ModelForm(Expected(e))'
      BY <2>1, <2>2, <3>1 DEF MergeInv, LastWins
    <3>2. ASSUME pass' = "done"
          PROVE  \A s \in DOMAIN evidence' : evidence'[s] = EvidenceOf(s)'
      BY <2>1, <2>2, <3>2 DEF MergeInv, LastWins
    <3>3. QED
      BY <3>1, <3>2 DEF LastWins
  <2>4. ASSUME pass' = "apply"
        PROVE  (\A e \in DOMAIN found : MergedSoFar(e))'
    <3>1. \A e \in DOMAIN found : MergedSoFar(e)
      BY <2>1, <2>4 DEF MergeInv
    <3>2. \A e : MergedBy(1..(next - 1), e)' = MergedBy(1..(next - 1), e)
      <4>1. \A n : n = next - 1 => \A e : MergedBy(1..n, e)' = MergedBy(1..n, e)
        BY <2>2
      <4>2. (next - 1)' = next - 1
        BY <2>1
      <4>3. QED
        BY <4>1, <4>2
    <3>3. QED
      BY <2>1, <3>1, <3>2 DEF MergedSoFar
  <2>5. pass' = "apply" => next' <= Len(items') + 1
    BY <2>1 DEF MergeInv
  <2>6. pass' = "apply" => (\A e \in Named("service") : Replicated(record[e]))'
    BY <2>1, <2>2 DEF MergeInv, Replicated
  <2>7. Merging' => /\ DOMAIN mdl' = DOMAIN found' /\ DOMAIN record' = DOMAIN found'
                    /\ DOMAIN evidence' \subseteq Named("service")'
    BY <2>1, <2>2 DEF MergeInv, Merging
  <2>8. QED
    BY <2>3, <2>4, <2>5, <2>6, <2>7 DEF MergeInv
<1>6. QED
  BY <1>1, <1>2, <1>3, <1>4, <1>5 DEF Next

\* Whatever the overlays, each field ends in the model and in the record with
\* the value of the last one that gives it, a list of names with all of them,
\* and the evidence of replicas says what was supplied: LastWins, of
\* applyOverlays, SortDeterministic and reconcileReplicaEvidence.
THEOREM LastOverlayWins == Spec => []LastWins
<1>1. Init => MergeInv
  BY DEF Init, MergeInv, Merging, LastWins
<1>2. MergeInv => LastWins
  BY DEF MergeInv
<1>3. QED
  BY <1>1, <1>2, ShapeAlways, MergeStep, PTL DEF Spec

-----------------------------------------------------------------------------
(* Reading a file: the items before next are good and are what was found.  *)

ServiceNames(d) == [i \in DOMAIN d.services |-> d.services[i].id]

EdgeNames(d) ==
  [i \in DOMAIN d.edges |->
     IF d.edges[i].id # None THEN d.edges[i].id
     ELSE EdgeIDWithIdentity(EdgeBase(d.edges[i]), d.edges[i].set)]

EndpointNames(d) ==
  [i \in DOMAIN d.endpoints |->
     IF d.endpoints[i].id # None THEN d.endpoints[i].id
     ELSE <<d.endpoints[i].entry, d.endpoints[i].route>>]

Ids(d) == {d.services[i].id : i \in DOMAIN d.services}

GoodService(item) ==
  /\ item.id # None /\ Plausible(item)
  /\ With([replicas |-> 1], item.set).replicas >= 1

GoodEdge(d, item) ==
  /\ Plausible(item) /\ {item.from, item.to} \subseteq Ids(d)
  /\ item.kind \in {"sync", "async"}

GoodEndpoint(d, item) ==
  /\ Plausible(item) /\ item.entry \in Ids(d)
  /\ item.id # None \/ item.route # None

\* The names before n differ, and are those found of the kind.
ReadUpTo(kind, names, n) ==
  /\ \A x : <<kind, x>> \in DOMAIN found <=> \E i \in 1..(n - 1) : names[i] = x
  /\ \A i, j \in 1..(n - 1) : names[i] = names[j] => i = j

Prefix(d, ns, ne, np) ==
  /\ ns \in 1..(Len(d.services) + 1) /\ ne \in 1..(Len(d.edges) + 1)
  /\ np \in 1..(Len(d.endpoints) + 1)
  /\ ReadUpTo("service", ServiceNames(d), ns)
  /\ ReadUpTo("edge", EdgeNames(d), ne)
  /\ ReadUpTo("endpoint", EndpointNames(d), np)
  /\ \A i \in 1..(ns - 1) : GoodService(d.services[i])
  /\ \A i \in 1..(ne - 1) : GoodEdge(d, d.edges[i])
  /\ \A i \in 1..(np - 1) : GoodEndpoint(d, d.endpoints[i])
  /\ Cardinality(DOMAIN found) = (ns - 1) + (ne - 1) + (np - 1)

ReadInv ==
  LET d == document
      services == Len(d.services) + 1
      edges == Len(d.edges) + 1
  IN  /\ pass = "services" => Prefix(d, next, 1, 1)
      /\ pass = "edges" => d.services # <<>> /\ Prefix(d, services, next, 1)
      /\ pass = "endpoints" => d.services # <<>> /\ Prefix(d, services, edges, next)
      /\ pass \in {"supply", "first", "apply", "done"} /\ source = "topology" =>
           d.services # <<>> /\ Prefix(d, services, edges, Len(d.endpoints) + 1)

DocListed(d) ==
  \A list \in {d.services, d.edges, d.endpoints} :
    Listed(list) /\ \A i \in DOMAIN list : Countable(list[i])

\* What is asked of a document, list by list.
LEMMA WellFormedParts ==
  ASSUME NEW d, DocListed(d)
  PROVE  WellFormed(d) <=>
           /\ DOMAIN d.services # {}
           /\ Distinct(ServiceNames(d)) /\ Distinct(EdgeNames(d)) /\ Distinct(EndpointNames(d))
           /\ \A i \in DOMAIN d.services : GoodService(d.services[i])
           /\ \A i \in DOMAIN d.edges : GoodEdge(d, d.edges[i])
           /\ \A i \in DOMAIN d.endpoints : GoodEndpoint(d, d.endpoints[i])
<1>1. Ids(d) # {} <=> DOMAIN d.services # {}
  BY DEF Ids
<1>2. None \notin Ids(d) <=> \A i \in DOMAIN d.services : d.services[i].id # None
  BY DEF Ids
<1>3. WellFormed(d) <=>
        /\ Ids(d) # {} /\ None \notin Ids(d)
        /\ Distinct(ServiceNames(d)) /\ Distinct(EdgeNames(d)) /\ Distinct(EndpointNames(d))
        /\ \A i \in DOMAIN d.services :
             /\ Plausible(d.services[i])
             /\ With([replicas |-> 1], d.services[i].set).replicas >= 1
        /\ \A i \in DOMAIN d.edges : GoodEdge(d, d.edges[i])
        /\ \A i \in DOMAIN d.endpoints : GoodEndpoint(d, d.endpoints[i])
  BY Zenon DEF WellFormed, Ids, ServiceNames, EdgeNames, EndpointNames, GoodEdge, GoodEndpoint
<1>4. QED
  BY <1>1, <1>2, <1>3 DEF GoodService

\* A bad count or range of an item is not plausible.
LEMMA Plausibility ==
  ASSUME NEW item, Countable(item)
  PROVE  Plausible(item) <=> ~BadSupport(item) /\ ~BadSeenRange(item)
  BY DEF Plausible, BadSupport, BadSeenRange, Countable

\* An entity of another kind changes nothing.
LEMMA NameKept ==
  ASSUME NEW kind, NEW names, NEW n, NEW k, NEW x, k # kind, ReadUpTo(kind, names, n),
         DOMAIN found' = DOMAIN found \cup {<<k, x>>}
  PROVE  ReadUpTo(kind, names, n)'
<1>1. \A y : <<kind, y>> # <<k, x>>
  OBVIOUS
<1>2. QED
  BY <1>1 DEF ReadUpTo

\* An entity that is new is the last of its kind.
LEMMA NameRead ==
  ASSUME NEW kind, NEW names, NEW n \in Nat \ {0}, ReadUpTo(kind, names, n),
         <<kind, names[n]>> \notin DOMAIN found,
         DOMAIN found' = DOMAIN found \cup {<<kind, names[n]>>}
  PROVE  ReadUpTo(kind, names, n + 1)'
<1>1. 1..((n + 1) - 1) = 1..(n - 1) \cup {n} /\ n \notin 1..(n - 1)
  OBVIOUS
<1>2. \A y : <<kind, y>> = <<kind, names[n]>> <=> y = names[n]
  OBVIOUS
<1>3. \A i \in 1..(n - 1) : names[i] # names[n]
  BY DEF ReadUpTo
<1>4. \A y : <<kind, y>> \in DOMAIN found' <=> \E i \in 1..((n + 1) - 1) : names[i] = y
  BY <1>1, <1>2 DEF ReadUpTo
<1>5. \A i, j \in 1..((n + 1) - 1) : names[i] = names[j] => i = j
  BY <1>1, <1>3 DEF ReadUpTo
<1>6. QED
  BY <1>4, <1>5 DEF ReadUpTo

\* A name that was found of the kind is one of two that are equal.
LEMMA NameTwice ==
  ASSUME NEW kind, NEW names, NEW n \in DOMAIN names, NEW len \in Nat, DOMAIN names = 1..len,
         ReadUpTo(kind, names, n), <<kind, names[n]>> \in DOMAIN found
  PROVE  ~Distinct(names)
<1>1. PICK i \in 1..(n - 1) : names[i] = names[n]
  BY DEF ReadUpTo
<1>2. i \in DOMAIN names /\ i # n
  OBVIOUS
<1>3. QED
  BY <1>1, <1>2 DEF Distinct

\* When all services were read, the ids are those found.
LEMMA IdsFound ==
  ASSUME NEW d, DocListed(d), ReadUpTo("service", ServiceNames(d), Len(d.services) + 1), NEW x
  PROVE  IsService(x) <=> x \in Ids(d)
<1>1. Len(d.services) \in Nat /\ DOMAIN d.services = 1..Len(d.services)
  BY DEF DocListed, Listed
<1>2. 1..((Len(d.services) + 1) - 1) = DOMAIN d.services
  BY <1>1
<1>3. IsService(x) <=> \E i \in DOMAIN d.services : ServiceNames(d)[i] = x
  BY <1>2 DEF ReadUpTo, IsService
<1>4. QED
  BY <1>3 DEF ServiceNames, Ids

\* A service is refused for a cause, or is good and new.
LEMMA ServiceJudged ==
  ASSUME NEW d, DocListed(d), NEW n \in DOMAIN d.services, Prefix(d, n, 1, 1)
  PROVE  LET item == d.services[n] IN
         /\ BadService(item) => ~WellFormed(d)
         /\ ~BadService(item) => GoodService(item) /\ <<"service", item.id>> \notin DOMAIN found
<1> DEFINE item == d.services[n]
<1>1. Countable(item) /\ Listed(d.services)
  BY DEF DocListed
<1>2. DOMAIN ServiceNames(d) = DOMAIN d.services /\ ServiceNames(d)[n] = item.id
  BY DEF ServiceNames
<1>3. ASSUME IsService(item.id) PROVE ~Distinct(ServiceNames(d))
  BY <1>1, <1>2, <1>3, NameTwice DEF Prefix, IsService, Listed
<1>4. With([replicas |-> 1], item.set).replicas \in Int
      /\ (With([replicas |-> 1], item.set).replicas >= 1 <=>
            ~("replicas" \in DOMAIN item.set /\ item.set.replicas <= 0))
  BY <1>1 DEF With, Countable
<1>5. BadService(item) <=> ~GoodService(item) \/ IsService(item.id)
  BY <1>1, <1>4, Plausibility DEF BadService, GoodService
<1>6. QED
  BY <1>3, <1>5, WellFormedParts DEF IsService

\* An edge is refused for a cause, or is good and new.
LEMMA EdgeJudged ==
  ASSUME NEW d, DocListed(d), NEW n \in DOMAIN d.edges, Prefix(d, Len(d.services) + 1, n, 1)
  PROVE  LET item == d.edges[n] IN
         /\ BadEdge(item) => ~WellFormed(d)
         /\ ~BadEdge(item) => GoodEdge(d, item) /\ EdgeKey(item) \notin DOMAIN found
         /\ EdgeKey(item) = <<"edge", EdgeNames(d)[n]>>
<1> DEFINE item == d.edges[n]
<1>1. Countable(item) /\ Listed(d.edges) /\ Listed(d.services)
  BY DEF DocListed
<1>2. DOMAIN EdgeNames(d) = DOMAIN d.edges /\ EdgeKey(item) = <<"edge", EdgeNames(d)[n]>>
  BY DEF EdgeNames, EdgeKey
<1>3. ASSUME EdgeKey(item) \in DOMAIN found PROVE ~Distinct(EdgeNames(d))
  BY <1>1, <1>2, <1>3, NameTwice DEF Prefix, Listed
<1>4. \A x : IsService(x) <=> x \in Ids(d)
  BY IdsFound DEF Prefix
<1>5. None \notin Ids(d)
  <2>1. 1..((Len(d.services) + 1) - 1) = DOMAIN d.services
    BY <1>1 DEF Listed
  <2>2. QED
    BY <2>1 DEF Prefix, GoodService, Ids
<1>6. BadEdge(item) <=> ~GoodEdge(d, item) \/ EdgeKey(item) \in DOMAIN found
  BY <1>1, <1>4, <1>5, Plausibility DEF BadEdge, GoodEdge
<1>7. QED
  BY <1>2, <1>3, <1>6, WellFormedParts

\* An endpoint is refused for a cause, or is good and new.
LEMMA EndpointJudged ==
  ASSUME NEW d, DocListed(d), NEW n \in DOMAIN d.endpoints,
         Prefix(d, Len(d.services) + 1, Len(d.edges) + 1, n)
  PROVE  LET item == d.endpoints[n] IN
         /\ BadEndpoint(item) => ~WellFormed(d)
         /\ ~BadEndpoint(item) => GoodEndpoint(d, item) /\ EndpointKey(item) \notin DOMAIN found
         /\ EndpointKey(item) = <<"endpoint", EndpointNames(d)[n]>>
<1> DEFINE item == d.endpoints[n]
<1>1. Countable(item) /\ Listed(d.endpoints) /\ Listed(d.services)
  BY DEF DocListed
<1>2. DOMAIN EndpointNames(d) = DOMAIN d.endpoints
      /\ EndpointKey(item) = <<"endpoint", EndpointNames(d)[n]>>
  BY DEF EndpointNames, EndpointKey
<1>3. ASSUME EndpointKey(item) \in DOMAIN found PROVE ~Distinct(EndpointNames(d))
  BY <1>1, <1>2, <1>3, NameTwice DEF Prefix, Listed
<1>4. \A x : IsService(x) <=> x \in Ids(d)
  BY IdsFound DEF Prefix
<1>5. None \notin Ids(d)
  <2>1. 1..((Len(d.services) + 1) - 1) = DOMAIN d.services
    BY <1>1 DEF Listed
  <2>2. QED
    BY <2>1 DEF Prefix, GoodService, Ids
<1>6. BadEndpoint(item) <=> ~GoodEndpoint(d, item) \/ EndpointKey(item) \in DOMAIN found
  BY <1>1, <1>4, <1>5, Plausibility DEF BadEndpoint, GoodEndpoint
<1>7. QED
  BY <1>2, <1>3, <1>6, WellFormedParts

\* A document whose three lists were read is well formed.
LEMMA AllRead ==
  ASSUME NEW d, DocListed(d), d.services # <<>>,
         Prefix(d, Len(d.services) + 1, Len(d.edges) + 1, Len(d.endpoints) + 1)
  PROVE  /\ WellFormed(d)
         /\ Cardinality(DOMAIN found) = Len(d.services) + Len(d.edges) + Len(d.endpoints)
<1>1. Listed(d.services) /\ Listed(d.edges) /\ Listed(d.endpoints)
  BY DEF DocListed
<1>2. /\ 1..((Len(d.services) + 1) - 1) = DOMAIN d.services
      /\ 1..((Len(d.edges) + 1) - 1) = DOMAIN d.edges
      /\ 1..((Len(d.endpoints) + 1) - 1) = DOMAIN d.endpoints
  BY <1>1 DEF Listed
<1>3. /\ DOMAIN ServiceNames(d) = DOMAIN d.services /\ DOMAIN EdgeNames(d) = DOMAIN d.edges
      /\ DOMAIN EndpointNames(d) = DOMAIN d.endpoints
  BY DEF ServiceNames, EdgeNames, EndpointNames
<1>4. Distinct(ServiceNames(d)) /\ Distinct(EdgeNames(d)) /\ Distinct(EndpointNames(d))
  BY <1>2, <1>3 DEF Prefix, ReadUpTo, Distinct
<1>5. DOMAIN d.services # {}
  <2> DEFINE len == Len(d.services)
  <2>1. len \in Nat /\ DOMAIN d.services = 1..len /\ len # 0
    BY <1>1 DEF Listed
  <2> HIDE DEF len
  <2>2. QED
    BY <2>1
<1>6. WellFormed(d)
  BY <1>2, <1>4, <1>5, WellFormedParts DEF Prefix
<1>7. Cardinality(DOMAIN found) =
        ((Len(d.services) + 1) - 1) + ((Len(d.edges) + 1) - 1) + ((Len(d.endpoints) + 1) - 1)
  BY DEF Prefix
<1>8. Cardinality(DOMAIN found) = Len(d.services) + Len(d.edges) + Len(d.endpoints)
  <2> DEFINE a == Len(d.services)
             b == Len(d.edges)
             c == Len(d.endpoints)
  <2>1. a \in Nat /\ b \in Nat /\ c \in Nat
    BY <1>1 DEF Listed
  <2>2. Cardinality(DOMAIN found) = ((a + 1) - 1) + ((b + 1) - 1) + ((c + 1) - 1)
    BY <1>7
  <2> HIDE DEF a, b, c
  <2>3. Cardinality(DOMAIN found) = a + b + c
    BY <2>1, <2>2
  <2>4. QED
    BY <2>3 DEF a, b, c
<1>9. QED
  BY <1>6, <1>8

\* One entity more is found.
LEMMA CountRead ==
  ASSUME FoundKnown, NEW key, key \notin DOMAIN found, DOMAIN found' = DOMAIN found \cup {key}
  PROVE  /\ Cardinality(DOMAIN found) \in Nat
         /\ Cardinality(DOMAIN found') = Cardinality(DOMAIN found) + 1
  BY FS_AddElement, FS_CardinalityType DEF FoundKnown

\* A good service extends what was read.
LEMMA ServiceRead ==
  ASSUME FoundKnown, NEW d, DocListed(d), NEW n \in DOMAIN d.services, Prefix(d, n, 1, 1),
         ~BadService(d.services[n]),
         DOMAIN found' = DOMAIN found \cup {<<"service", d.services[n].id>>}
  PROVE  Prefix(d, n + 1, 1, 1)'
<1> DEFINE item == d.services[n]
<1>1. GoodService(item) /\ <<"service", item.id>> \notin DOMAIN found
  BY ServiceJudged
<1>2. n \in Nat \ {0} /\ n + 1 \in 1..(Len(d.services) + 1) /\ 1 \in 1..(Len(d.edges) + 1)
      /\ 1 \in 1..(Len(d.endpoints) + 1) /\ 1..((n + 1) - 1) = 1..(n - 1) \cup {n}
  BY DEF DocListed, Listed
<1>3. ServiceNames(d)[n] = item.id
  BY DEF ServiceNames
<1>4. ReadUpTo("service", ServiceNames(d), n + 1)'
  <2>1. ReadUpTo("service", ServiceNames(d), n)
    BY DEF Prefix
  <2>2. QED
    BY <1>1, <1>2, <1>3, <2>1, NameRead
<1>5. ReadUpTo("edge", EdgeNames(d), 1)' /\ ReadUpTo("endpoint", EndpointNames(d), 1)'
  <2>1. ReadUpTo("edge", EdgeNames(d), 1) /\ ReadUpTo("endpoint", EndpointNames(d), 1)
    BY DEF Prefix
  <2>2. ReadUpTo("edge", EdgeNames(d), 1)'
    BY <2>1, NameKept
  <2>3. ReadUpTo("endpoint", EndpointNames(d), 1)'
    BY <2>1, NameKept
  <2>4. QED
    BY <2>2, <2>3
<1>6. \A i \in 1..((n + 1) - 1) : GoodService(d.services[i])
  BY <1>1, <1>2 DEF Prefix
<1>7. Cardinality(DOMAIN found') = ((n + 1) - 1) + (1 - 1) + (1 - 1)
  <2>1. Cardinality(DOMAIN found) = (n - 1) + (1 - 1) + (1 - 1)
    BY DEF Prefix
  <2>2. Cardinality(DOMAIN found') = Cardinality(DOMAIN found) + 1
    BY <1>1, CountRead
  <2>3. QED
    BY <1>2, <2>1, <2>2
<1>8. QED
  BY <1>2, <1>4, <1>5, <1>6, <1>7 DEF Prefix

\* A good edge extends what was read.
LEMMA EdgeRead ==
  ASSUME FoundKnown, NEW d, DocListed(d), NEW n \in DOMAIN d.edges,
         Prefix(d, Len(d.services) + 1, n, 1), ~BadEdge(d.edges[n]),
         DOMAIN found' = DOMAIN found \cup {EdgeKey(d.edges[n])}
  PROVE  Prefix(d, Len(d.services) + 1, n + 1, 1)'
<1> DEFINE item == d.edges[n]
           s == Len(d.services) + 1
<1>1. GoodEdge(d, item) /\ EdgeKey(item) \notin DOMAIN found
      /\ EdgeKey(item) = <<"edge", EdgeNames(d)[n]>>
  BY EdgeJudged
<1>2. n \in Nat \ {0} /\ n + 1 \in 1..(Len(d.edges) + 1) /\ s \in Nat \ {0}
      /\ 1..((n + 1) - 1) = 1..(n - 1) \cup {n}
  <2>1. n \in 1..Len(d.edges) /\ Len(d.edges) \in Nat /\ Len(d.services) \in Nat
    BY DEF DocListed, Listed
  <2>2. n \in Nat \ {0} /\ n + 1 \in 1..(Len(d.edges) + 1)
    BY <2>1
  <2>3. 1..((n + 1) - 1) = 1..(n - 1) \cup {n}
    BY <2>2
  <2>4. QED
    BY <2>1, <2>2, <2>3
<1> HIDE DEF s
<1>3. Prefix(d, s, n, 1) /\ DOMAIN found' = DOMAIN found \cup {<<"edge", EdgeNames(d)[n]>>}
  BY <1>1 DEF s
<1>4. ReadUpTo("edge", EdgeNames(d), n + 1)'
  <2>1. ReadUpTo("edge", EdgeNames(d), n)
    BY <1>3 DEF Prefix
  <2>2. QED
    BY <1>1, <1>2, <1>3, <2>1, NameRead
<1>5. ReadUpTo("service", ServiceNames(d), s)' /\ ReadUpTo("endpoint", EndpointNames(d), 1)'
  <2>1. ReadUpTo("service", ServiceNames(d), s) /\ ReadUpTo("endpoint", EndpointNames(d), 1)
    BY <1>3 DEF Prefix
  <2>2. ReadUpTo("service", ServiceNames(d), s)'
    BY <1>3, <2>1, NameKept
  <2>3. ReadUpTo("endpoint", EndpointNames(d), 1)'
    BY <1>3, <2>1, NameKept
  <2>4. QED
    BY <2>2, <2>3
<1>6. \A i \in 1..((n + 1) - 1) : GoodEdge(d, d.edges[i])
  BY <1>1, <1>2, <1>3 DEF Prefix
<1>7. Cardinality(DOMAIN found') = (s - 1) + ((n + 1) - 1) + (1 - 1)
  <2>1. Cardinality(DOMAIN found) = (s - 1) + (n - 1) + (1 - 1)
    BY <1>3 DEF Prefix
  <2>2. Cardinality(DOMAIN found') = Cardinality(DOMAIN found) + 1
    BY <1>1, CountRead
  <2>3. QED
    BY <1>2, <2>1, <2>2
<1>8. Prefix(d, s, n + 1, 1)'
  BY <1>2, <1>3, <1>4, <1>5, <1>6, <1>7 DEF Prefix
<1>9. QED
  BY <1>8 DEF s

\* A good endpoint extends what was read.
LEMMA EndpointRead ==
  ASSUME FoundKnown, NEW d, DocListed(d), NEW n \in DOMAIN d.endpoints,
         Prefix(d, Len(d.services) + 1, Len(d.edges) + 1, n), ~BadEndpoint(d.endpoints[n]),
         DOMAIN found' = DOMAIN found \cup {EndpointKey(d.endpoints[n])}
  PROVE  Prefix(d, Len(d.services) + 1, Len(d.edges) + 1, n + 1)'
<1> DEFINE item == d.endpoints[n]
           s == Len(d.services) + 1
           t == Len(d.edges) + 1
<1>1. GoodEndpoint(d, item) /\ EndpointKey(item) \notin DOMAIN found
      /\ EndpointKey(item) = <<"endpoint", EndpointNames(d)[n]>>
  BY EndpointJudged
<1>2. n \in Nat \ {0} /\ n + 1 \in 1..(Len(d.endpoints) + 1) /\ s \in Nat \ {0} /\ t \in Nat \ {0}
      /\ 1..((n + 1) - 1) = 1..(n - 1) \cup {n}
  <2>1. n \in 1..Len(d.endpoints) /\ Len(d.endpoints) \in Nat
    BY DEF DocListed, Listed
  <2>2. Len(d.services) \in Nat /\ Len(d.edges) \in Nat
    BY DEF DocListed, Listed
  <2>3. n \in Nat \ {0} /\ n + 1 \in 1..(Len(d.endpoints) + 1)
    BY <2>1
  <2>4. 1..((n + 1) - 1) = 1..(n - 1) \cup {n}
    BY <2>3
  <2>5. QED
    BY <2>2, <2>3, <2>4
<1> HIDE DEF s, t
<1>3. Prefix(d, s, t, n) /\ DOMAIN found' = DOMAIN found \cup {<<"endpoint", EndpointNames(d)[n]>>}
  BY <1>1 DEF s, t
<1>4. ReadUpTo("endpoint", EndpointNames(d), n + 1)'
  <2>1. ReadUpTo("endpoint", EndpointNames(d), n)
    BY <1>3 DEF Prefix
  <2>2. QED
    BY <1>1, <1>2, <1>3, <2>1, NameRead
<1>5. ReadUpTo("service", ServiceNames(d), s)' /\ ReadUpTo("edge", EdgeNames(d), t)'
  <2>1. ReadUpTo("service", ServiceNames(d), s) /\ ReadUpTo("edge", EdgeNames(d), t)
    BY <1>3 DEF Prefix
  <2>2. ReadUpTo("service", ServiceNames(d), s)'
    BY <1>3, <2>1, NameKept
  <2>3. ReadUpTo("edge", EdgeNames(d), t)'
    BY <1>3, <2>1, NameKept
  <2>4. QED
    BY <2>2, <2>3
<1>6. \A i \in 1..((n + 1) - 1) : GoodEndpoint(d, d.endpoints[i])
  BY <1>1, <1>2, <1>3 DEF Prefix
<1>7. Cardinality(DOMAIN found') = (s - 1) + (t - 1) + ((n + 1) - 1)
  <2>1. Cardinality(DOMAIN found) = (s - 1) + (t - 1) + (n - 1)
    BY <1>3 DEF Prefix
  <2>2. Cardinality(DOMAIN found') = Cardinality(DOMAIN found) + 1
    BY <1>1, CountRead
  <2>3. QED
    BY <1>2, <2>1, <2>2
<1>8. Prefix(d, s, t, n + 1)'
  BY <1>2, <1>3, <1>4, <1>5, <1>6, <1>7 DEF Prefix
<1>9. QED
  BY <1>8 DEF s, t

\* What was read depends on which entities were found.
LEMMA PrefixFixed ==
  ASSUME DOMAIN found' = DOMAIN found, NEW d, NEW ns, NEW ne, NEW np, Prefix(d, ns, ne, np)
  PROVE  Prefix(d, ns, ne, np)'
  BY DEF Prefix, ReadUpTo

-----------------------------------------------------------------------------
(* Every refusal has its cause.                                            *)

Cause ==
  \/ source = None
  \/ source = "topology" /\ ~WellFormed(document)
  \/ WasRead /\ ~Publishable

CauseInv ==
  /\ ReadInv
  /\ pass \in {"apply", "done"} => ValidateSemantic([e \in DOMAIN found |-> found[e].set])
  /\ pass = "apply" =>
       \A i \in 1..(next - 1) :
         ~Reserved(items[i].precedence) /\ \E e \in DOMAIN found : MeantFor(i, e)
  /\ pass = "done" => Publishable
  /\ pass = "failed" => Cause

\* Validity depends on the entities alone.
LEMMA ValidityFixed ==
  ASSUME DOMAIN found' = DOMAIN found, NEW m
  PROVE  ValidateSemantic(m)' <=> ValidateSemantic(m)
  BY DEF ValidateSemantic, Named, TargetsKnown, IsService, ValuesValid, NotNegative,
         LatencyMonotonic

\* What may be published depends on the items and on what was found alone.
LEMMA PublishableFixed ==
  ASSUME UNCHANGED <<found, items>>
  PROVE  /\ Publishable' <=> Publishable
         /\ \A i, e : MeantFor(i, e)' <=> MeantFor(i, e)
         /\ \A p : Reserved(p)' <=> Reserved(p)
         /\ ValidateSemantic([e \in DOMAIN found |-> found[e].set])' <=>
              ValidateSemantic([e \in DOMAIN found |-> found[e].set])
<1>1. \A i, e : MeantFor(i, e)' <=> MeantFor(i, e)
  BY DEF MeantFor, Named
<1>2. \A p : Reserved(p)' <=> Reserved(p)
  BY DEF Reserved
<1>3. Applicable' <=> Applicable
  BY <1>1, <1>2 DEF Applicable
<1>4. \A m : ValidateSemantic(m)' <=> ValidateSemantic(m)
  BY ValidityFixed
<1>5. ValidateSemantic([e \in DOMAIN found |-> found[e].set])' <=>
        ValidateSemantic([e \in DOMAIN found |-> found[e].set])
  BY <1>4
<1>6. ValidateSemantic([e \in DOMAIN found |-> Expected(e)])' <=>
        ValidateSemantic([e \in DOMAIN found |-> Expected(e)])
  <2>1. [e \in DOMAIN found |-> Expected(e)]' = [e \in DOMAIN found |-> Expected(e)]
    BY MergedFixed
  <2>2. QED
    BY <1>4, <2>1
<1>7. QED
  BY <1>1, <1>2, <1>3, <1>5, <1>6 DEF Publishable

\* A refusal leaves its cause as it is.
LEMMA RefusalKeeps ==
  ASSUME Cause, pass' = "failed", UNCHANGED <<document, found, items, source>>
  PROVE  CauseInv'
<1>1. WasRead' <=> WasRead
  BY DEF WasRead
<1>2. WellFormed(document)' <=> WellFormed(document)
  <2>1. PICK d : d = document
    OBVIOUS
  <2>2. WellFormed(d)' <=> WellFormed(d)
    BY DEF WellFormed
  <2>3. QED
    BY <2>1, <2>2
<1>3. Cause'
  BY <1>1, <1>2, PublishableFixed DEF Cause
<1>4. QED
  BY <1>3 DEF CauseInv, ReadInv

\* The model form keeps what validation looks at.
LEMMA ModelValidates ==
  ASSUME NEW m, NEW c, DOMAIN m = DOMAIN c, \A e \in DOMAIN c : m[e] = ModelForm(c[e])
  PROVE  ValidateSemantic(m) <=> ValidateSemantic(c)
<1>1. ASSUME NEW x
      PROVE  /\ ValuesValid(ModelForm(x)) <=> ValuesValid(x)
             /\ NotNegative(ModelForm(x)) <=> NotNegative(x)
             /\ LatencyMonotonic(ModelForm(x)) <=> LatencyMonotonic(x)
             /\ TargetsKnown(ModelForm(x)) <=> TargetsKnown(x)
  <2> DEFINE y == ModelForm(x)
  <2>1. \A f : f \notin RecordOnly =>
          (f \in DOMAIN y <=> f \in DOMAIN x) /\ (f \in DOMAIN y => y[f] = x[f])
    BY ModelFields
  <2>2. \A f \in Checked \cup {"weight", "p50", "p99", "mandatory_targets"} : f \notin RecordOnly
    BY DEF RecordOnly, Checked, ResilienceFields, SemanticsFields
  <2> HIDE DEF y
  <2>3. \A f \in Checked \cup {"weight", "p50", "p99", "mandatory_targets"} :
          (f \in DOMAIN y <=> f \in DOMAIN x) /\ (f \in DOMAIN y => y[f] = x[f])
    BY <2>1, <2>2
  <2>4. ValuesValid(y) <=> ValuesValid(x)
    BY <2>3 DEF ValuesValid
  <2>5. NotNegative(y) <=> NotNegative(x)
    BY <2>3 DEF NotNegative
  <2>6. LatencyMonotonic(y) <=> LatencyMonotonic(x)
    BY <2>3 DEF LatencyMonotonic
  <2>7. TargetsKnown(y) <=> TargetsKnown(x)
    BY <2>3 DEF TargetsKnown
  <2>8. QED
    BY <2>4, <2>5, <2>6, <2>7 DEF y
<1>2. QED
  BY <1>1 DEF ValidateSemantic

\* A step of a loop reads a good item, goes on to the next list, or refuses.
LEMMA CauseNormalize ==
  ASSUME ShapeInv, CauseInv, Normalize, UNCHANGED overlayVars
  PROVE  CauseInv'
<1>1. PICK d, n : d = document /\ n = next
  OBVIOUS
<1>2. UNCHANGED <<document, items, source>> /\ source = "topology"
  BY DEF Normalize, NormalizeService, NormalizeEdge, NormalizeEndpoint, Refuse, Read, Continue,
         overlayVars, ShapeInv, Loading
<1>3. DocListed(d) /\ FoundKnown /\ n \in Nat \ {0}
  BY <1>1, <1>2 DEF ShapeInv, DocumentListed, DocListed
<1>4. Listed(d.services) /\ Listed(d.edges) /\ Listed(d.endpoints)
  BY <1>3 DEF DocListed
<1>5. ASSUME Refuse, ~WellFormed(d) PROVE CauseInv'
  <2>1. Cause
    BY <1>1, <1>2, <1>5 DEF Cause
  <2>2. QED
    BY <1>2, <1>5, <2>1, RefusalKeeps DEF Refuse
<1>6. ASSUME ReadInv', pass' \in {"services", "edges", "endpoints", "supply"} PROVE CauseInv'
  BY <1>6 DEF CauseInv
<1>7. ASSUME NEW key, NEW entity, Read(key, entity)
      PROVE  DOMAIN found' = DOMAIN found \cup {key} /\ next' = n + 1 /\ UNCHANGED pass
  BY <1>1, <1>7 DEF Read, With
<1>8. CASE NormalizeService
  <2>1. Prefix(d, n, 1, 1) /\ pass = "services"
    BY <1>1, <1>8 DEF NormalizeService, CauseInv, ReadInv
  <2>2. CASE d.services = <<>>
    <3>1. DOMAIN d.services = {}
      BY <2>2
    <3>2. ~WellFormed(d)
      BY <1>3, <3>1, WellFormedParts
    <3>3. QED
      BY <1>1, <1>5, <1>8, <2>2, <3>2 DEF NormalizeService
  <2>3. CASE d.services # <<>> /\ n > Len(d.services)
    <3>1. Continue("edges")
      BY <1>1, <1>8, <2>3 DEF NormalizeService
    <3>2. n = Len(d.services) + 1
      BY <1>3, <1>4, <2>1, <2>3 DEF Prefix, Listed
    <3>3. Prefix(d, Len(d.services) + 1, 1, 1)'
      BY <2>1, <3>1, <3>2, PrefixFixed DEF Continue
    <3>4. ReadInv' /\ pass' = "edges"
      BY <1>1, <1>2, <2>3, <3>1, <3>3 DEF ReadInv, Continue
    <3>5. QED
      BY <1>6, <3>4
  <2>4. CASE d.services # <<>> /\ ~(n > Len(d.services))
    <3> DEFINE item == d.services[n]
    <3>1. n \in DOMAIN d.services
      BY <1>3, <1>4, <2>4 DEF Listed
    <3>2. IF BadService(item) THEN Refuse ELSE Read(<<"service", item.id>>, Service(item))
      BY <1>1, <1>8, <2>4 DEF NormalizeService
    <3>3. CASE BadService(item)
      BY <1>3, <1>5, <2>1, <3>1, <3>2, <3>3, ServiceJudged
    <3>4. CASE ~BadService(item)
      <4>1. DOMAIN found' = DOMAIN found \cup {<<"service", item.id>>} /\ next' = n + 1
            /\ UNCHANGED pass
        BY <1>7, <3>2, <3>4
      <4>2. Prefix(d, n + 1, 1, 1)'
        BY <1>3, <2>1, <3>1, <3>4, <4>1, ServiceRead
      <4>3. ReadInv' /\ pass' = "services"
        BY <1>1, <1>2, <2>1, <4>1, <4>2 DEF ReadInv
      <4>4. QED
        BY <1>6, <4>3
    <3>5. QED
      BY <3>3, <3>4
  <2>5. QED
    BY <2>2, <2>3, <2>4
<1>9. CASE NormalizeEdge
  <2>1. Prefix(d, Len(d.services) + 1, n, 1) /\ pass = "edges" /\ d.services # <<>>
    BY <1>1, <1>9 DEF NormalizeEdge, CauseInv, ReadInv
  <2>2. CASE n > Len(d.edges)
    <3>1. Continue("endpoints")
      BY <1>1, <1>9, <2>2 DEF NormalizeEdge
    <3>2. n = Len(d.edges) + 1
      BY <1>3, <1>4, <2>1, <2>2 DEF Prefix, Listed
    <3>3. Prefix(d, Len(d.services) + 1, Len(d.edges) + 1, 1)'
      BY <2>1, <3>1, <3>2, PrefixFixed DEF Continue
    <3>4. ReadInv' /\ pass' = "endpoints"
      BY <1>1, <1>2, <2>1, <3>1, <3>3 DEF ReadInv, Continue
    <3>5. QED
      BY <1>6, <3>4
  <2>3. CASE ~(n > Len(d.edges))
    <3> DEFINE item == d.edges[n]
    <3>1. n \in DOMAIN d.edges
      BY <1>3, <1>4, <2>3 DEF Listed
    <3>2. IF BadEdge(item) THEN Refuse ELSE Read(EdgeKey(item), Edge(item))
      BY <1>1, <1>9, <2>3 DEF NormalizeEdge
    <3>3. CASE BadEdge(item)
      BY <1>3, <1>5, <2>1, <3>1, <3>2, <3>3, EdgeJudged
    <3>4. CASE ~BadEdge(item)
      <4>1. DOMAIN found' = DOMAIN found \cup {EdgeKey(item)} /\ next' = n + 1 /\ UNCHANGED pass
        BY <1>7, <3>2, <3>4
      <4>2. Prefix(d, Len(d.services) + 1, n + 1, 1)'
        BY <1>3, <2>1, <3>1, <3>4, <4>1, EdgeRead
      <4>3. ReadInv' /\ pass' = "edges"
        BY <1>1, <1>2, <2>1, <4>1, <4>2 DEF ReadInv
      <4>4. QED
        BY <1>6, <4>3
    <3>5. QED
      BY <3>3, <3>4
  <2>4. QED
    BY <2>2, <2>3
<1>10. CASE NormalizeEndpoint
  <2>1. /\ Prefix(d, Len(d.services) + 1, Len(d.edges) + 1, n)
        /\ pass = "endpoints" /\ d.services # <<>>
    BY <1>1, <1>10 DEF NormalizeEndpoint, CauseInv, ReadInv
  <2>2. CASE n > Len(d.endpoints)
    <3>1. Continue("supply")
      BY <1>1, <1>10, <2>2 DEF NormalizeEndpoint
    <3>2. n = Len(d.endpoints) + 1
      BY <1>3, <1>4, <2>1, <2>2 DEF Prefix, Listed
    <3>3. Prefix(d, Len(d.services) + 1, Len(d.edges) + 1, Len(d.endpoints) + 1)'
      BY <2>1, <3>1, <3>2, PrefixFixed DEF Continue
    <3>4. ReadInv' /\ pass' = "supply"
      BY <1>1, <1>2, <2>1, <3>1, <3>3 DEF ReadInv, Continue
    <3>5. QED
      BY <1>6, <3>4
  <2>3. CASE ~(n > Len(d.endpoints))
    <3> DEFINE item == d.endpoints[n]
    <3>1. n \in DOMAIN d.endpoints
      BY <1>3, <1>4, <2>3 DEF Listed
    <3>2. IF BadEndpoint(item) THEN Refuse ELSE Read(EndpointKey(item), Endpoint(item))
      BY <1>1, <1>10, <2>3 DEF NormalizeEndpoint
    <3>3. CASE BadEndpoint(item)
      BY <1>3, <1>5, <2>1, <3>1, <3>2, <3>3, EndpointJudged
    <3>4. CASE ~BadEndpoint(item)
      <4>1. /\ DOMAIN found' = DOMAIN found \cup {EndpointKey(item)} /\ next' = n + 1
            /\ UNCHANGED pass
        BY <1>7, <3>2, <3>4
      <4>2. Prefix(d, Len(d.services) + 1, Len(d.edges) + 1, n + 1)'
        BY <1>3, <2>1, <3>1, <3>4, <4>1, EndpointRead
      <4>3. ReadInv' /\ pass' = "endpoints"
        BY <1>1, <1>2, <2>1, <4>1, <4>2 DEF ReadInv
      <4>4. QED
        BY <1>6, <4>3
    <3>5. QED
      BY <3>3, <3>4
  <2>4. QED
    BY <2>2, <2>3
<1>11. QED
  BY <1>8, <1>9, <1>10 DEF Normalize

\* All of a file was read.
Whole ==
  source = "topology" =>
    /\ document.services # <<>>
    /\ Prefix(document, Len(document.services) + 1, Len(document.edges) + 1,
              Len(document.endpoints) + 1)

\* Once the loops are done, the file is well formed.
LEMMA WholeRead ==
  ASSUME ShapeInv, CauseInv, pass \in {"supply", "first", "apply", "done"}
  PROVE  Whole /\ WasRead /\ (source = "topology" => WellFormed(document))
<1>1. Whole
  BY DEF CauseInv, ReadInv, Whole
<1>2. ASSUME source = "topology"
      PROVE  /\ WellFormed(document)
             /\ Cardinality(DOMAIN found) =
                  Len(document.services) + Len(document.edges) + Len(document.endpoints)
  <2>1. DocListed(document)
    BY <1>2 DEF ShapeInv, DocumentListed, DocListed
  <2>2. QED
    BY <1>1, <1>2, <2>1, AllRead DEF Whole
<1>3. QED
  BY <1>1, <1>2 DEF WasRead

\* It stays so while the overlays are merged.
LEMMA WholeKept ==
  ASSUME Whole, DOMAIN found' = DOMAIN found, UNCHANGED <<document, source>>,
         pass' \notin {"services", "edges", "endpoints"}
  PROVE  ReadInv'
<1>1. PICK d : d = document
  OBVIOUS
<1>2. ASSUME source = "topology"
      PROVE  /\ d.services # <<>>
             /\ Prefix(d, Len(d.services) + 1, Len(d.edges) + 1, Len(d.endpoints) + 1)'
  BY <1>1, <1>2, PrefixFixed DEF Whole
<1>3. QED
  BY <1>1, <1>2 DEF ReadInv

\* A result that is not to be published is refused for a cause.
LEMMA RefusedUnpublishable ==
  ASSUME ShapeInv, CauseInv, pass \in {"supply", "first", "apply"}, Failed, ~Publishable
  PROVE  CauseInv'
<1>1. Cause
  BY WholeRead DEF Cause
<1>2. QED
  BY <1>1, RefusalKeeps DEF Failed, overlayVars

\* An override for a service that is not there means no entity.
LEMMA CauseSupply ==
  ASSUME ShapeInv, CauseInv, Supply
  PROVE  CauseInv'
<1>1. CASE SuppliesUnknown
  <2>1. PICK i \in DOMAIN items : items[i].kind = "service" /\ ~IsService(items[i].id)
    BY <1>1 DEF SuppliesUnknown
  <2>2. OverlayKey(items[i]) = items[i].id
    <3>1. LoadsOverlays(items)
      BY DEF Supply, ShapeInv, ItemsListed
    <3>2. QED
      BY <2>1, <3>1 DEF LoadsOverlays, BadOverlay, OverlayKey
  <2>3. ASSUME NEW e \in DOMAIN found PROVE ~MeantFor(i, e)
    BY <2>1, <2>2 DEF MeantFor, IsService
  <2>4. ~Publishable
    BY <2>3 DEF Publishable, Applicable
  <2>5. QED
    BY <1>1, <2>4, RefusedUnpublishable DEF Supply
<1>2. CASE ~SuppliesUnknown
  <2>1. /\ DOMAIN found' = DOMAIN found /\ UNCHANGED <<document, source>>
        /\ pass = "supply" /\ pass' = "first"
    BY <1>2 DEF Supply, overlayVars
  <2>2. ReadInv'
    BY <2>1, WholeRead, WholeKept
  <2>3. QED
    BY <2>1, <2>2 DEF CauseInv
<1>3. QED
  BY <1>1, <1>2

\* What was found is valid, or is not published.
LEMMA CauseBuild ==
  ASSUME ShapeInv, CauseInv, Build
  PROVE  CauseInv'
<1> DEFINE base == [e \in DOMAIN found |-> ModelForm(found[e].set)]
           given == [e \in DOMAIN found |-> found[e].set]
<1>1. ValidateSemantic(base) <=> ValidateSemantic(given)
  BY ModelValidates
<1>2. CASE ~ValidateSemantic(base)
  <2>1. ~Publishable
    BY <1>1, <1>2 DEF Publishable
  <2>2. Failed /\ pass = "first"
    BY <1>2 DEF Build
  <2>3. QED
    BY <2>1, <2>2, RefusedUnpublishable
<1>3. CASE ValidateSemantic(base)
  <2>1. /\ UNCHANGED <<document, found, source, items>>
        /\ pass = "first" /\ pass' = "apply" /\ next' = 1
    BY <1>3 DEF Build
  <2>2. ReadInv'
    BY <2>1, WholeRead, WholeKept
  <2>3. ValidateSemantic([e \in DOMAIN found |-> found[e].set])'
    BY <1>1, <1>3, <2>1, PublishableFixed
  <2>4. 1..(next' - 1) = {}
    BY <2>1
  <2>5. QED
    BY <2>1, <2>2, <2>3, <2>4 DEF CauseInv
<1>4. QED
  BY <1>2, <1>3

\* An item may be applied, or the overlays may not.
LEMMA CauseApply ==
  ASSUME ShapeInv, CauseInv, Apply
  PROVE  CauseInv'
<1>1. PICK n : n = next
  OBVIOUS
<1>2. n \in DOMAIN items /\ n \in Nat \ {0} /\ pass = "apply"
  BY <1>1 DEF Apply, ShapeInv, ItemsListed, Listed
<1>3. Resolve(items[n]) = {e \in DOMAIN found : MeantFor(n, e)}
  BY <1>2, ResolveMeant DEF ShapeInv
<1>4. CASE Reserved(items[n].precedence) \/ Resolve(items[n]) = {}
  <2>1. ~Publishable
    BY <1>2, <1>3, <1>4 DEF Publishable, Applicable
  <2>2. QED
    BY <1>1, <1>2, <1>4, <2>1, RefusedUnpublishable DEF Apply
<1>5. CASE ~(Reserved(items[n].precedence) \/ Resolve(items[n]) = {})
  <2>1. UNCHANGED <<pass, document, found, source, items>> /\ next' = n + 1
    BY <1>1, <1>5 DEF Apply
  <2>2. ReadInv'
    BY <1>2, <2>1, WholeRead, WholeKept
  <2>3. ValidateSemantic([e \in DOMAIN found |-> found[e].set])'
    BY <1>2, <2>1, PublishableFixed DEF CauseInv
  <2>4. ASSUME NEW i \in 1..n
        PROVE  ~Reserved(items[i].precedence) /\ \E e \in DOMAIN found : MeantFor(i, e)
    <3>1. CASE i = n
      BY <1>3, <1>5, <3>1
    <3>2. CASE i # n
      BY <1>1, <1>2, <3>2 DEF CauseInv
    <3>3. QED
      BY <3>1, <3>2
  <2>5. next' - 1 = n
    BY <1>2, <2>1
  <2>6. (\A i \in 1..(next - 1) :
           ~Reserved(items[i].precedence) /\ \E e \in DOMAIN found : MeantFor(i, e))'
    BY <2>1, <2>4, <2>5, PublishableFixed
  <2>7. QED
    BY <1>2, <2>1, <2>2, <2>3, <2>6 DEF CauseInv
<1>6. QED
  BY <1>4, <1>5

\* When every item was applied, the result is valid or is not published.
LEMMA CauseFinish ==
  ASSUME ShapeInv, MergeInv, CauseInv, Finish
  PROVE  CauseInv'
<1> DEFINE sorted == [e \in DOMAIN mdl |-> Normalized(mdl[e])]
           final == [e \in DOMAIN found |-> Expected(e)]
<1>1. pass = "apply" /\ next > Len(items) /\ DOMAIN mdl = DOMAIN found
  BY DEF Finish, MergeInv, Merging
<1>2. ValidateSemantic(sorted) <=> ValidateSemantic(final)
  <2>1. \A e \in DOMAIN final : sorted[e] = ModelForm(final[e])
    BY <1>1, MergedAtEnd
  <2>2. DOMAIN sorted = DOMAIN final
    BY <1>1
  <2> HIDE DEF sorted, final
  <2>3. QED
    BY <2>1, <2>2, ModelValidates
<1>3. CASE ~Holds(sorted)
  <2>1. ~Publishable
    BY <1>2, <1>3 DEF Publishable, Holds
  <2>2. Failed
    BY <1>3 DEF Finish
  <2>3. QED
    BY <1>1, <2>1, <2>2, RefusedUnpublishable
<1>4. CASE Holds(sorted)
  <2>1. UNCHANGED <<document, found, source, items>> /\ pass' = "done"
    BY <1>4 DEF Finish
  <2>2. DOMAIN items = 1..(next - 1)
    BY <1>1 DEF ShapeInv, ItemsListed, Listed, MergeInv
  <2>3. Publishable
    BY <1>1, <1>2, <1>4, <2>2 DEF Publishable, Applicable, Holds, CauseInv
  <2>4. ValidateSemantic([e \in DOMAIN found |-> found[e].set])'
    BY <1>1, <2>1, PublishableFixed DEF CauseInv
  <2>5. ReadInv'
    BY <1>1, <2>1, WholeRead, WholeKept
  <2>6. QED
    BY <2>1, <2>3, <2>4, <2>5, PublishableFixed DEF CauseInv
<1>5. QED
  BY <1>3, <1>4

\* Every step preserves it.
LEMMA CauseStep == ShapeInv /\ MergeInv /\ CauseInv /\ [Next]_vars => CauseInv'
<1> SUFFICES ASSUME ShapeInv, MergeInv, CauseInv, [Next]_vars PROVE CauseInv'
  OBVIOUS
<1>1. CASE Ended \/ UNCHANGED vars
  <2>1. UNCHANGED <<pass, next, document, found, items, source>>
    BY <1>1 DEF Ended, vars, fileVars, overlayVars
  <2>2. CASE pass = "failed"
    BY <2>1, <2>2, RefusalKeeps DEF CauseInv
  <2>3. CASE pass # "failed"
    <3>1. PICK d, n : d = document /\ n = next
      OBVIOUS
    <3>2. \A ns, ne, np : Prefix(d, ns, ne, np)' <=> Prefix(d, ns, ne, np)
      BY <2>1 DEF Prefix, ReadUpTo
    <3>3. ReadInv'
      BY <2>1, <3>1, <3>2 DEF CauseInv, ReadInv
    <3>4. QED
      BY <2>1, <2>3, <3>3, PublishableFixed DEF CauseInv
  <2>4. QED
    BY <2>2, <2>3
<1>2. QED
  BY <1>1, CauseNormalize, CauseSupply, CauseBuild, CauseApply, CauseFinish DEF Next

\* Nothing is refused but a document that is not well formed, an overlay that
\* means no entity or writes what is reserved, and a result that is not valid;
\* and each of these is: RefusedForCause, of Document.Normalize,
\* applyReplicaOverlays, applyOverlays and ValidateSemantic.
THEOREM EveryRefusalHasCause == Spec => []RefusedForCause
<1>1. Init => CauseInv
  <2> SUFFICES ASSUME Init PROVE CauseInv
    OBVIOUS
  <2>1. ShapeInv
    BY ShapeInit
  <2>2. CASE pass = "failed"
    BY <2>2 DEF Init, CauseInv, ReadInv, Cause
  <2>3. CASE pass = "first"
    BY <2>3 DEF Init, CauseInv, ReadInv
  <2>4. CASE pass = "services"
    <3>1. source = "topology" /\ found = <<>> /\ next = 1
      BY <2>4 DEF Init
    <3>2. DocListed(document)
      BY <2>1, <3>1 DEF ShapeInv, DocumentListed, DocListed
    <3>3. DOMAIN found = {} /\ Cardinality(DOMAIN found) = 0
      BY <3>1, FS_EmptySet
    <3>4. \A kind, names : ReadUpTo(kind, names, 1)
      BY <3>3 DEF ReadUpTo
    <3>5. Prefix(document, 1, 1, 1)
      BY <3>2, <3>3, <3>4 DEF Prefix, DocListed, Listed
    <3>6. QED
      BY <2>4, <3>1, <3>5 DEF CauseInv, ReadInv
  <2>5. QED
    BY <2>2, <2>3, <2>4 DEF Init
<1>2. Init => MergeInv
  BY DEF Init, MergeInv, Merging, LastWins
<1>3. ShapeInv /\ CauseInv => RefusedForCause
  BY WholeRead DEF CauseInv, RefusedForCause, Cause
<1>4. QED
  BY <1>1, <1>2, <1>3, ShapeAlways, MergeStep, CauseStep, PTL DEF Spec
=============================================================================
