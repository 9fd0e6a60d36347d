---------------------------- MODULE TopologyFile ----------------------------
(***************************************************************************)
(* An operator-written topology, from its file to the entities it names:   *)
(* Document.Normalize of internal/connectors/topology/load.go.             *)
(*                                                                         *)
(* An item of the document is a record; None is a field left out, and set  *)
(* has what the item says besides, as a partial function from fields to    *)
(* values.  The id that an edge or an endpoint gets when it has none is    *)
(* the tuple of what it is made from; an id may also be written out.       *)
(* Times are numbers.  An entity that was read is known by its kind and    *)
(* id, and keeps as base what stays as it is.                              *)
(***************************************************************************)
EXTENDS Integers, Sequences, FiniteSets

CONSTANTS
  Documents,            \* the documents there may be
  None,                 \* a field left out
  Empty                 \* an object without fields

\* Times and counts are numbers.
Countable(item) ==
  /\ item.observations \in Int
  /\ {item.first, item.last} \subseteq Int \cup {None}
  /\ "replicas" \in DOMAIN item.set => item.set.replicas \in Int

ASSUME DocumentsAssumption ==
  /\ Empty \notin Int
  /\ \A d \in Documents : \A items \in {d.services, d.edges, d.endpoints} :
       /\ items \in Seq({items[i] : i \in DOMAIN items})
       /\ \A i \in DOMAIN items : Countable(items[i])

VARIABLES
  pass,                 \* the loop that runs, or "done", or "failed"
  next,                 \* the item it looks at
  document,
  found                 \* the entities read so far: kind and id, to base and set

fileVars == <<pass, next, document, found>>

\* Fields of d replace those of c.
With(c, d) == [f \in DOMAIN c \cup DOMAIN d |-> IF f \in DOMAIN d THEN d[f] ELSE c[f]]

Named(kind) == {e \in DOMAIN found : e[1] = kind}
IsService(id) == <<"service", id>> \in DOMAIN found

\* The id of an edge, which an identity makes longer; the empty one does not.
EdgeID(from, to, kind, blocking) == <<from, to, kind, blocking>>

EdgeIDWithIdentity(base, set) ==
  IF "identity" \in DOMAIN set /\ set.identity # Empty THEN Append(base, set.identity)
  ELSE base
-----------------------------------------------------------------------------
(* One item.                                                               *)

BadSupport(item) == item.observations < 0

BadSeenRange(item) ==
  item.first # None /\ item.last # None /\ item.first > item.last

BadService(item) ==
  \/ item.id = None \/ IsService(item.id)
  \/ "replicas" \in DOMAIN item.set /\ item.set.replicas <= 0
  \/ BadSupport(item) \/ BadSeenRange(item)

Service(item) ==
  [base |-> <<>>, set |-> With([replicas |-> 1], item.set)]

\* An edge blocks by default when it is synchronous.
Blocking(item) == IF item.blocking = None THEN item.kind = "sync" ELSE item.blocking

EdgeBase(item) == EdgeID(item.from, item.to, item.kind, Blocking(item))

EdgeKey(item) ==
  <<"edge", IF item.id = None THEN EdgeIDWithIdentity(EdgeBase(item), item.set) ELSE item.id>>

BadEdge(item) ==
  \/ item.from = None \/ item.to = None
  \/ item.kind \notin {"sync", "async"}
  \/ ~IsService(item.from) \/ ~IsService(item.to)
  \/ EdgeKey(item) \in DOMAIN found
  \/ BadSupport(item) \/ BadSeenRange(item)

Edge(item) == [base |-> EdgeBase(item), set |-> item.set]

\* The id of an endpoint is made from its service and its route.
EndpointKey(item) ==
  <<"endpoint", IF item.id = None THEN <<item.entry, item.route>> ELSE item.id>>

BadEndpoint(item) ==
  \/ item.entry = None \/ ~IsService(item.entry)
  \/ item.id = None /\ item.route = None
  \/ EndpointKey(item) \in DOMAIN found
  \/ BadSupport(item) \/ BadSeenRange(item)

\* An endpoint is its own predicate until it is given one.
Endpoint(item) ==
  [base |-> <<item.entry>>, set |-> With([predicate_ref |-> EndpointKey(item)[2]], item.set)]
-----------------------------------------------------------------------------
(* The three loops of Normalize.                                           *)

Refuse == pass' = "failed" /\ UNCHANGED <<next, document, found>>

Read(key, entity) ==
  /\ found' = With(found, [k \in {key} |-> entity])
  /\ next' = next + 1
  /\ UNCHANGED <<pass, document>>

Continue(loop) ==
  /\ pass' = loop /\ next' = 1
  /\ UNCHANGED <<document, found>>

NormalizeService ==
  /\ pass = "services"
  /\ IF document.services = <<>> THEN Refuse
     ELSE IF next > Len(document.services) THEN Continue("edges")
     ELSE LET item == document.services[next] IN
          IF BadService(item) THEN Refuse ELSE Read(<<"service", item.id>>, Service(item))

NormalizeEdge ==
  /\ pass = "edges"
  /\ IF next > Len(document.edges) THEN Continue("endpoints")
     ELSE LET item == document.edges[next] IN
          IF BadEdge(item) THEN Refuse ELSE Read(EdgeKey(item), Edge(item))

NormalizeEndpoint ==
  /\ pass = "endpoints"
  /\ IF next > Len(document.endpoints) THEN Continue("supply")
     ELSE LET item == document.endpoints[next] IN
          IF BadEndpoint(item) THEN Refuse ELSE Read(EndpointKey(item), Endpoint(item))

Normalize == NormalizeService \/ NormalizeEdge \/ NormalizeEndpoint
-----------------------------------------------------------------------------
(* What the loops are to accept, said of the document as a whole.          *)

Distinct(s) == \A i, j \in DOMAIN s : s[i] = s[j] => i = j

Plausible(item) ==
  /\ item.observations >= 0
  /\ None \in {item.first, item.last} \/ item.first <= item.last

WellFormed(d) ==
  LET ids == {d.services[i].id : i \in DOMAIN d.services}
      edgeKeys == [i \in DOMAIN d.edges |->
        IF d.edges[i].id # None THEN d.edges[i].id
        ELSE EdgeIDWithIdentity(EdgeBase(d.edges[i]), d.edges[i].set)]
      endpointKeys == [i \in DOMAIN d.endpoints |->
        IF d.endpoints[i].id # None THEN d.endpoints[i].id
        ELSE <<d.endpoints[i].entry, d.endpoints[i].route>>]
  IN  /\ ids # {} /\ None \notin ids
      /\ Distinct([i \in DOMAIN d.services |-> d.services[i].id])
      /\ Distinct(edgeKeys) /\ Distinct(endpointKeys)
      /\ \A i \in DOMAIN d.services :
           /\ Plausible(d.services[i])
           /\ With([replicas |-> 1], d.services[i].set).replicas >= 1
      /\ \A i \in DOMAIN d.edges :
           /\ Plausible(d.edges[i])
           /\ {d.edges[i].from, d.edges[i].to} \subseteq ids
           /\ d.edges[i].kind \in {"sync", "async"}
      /\ \A i \in DOMAIN d.endpoints :
           /\ Plausible(d.endpoints[i])
           /\ d.endpoints[i].entry \in ids
           /\ d.endpoints[i].id # None \/ d.endpoints[i].route # None
=============================================================================
