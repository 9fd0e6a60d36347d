------------------------------ MODULE Discovery ------------------------------
(***************************************************************************)
(* The passes of Discover (internal/discovery/discovery.go and             *)
(* observations.go) that turn the spans of one window into a graph of      *)
(* services, execution links, endpoints and databases.  Every pass reads   *)
(* the spans in the order in which concurrent exports happened to append   *)
(* them; a step here is one iteration of one loop.                         *)
(*                                                                         *)
(* A span is a record.  Its name and attributes are reduced to what the    *)
(* passes read from them: the operation op (protocol, method, route or     *)
(* topic), whether there are messaging attributes, the database and the    *)
(* peer a client names.  An accumulator is the set of the positions it has *)
(* counted: support, trace count, first and last time and latencies are    *)
(* functions of that set.  Instances, provenance lists and the encoding of *)
(* the evidence are left out, and a service never has the name of a node   *)
(* made from a hash.                                                       *)
(***************************************************************************)
EXTENDS Integers, Sequences

CONSTANTS
  Batches,              \* the sequences of spans a window may hold
  Services,
  HttpOps, GrpcOps,     \* operations with a method and a path; gRPC methods
  Scoped,               \* databases and addresses whose network scope is known
  Query,                \* what a dependency on a database carries as operation
  None                  \* a blank name or an attribute that is not there

ASSUME BatchesAssumption ==
  /\ \A b \in Batches : b \in Seq({b[i] : i \in DOMAIN b}) /\ b # <<>>
  /\ \A b \in Batches : \A i \in DOMAIN b :
       b[i].service \in Services \cup {None} /\ b[i].source \in Int
  /\ None \notin Services

VARIABLES
  batch,                \* the spans of the window
  pass, next,           \* the loop that runs and the span it is at
  index, ambiguous,     \* spans with an identity; the identities given up
  services, links, endpoints,       \* accumulators of the traces
  databases, calls,                 \* accumulators of the database clients
  receivers,            \* services labelled as databases
  cited, aliases, warnings          \* the evidence of edges and of services

graphVars == <<services, links, endpoints>>
dbVars == <<databases, calls, receivers, cited, aliases, warnings>>
vars == <<batch, pass, next, index, ambiguous, graphVars, dbVars>>

Positions == DOMAIN batch
Span == batch[next]

Init ==
  /\ batch \in Batches
  /\ pass = "index" /\ next = 1
  /\ index = {} /\ ambiguous = {}
  /\ services = {} /\ links = {} /\ endpoints = {}
  /\ databases = {} /\ calls = {} /\ receivers = {}
  /\ cited = {} /\ aliases = {} /\ warnings = {}

\* The loop goes on with the next span, or the pass "after" begins.
Advance(after) ==
  /\ UNCHANGED batch
  /\ IF next < Len(batch)
       THEN next' = next + 1 /\ UNCHANGED pass
       ELSE next' = 1 /\ pass' = after
-----------------------------------------------------------------------------
(* unambiguousSpanIndex: which span an identity stands for                 *)

Key(s) == <<s.domain, s.trace, s.id>>

ParentKey(s) == <<s.domain, s.trace, s.parent>>

Identified(s) == s.trace # None /\ s.id # None

\* What two exports of one span must agree on: not on their source or time.
Signature(s) ==
  <<s.service, s.parent, s.kind, s.op, s.messaging, s.db, s.peer, s.at, s.place>>

Indexed(k) == {t \in index : Key(t) = k}

\* The order of canonicalSpan among exports with one signature.
Precedes(s, t) == s.source < t.source

PassOver ==
  /\ ~Identified(Span) \/ Key(Span) \in ambiguous
  /\ UNCHANGED <<index, ambiguous>>

ContradictsItself(s) == s.conflict

Contradicts(s) == s.conflict \/ \E t \in Indexed(Key(s)) : Signature(t) # Signature(s)

GiveUp ==
  /\ Identified(Span) /\ Key(Span) \notin ambiguous
  /\ Contradicts(Span)
  /\ ambiguous' = ambiguous \cup {Key(Span)}
  /\ index' = index \ Indexed(Key(Span))

\* The first of the exports in canonical order stands for all of them.
ReplacesNothing(s) == Indexed(Key(s)) = {}

Replaces(s) == \A t \in Indexed(Key(s)) : Precedes(s, t)

Keep ==
  /\ Identified(Span) /\ Key(Span) \notin ambiguous
  /\ ~Contradicts(Span)
  /\ index' = IF Replaces(Span) THEN (index \ Indexed(Key(Span))) \cup {Span} ELSE index
  /\ UNCHANGED ambiguous

IndexSpan ==
  /\ pass = "index"
  /\ PassOver \/ GiveUp \/ Keep
  /\ Advance("services")
  /\ UNCHANGED <<graphVars, dbVars>>
-----------------------------------------------------------------------------
(* The loops of Discover                                                   *)

\* A batch without a named span yields no services and no result.
CountSpan ==
  /\ pass = "services"
  /\ services' = services \cup {<<n, next>> : n \in {Span.service} \ {None}}
  /\ Advance(IF services' = {} THEN "failed" ELSE "links")
  /\ UNCHANGED <<index, ambiguous, links, endpoints, dbVars>>

Parent(s) == {p \in Indexed(ParentKey(s)) : s.trace # None /\ s.parent # None}

Async(s) == s.kind \in {"producer", "consumer"} \/ s.messaging

Operation(p, s) == IF s.op # None THEN s.op ELSE p.op

\* edgeKind, edgeIdentity and edgeKey.
Link(p, s) ==
  [from |-> p.service, to |-> s.service,
   kind |-> IF Async(p) \/ Async(s) THEN "async" ELSE "sync",
   op |-> Operation(p, s), spanKind |-> s.kind]

\* The parents of s that are in another service, when s itself is known.
Callers(s) ==
  {p \in Parent(s) : Indexed(Key(s)) # {} /\ p.service \notin {None, s.service}}

\* inferEndpointDetails.  An eBPF source names an endpoint only at the server.
Inbound(s) ==
  IF s.domain # None
    THEN s.kind = "server" /\ s.op \in HttpOps \cup GrpcOps
    ELSE /\ s.op \in HttpOps
         /\ s.kind = "server" \/ \A p \in Parent(s) : p.service # s.service

LinkSpan ==
  /\ pass = "links"
  /\ links' = links \cup
       {<<Link(p, Span), next>> : p \in {q \in Callers(Span) : Span.service # None}}
  /\ endpoints' = IF Span.service # None /\ Inbound(Span)
                    THEN endpoints \cup {<<Span.service, Span.op, next>>} ELSE endpoints
  /\ Advance("observe")
  /\ UNCHANGED <<index, ambiguous, services, dbVars>>
-----------------------------------------------------------------------------
(* enrichObservations: databases, evidence and warnings                    *)

IsDatabaseCall(s) == s.kind = "client" /\ s.db # None

\* databaseFromClient.  What has no known scope belongs to its caller.
DatabaseNode(s) ==
  [kind |-> "database", name |-> s.db,
   caller |-> IF s.db \in Scoped THEN <<>> ELSE <<s.service, s.domain>>]

\* The name of such a node holds a hash, and a service has none that does.
ASSUME NodesAssumption ==
  \A b \in Batches : \A i \in DOMAIN b : DatabaseNode(b[i]) \notin Services

\* databaseReceivers: the servers behind the call with the identity k, and
\* the services that were seen to answer for a database.
PairedWithin(k) ==
  {c \in index : /\ c.kind = "server" /\ c.service # None
                 /\ \E p \in Parent(c) : Key(p) = k /\ IsDatabaseCall(p)}

Paired(k) ==
  {c \in index : /\ c.kind = "server" /\ c.service # None
                 /\ \E p \in Parent(c) : /\ Key(p) = k /\ p.service # c.service
                                         /\ IsDatabaseCall(p)}

ReceiversOf(node) ==
  {c.service : c \in {d \in index :
     \E p \in Parent(d) : /\ IsDatabaseCall(p) /\ p.db \in Scoped
                          /\ DatabaseNode(p) = node /\ d \in Paired(Key(p))}}

LinkEdges == {x[1] : x \in links}

\* The receivers of a call whose links are in the graph.
Answering(s) == {c \in Paired(Key(s)) : Link(s, c) \in LinkEdges}

Warn(s, texts) == warnings' = warnings \cup {<<s.service, t>> : t \in texts}

Unnamed ==
  /\ Span.service = None
  /\ UNCHANGED dbVars

Doubtful ==
  /\ Span.service # None
  /\ Span.conflict \/ Key(Span) \in ambiguous
  /\ Warn(Span, {IF Span.conflict THEN "attribute_conflict" ELSE "conflicting_span_identity"})
  /\ UNCHANGED <<databases, calls, receivers, cited, aliases>>

Sound(s) == s.service # None /\ ~s.conflict /\ Key(s) \notin ambiguous

OwnIdentityWarnings(s) ==
  IF Indexed(Key(s)) = {} THEN {"context_identity_incomplete"} ELSE {}

IdentityWarnings(s) ==
  (IF ParentKey(s) \in ambiguous THEN {"conflicting_parent_identity"} ELSE {})
    \cup (IF Indexed(Key(s)) = {} THEN {"context_identity_incomplete"} ELSE {})

LinkSources(s) == UNION {{Link(p, s)} \X {p.source, s.source} : p \in Callers(s)}

NoDatabase ==
  /\ Sound(Span) /\ ~IsDatabaseCall(Span)
  /\ Warn(Span, IdentityWarnings(Span))
  /\ cited' = cited \cup LinkSources(Span)
  /\ UNCHANGED <<databases, calls, receivers, aliases>>

\* The receiver is in the graph: its link gets the alias, it gets the label.
Answered ==
  /\ Sound(Span) /\ IsDatabaseCall(Span)
  /\ Paired(Key(Span)) # {}
  /\ aliases' = aliases \cup {<<Link(Span, c), Span.db>> : c \in Answering(Span)}
  /\ receivers' = receivers \cup {c.service : c \in Answering(Span)}
  /\ Warn(Span, IdentityWarnings(Span))
  /\ cited' = cited \cup LinkSources(Span)
  /\ UNCHANGED <<databases, calls>>

Undecided ==
  /\ Sound(Span) /\ IsDatabaseCall(Span)
  /\ Paired(Key(Span)) = {}
  /\ \E a, b \in ReceiversOf(DatabaseNode(Span)) : a # b
  /\ aliases' = aliases \cup {<<Span.service, Span.db>>}
  /\ Warn(Span, IdentityWarnings(Span) \cup {"database_endpoint_has_multiple_observed_receivers"})
  /\ cited' = cited \cup LinkSources(Span)
  /\ UNCHANGED <<databases, calls, receivers>>

Dependency(s, node) ==
  [from |-> s.service, to |-> node, kind |-> "sync", op |-> Query[s.db], spanKind |-> "client"]

\* The one service that was seen to answer, or else a node of its own.
UnsharedTarget(s) == DatabaseNode(s)

AnyTarget(s) ==
  LET seen == {c.service : c \in UNION {Paired(Key(t)) : t \in index}}
  IN  IF seen = {} THEN DatabaseNode(s) ELSE CHOOSE r \in seen : TRUE

Target(s) ==
  IF ReceiversOf(DatabaseNode(s)) = {} THEN DatabaseNode(s)
  ELSE CHOOSE r \in ReceiversOf(DatabaseNode(s)) : TRUE

Called ==
  LET node == DatabaseNode(Span)
      reused == ReceiversOf(node)
      edge == Dependency(Span, Target(Span))
  IN  /\ Sound(Span) /\ IsDatabaseCall(Span)
      /\ Paired(Key(Span)) = {}
      /\ \A a, b \in reused : a = b
      /\ databases' = IF reused = {} THEN databases \cup {<<node, next>>} ELSE databases
      /\ receivers' = receivers \cup reused
      /\ calls' = calls \cup {<<edge, next>>}
      /\ aliases' = aliases \cup {<<e, Span.db>> : e \in {edge} \cup reused}
      /\ Warn(Span, IdentityWarnings(Span))
      /\ cited' = cited \cup LinkSources(Span) \cup {<<edge, Span.source>>}

ObserveSpan ==
  /\ pass = "observe"
  /\ Unnamed \/ Doubtful \/ NoDatabase \/ Answered \/ Undecided \/ Called
  /\ Advance("merge")
  /\ UNCHANGED <<index, ambiguous, graphVars>>

CallEdges == {x[1] : x \in calls}

\* A dependency with the identity of a link fails the whole batch.
MergeCalls ==
  /\ pass = "merge"
  /\ pass' = IF CallEdges \cap LinkEdges # {} THEN "failed" ELSE "done"
  /\ UNCHANGED <<batch, next, index, ambiguous, graphVars, dbVars>>

Next == IndexSpan \/ CountSpan \/ LinkSpan \/ ObserveSpan \/ MergeCalls

Spec == Init /\ [][Next]_vars
-----------------------------------------------------------------------------
(* What the spans say, whatever their order.                               *)

Exports(k) == {i \in Positions : Identified(batch[i]) /\ Key(batch[i]) = k}

\* All exports with the identity k tell one story.
Consistent(k) ==
  \A i, j \in Exports(k) : ~batch[i].conflict /\ Signature(batch[i]) = Signature(batch[j])

\* The span at j called the span at i, in another service.
Calls(j, i) ==
  LET p == batch[j]
      s == batch[i]
  IN  /\ j \in Exports(ParentKey(s)) /\ i \in Exports(Key(s))
      /\ Consistent(Key(p)) /\ Consistent(Key(s))
      /\ p.service # s.service /\ None \notin {p.service, s.service}

Linked == pass \in {"observe", "merge", "done"}

\* Passes that come after every link and every database is known.
Observed == pass \in {"merge", "done"}
-----------------------------------------------------------------------------
(* Properties                                                              *)

TypeOK ==
  /\ pass \in {"index", "services", "links", "observe", "merge", "done", "failed"}
  /\ next \in Positions
  /\ index \subseteq {batch[i] : i \in Positions}
  /\ \A s, t \in index : Key(s) = Key(t) => s = t
  /\ \A s \in index : Identified(s) /\ Key(s) \notin ambiguous
  /\ services \subseteq Services \X Positions
  /\ receivers \subseteq Services
  /\ \A x \in links \cup calls : x[2] \in Positions

\* The links that the export at i adds.
LinksTo(i) == {<<Link(batch[j], batch[i]), i>> : j \in {k \in Positions : Calls(k, i)}}

\* The execution links are those of the pairs of unambiguous spans, each
\* counted once for every export of the child: no order of the exports picks a
\* parent (unambiguousSpanIndex and the second loop of Discover).
LinksExact == Linked => links = UNION {LinksTo(i) : i \in Positions}

\* The evidence of a link cites the source of the child and the first source,
\* in canonical order, of its parent (enrichObservations, canonicalSpan).
SourcesExact ==
  pass = "done" => \A e \in LinkEdges :
    {x[2] : x \in {y \in cited : y[1] = e}} =
      UNION {{batch[i].source} \cup
             {batch[j].source : j \in {k \in Exports(ParentKey(batch[i])) :
                \A m \in Exports(ParentKey(batch[i])) : batch[k].source <= batch[m].source}} :
             i \in {k \in Positions : <<e, k>> \in links}}

\* A named span that can stand in no execution link because of its identity,
\* or that of its parent, leaves a warning at its service.
Disclosed ==
  Observed => \A i \in Positions :
    LET s == batch[i] IN
    s.service # None =>
      \/ i \in Exports(Key(s)) /\ Consistent(Key(s)) /\ Consistent(ParentKey(s))
      \/ \E t \in {"attribute_conflict", "conflicting_span_identity",
                    "conflicting_parent_identity", "context_identity_incomplete"} :
           <<s.service, t>> \in warnings

\* No database call of an undoubtful client is lost: its database is an alias
\* of an edge from its service or, when the receivers differ, of the service.
CallsKept ==
  Observed => \A i \in Positions :
    LET s == batch[i] IN
    (s.service # None /\ ~s.conflict /\ Consistent(Key(s)) /\ IsDatabaseCall(s)) =>
      \/ <<s.service, s.db>> \in aliases
      \/ \E e \in LinkEdges \cup CallEdges : e.from = s.service /\ <<e, s.db>> \in aliases

\* A database somebody was seen to answer for has no second, made-up node, and
\* a caller whose receiver was not seen is joined to it only if there is one.
NeverGuesses ==
  Observed =>
    /\ \A x \in databases : ReceiversOf(x[1]) = {}
    /\ \A x \in calls :
         x[1].to \in Services => ReceiversOf(DatabaseNode(batch[x[2]])) = {x[1].to}
=============================================================================
