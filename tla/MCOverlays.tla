----------------------------- MODULE MCOverlays -----------------------------
(***************************************************************************)
(* Topologies of two services, and what the spans of a window may show of  *)
(* them, with up to two overlay files.                                     *)
(***************************************************************************)
EXTENDS Overlays, TLC

CONSTANTS a, b, c, call, other, route, e1

Item(id, set) == [id |-> id, observations |-> 1, first |-> None, last |-> None, set |-> set]
ServiceItem(id, set) == Item(id, set)
EdgeItem(id, from, to, kind, blocking, set) ==
  Item(id, set) @@ [from |-> from, to |-> to, kind |-> kind, blocking |-> blocking]
EndpointItem(id, entry, rt, set) == Item(id, set) @@ [entry |-> entry, route |-> rt]

A == ServiceItem(a, [tags |-> {"t"}])
B == ServiceItem(b, [reliability |-> "p"])
Plain == EdgeItem(None, a, b, "sync", None, [p99 |-> 3, retry_on |-> {"5xx"}])
Called == EdgeItem(None, a, b, "sync", TRUE, [identity |-> call, p50 |-> 1])
Other == EdgeItem(None, a, b, "sync", None, [identity |-> other])
Nameless == EdgeItem(None, a, b, "sync", None, [identity |-> Empty])
Written == EdgeItem(<<a, b, "sync", TRUE, call>>, a, b, "async", None, <<>>)
Chosen == EdgeItem(e1, b, a, "async", TRUE, [weight |-> 1])
Route == EndpointItem(None, a, route, [mandatory_targets |-> {b}])
Moved == EndpointItem(<<a, route>>, b, None, <<>>)

Late(item) == [item EXCEPT !.first = 2, !.last = 1]

\* Every list of edges that differs in what the loop decides on, between good
\* services and endpoints, and every list of those around a good edge.
ServiceLists ==
  {<<>>, <<A>>, <<A, A>>, <<A, [B EXCEPT !.id = None]>>, <<A, Late(B)>>,
   <<A, [B EXCEPT !.set = [replicas |-> 0]]>>, <<A, [B EXCEPT !.set = [reliability |-> Empty]]>>}

EdgeLists ==
  {<<>>, <<Plain>>, <<Called>>, <<Plain, Called>>, <<Called, Other>>, <<Plain, Nameless>>,
   <<Called, Written>>, <<Written, Called>>, <<Plain, Chosen>>, <<Chosen, Chosen>>,
   <<Nameless>>, <<Late(Plain)>>, <<[Plain EXCEPT !.kind = "batch"]>>,
   <<[Plain EXCEPT !.observations = -1]>>, <<[Plain EXCEPT !.from = None]>>,
   <<[Plain EXCEPT !.to = c]>>, <<Plain, [Called EXCEPT !.blocking = FALSE]>>}

EndpointLists ==
  {<<>>, <<Route>>, <<Route, Moved>>, <<Moved>>, <<[Route EXCEPT !.route = None]>>,
   <<[Route EXCEPT !.entry = c]>>, <<[Route EXCEPT !.set = [mandatory_targets |-> {c}]]>>}

Doc(s, e, p) == [services |-> s, edges |-> e, endpoints |-> p]

MCDocuments ==
  {Doc(<<A, B>>, e, <<Route>>) : e \in EdgeLists}
    \cup {Doc(<<A, B>>, <<Called>>, p) : p \in EndpointLists}
    \cup {Doc(s, <<>>, <<>>) : s \in ServiceLists}

\* A window: its services, or one of them and a database, with a call.
Seen(id) == <<"service", id>> :> [base |-> Spans, set |-> [replicas |-> 1]]
CallOf(identity) ==
  <<"edge", <<a, b, "sync", TRUE, identity>>>> :>
    [base |-> <<a, b, "sync", TRUE>>, set |-> [identity |-> identity, p50 |-> 1, p99 |-> 3]]
Database(id) == <<"service", id>> :> [base |-> <<>>, set |-> [replicas |-> 1]]

MCObserved ==
  {Seen(a), Seen(a) @@ Seen(b) @@ CallOf(call), Seen(a) @@ Database(b) @@ CallOf(call),
   Seen(a) @@ Seen(b) @@ CallOf(call) @@ CallOf(other)}

OnService(id, set) == [kind |-> "service", id |-> id, base |-> <<>>, set |-> set]
OnEdge(id, from, to, blocking, set) ==
  [kind |-> "edge", id |-> id, base |-> <<from, to, "sync", blocking>>, set |-> set]
OnEndpoint(id, entry, rt, set) ==
  [kind |-> "endpoint", id |-> id, base |-> <<entry, rt>>, set |-> set]

ServiceOverlays ==
  {OnService(a, [replicas |-> 3, labels |-> "x"]), OnService(a, [replicas |-> 4, tags |-> {"u"}]),
   OnService(b, [reliability |-> Empty, labels |-> "y"]),
   OnService(b, [reliability |-> Invalid]), OnService(b, [attributes |-> "z"]),
   OnService(a, [replicas |-> 0])}

EdgeOverlays ==
  {OnEdge(None, a, b, TRUE, [p50 |-> 5, retry_on |-> {"reset"}, max_attempts |-> "2"]),
   OnEdge(None, a, b, TRUE, [max_attempts |-> Invalid]),
   OnEdge(None, a, b, TRUE, [identity |-> call, p99 |-> 6]),
   OnEdge(<<a, b, "sync", TRUE>>, None, None, None, [identity |-> other, weight |-> 2]),
   OnEdge(<<a, b, "sync", TRUE>>, None, None, None, [identity |-> Empty]),
   OnEdge(e1, None, None, None, [weight |-> -1]),
   OnEdge(None, a, b, None, <<>>)}

EndpointOverlays ==
  {OnEndpoint(None, a, route, [predicate_ref |-> e1]),
   OnEndpoint(None, a, route, [mandatory_targets |-> {c}]),
   OnEndpoint(<<a, route>>, None, None, [labels |-> "x"] @@ AttributeKey :> "{}")}

Singles == {<<o>> : o \in ServiceOverlays \cup EdgeOverlays \cup EndpointOverlays}

MCOverlayFiles ==
  {<<>>} \cup {<<f>> : f \in Singles} \cup {<<f, g>> : f, g \in Singles}
    \cup {<<<<s, e>>>> : s \in ServiceOverlays, e \in EdgeOverlays}
    \cup {<<<<e, d>>>> : e, d \in EdgeOverlays}

MCLegacy == {<<>>, a :> 2, a :> 2 @@ b :> 5}
=============================================================================
