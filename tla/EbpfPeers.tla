------------------------------ MODULE EbpfPeers ------------------------------
(***************************************************************************)
(* enrichEBPFPeers (internal/discovery/ebpf.go), the last pass of Discover *)
(* over the spans: a client span of an eBPF source whose receiver was not  *)
(* seen depends on the peer it names.                                      *)
(***************************************************************************)
EXTENDS Discovery

CONSTANT ObiDomains     \* the source domains with the prefix "ebpf:"

VARIABLES
  step,                 \* the span the loop is at
  peers, dependencies,  \* accumulators of the nodes and edges it makes
  callerWarnings

peerVars == <<peers, dependencies, callerWarnings>>

PeersInit ==
  /\ Init
  /\ step = 1
  /\ peers = {} /\ dependencies = {} /\ callerWarnings = {}

Client == batch[step]

\* A call of an application, not of a database and not plain transport.
PeerCall(s) ==
  s.domain # None /\ s.kind = "client" /\ s.service # None /\ s.db = None /\ s.op # None

\* The calls a server span says it was called by.
ReceiverKeys ==
  {ParentKey(batch[i]) : i \in {j \in Positions :
     LET s == batch[j] IN
     s.kind = "server" /\ s.domain \in ObiDomains /\ s.trace # None /\ s.parent # None}}

Received(s) == Identified(s) /\ Key(s) \in ReceiverKeys

Conflicting(s) == s.conflict \/ (Identified(s) /\ Key(s) \in ambiguous)

\* ebpfPeer: a reported name, scoped by what the client says of it, or an
\* address, scoped by the caller when its network is not known.
PeerNode(s) ==
  [kind |-> "peer", name |-> s.peer, domain |-> s.domain,
   scope |-> IF s.peer \in Services THEN s.at
             ELSE IF s.peer \in Scoped THEN None ELSE s.service]

\* The name of such a node holds a hash, too.
ASSUME PeersAssumption ==
  \A b \in Batches : \A i \in DOMAIN b : PeerNode(b[i]) \notin Services

\* observedServiceScopes.
Scopes(n) ==
  {<<batch[i].domain, IF batch[i].conflict THEN "conflicting_attributes" ELSE batch[i].place>> :
     i \in {j \in Positions : batch[j].service = n}}

\* A reported name is the service of that name only if all that was seen of
\* the service is where the client says.
SameService(s) == Scopes(s.peer) = {<<s.domain, s.at>>}

PeerTarget(s) ==
  IF s.peer \in Services /\ SameService(s) THEN s.peer ELSE PeerNode(s)

EquivalentCall(s, target) ==
  \E e \in LinkEdges \cup CallEdges :
    e.from = s.service /\ e.kind = "sync" /\ e.op = s.op

Equivalent(s, target) ==
  \E e \in LinkEdges \cup CallEdges :
    e.from = s.service /\ e.to = target /\ e.kind = "sync" /\ e.op = s.op

PeerEdge(s, target) ==
  [from |-> s.service, to |-> target, kind |-> "sync", op |-> s.op, spanKind |-> "client"]

AdvancePeers ==
  /\ pass = "done" /\ step <= Len(batch)
  /\ step' = step + 1
  /\ UNCHANGED vars

Ignore ==
  /\ \/ ~PeerCall(Client)
     \/ ~Conflicting(Client) /\ Received(Client)
     \/ ~Conflicting(Client) /\ Client.peer = Client.service
  /\ UNCHANGED peerVars

Candidate(s) ==
  PeerCall(s) /\ ~Conflicting(s) /\ ~Received(s) /\ s.peer \notin {None, s.service}

\* warnEBPFCaller.
Refuse ==
  LET warn(text) == callerWarnings' = callerWarnings \cup {<<Client.service, text>>}
  IN
  /\ PeerCall(Client)
  /\ \/ Conflicting(Client) /\ warn("conflicting_client_identity")
     \/ /\ ~Conflicting(Client) /\ ~Received(Client) /\ Client.peer = None
        /\ warn("peer_identity_unresolved")
     \/ /\ Candidate(Client) /\ PeerTarget(Client) \in receivers
        /\ warn("peer_name_collides_with_database")
  /\ UNCHANGED <<peers, dependencies>>

\* The node and the edge are made unless they are there.
Depend ==
  LET target == PeerTarget(Client)
      edge == PeerEdge(Client, target)
  IN  /\ Candidate(Client) /\ target \notin receivers
      /\ peers' = IF target \notin Services THEN peers \cup {<<target, step>>} ELSE peers
      /\ dependencies' = IF Equivalent(Client, target) THEN dependencies
                         ELSE dependencies \cup {<<edge, step>>}
      /\ UNCHANGED callerWarnings

PeerSpan == AdvancePeers /\ (Ignore \/ Refuse \/ Depend)

Returned ==
  /\ pass = "failed" \/ (pass = "done" /\ step > Len(batch))
  /\ UNCHANGED <<vars, step, peerVars>>

PeersNext ==
  \/ Next /\ UNCHANGED <<step, peerVars>>
  \/ PeerSpan
  \/ Returned

PeersSpec == PeersInit /\ [][PeersNext]_<<vars, step, peerVars>>
-----------------------------------------------------------------------------
DependencyEdges == {x[1] : x \in dependencies}

\* What ValidateSemantic would refuse is never built, in whatever order the
\* spans make nodes and edges: an edge without its two nodes.  And no database
\* and no peer stands alone.
Connected ==
  Observed =>
    /\ \A e \in LinkEdges \cup CallEdges \cup DependencyEdges : \A n \in {e.from, e.to} :
         \E x \in services \cup databases \cup peers : x[1] = n
    /\ \A x \in databases : \E e \in CallEdges : e.to = x[1]
    /\ \A x \in peers : \E e \in DependencyEdges : e.to = x[1]

\* "If an exact receiver exists, Bering does not replace it with a
\* peer-derived dependency" (docs/ebpf-source.md).
ReceiptWins ==
  \A x \in dependencies : \A i \in Positions : batch[i].kind = "server" => ~Calls(x[2], i)
=============================================================================
