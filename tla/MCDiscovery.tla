----------------------------- MODULE MCDiscovery -----------------------------
(***************************************************************************)
(* Windows of a few spans, in every order.                                 *)
(***************************************************************************)
EXTENDS EbpfPeers, FiniteSetsExt, SequencesExt

CONSTANTS web, shop, store, alt, here, there, obi, generic, get, query, D, L, A

MCQuery == [d \in {D, L} |-> query]

Blank ==
  [trace |-> None, id |-> None, parent |-> None, domain |-> None, source |-> 1,
   service |-> None, kind |-> "internal", op |-> None, messaging |-> FALSE,
   db |-> None, peer |-> None, at |-> None, place |-> None, conflict |-> FALSE]

Client1(n, id) ==
  [Blank EXCEPT !.trace = 1, !.id = id, !.service = n, !.kind = "client", !.op = get]

Server(n, id, parent) ==
  [Blank EXCEPT !.trace = 1, !.id = id, !.parent = parent, !.service = n,
                !.kind = "server", !.op = get]

DbClient(n, id, d) == [Client1(n, id) EXCEPT !.op = None, !.db = d]

Ebpf(s, domain, place) == [s EXCEPT !.domain = domain, !.place = place]

Names(s, peer, at) == [s EXCEPT !.peer = peer, !.at = at]

From2(s) == [s EXCEPT !.source = 2]

\* Two spans that call each other, exported twice, under one identity with a
\* third, with conflicting attributes, without a service or an identity.
Identities ==
  {Client1(web, 1), From2(Client1(web, 1)), Server(shop, 2, 1), From2(Server(shop, 2, 1)),
   Server(alt, 2, 1), [Client1(web, 1) EXCEPT !.conflict = TRUE],
   [Server(store, 3, 2) EXCEPT !.kind = "consumer", !.op = None],
   [Server(shop, 4, 2) EXCEPT !.kind = "internal"],
   [Server(None, 2, 1) EXCEPT !.source = 2], Server(alt, None, 1)}

\* Callers of a database, seen and not seen to be answered.
DbCalls ==
  {DbClient(web, 1, D), Server(store, 2, 1), DbClient(shop, 3, D), Server(alt, 4, 3),
   DbClient(shop, None, D), DbClient(web, 5, L), Server(store, 6, 5)}

\* A link that looks like a database dependency of the same two services.
Lookalike ==
  {DbClient(web, 1, D), Server(store, 2, 1), DbClient(web, None, D), Client1(web, 7),
   [Server(store, 8, 7) EXCEPT !.kind = "client", !.op = query]}

\* A database client and a server span of one service.
InProcess == {DbClient(web, 1, D), Server(web, 2, 1), Server(store, 3, 2)}

Caller(domain) == Names(Ebpf(Client1(web, 1), domain, here), shop, here)

PeerCalls ==
  {Caller(obi), Caller(generic), From2([Caller(obi) EXCEPT !.service = alt, !.id = None]),
   Ebpf(Server(store, 2, 1), obi, here), Ebpf(Server(store, 2, 1), generic, here),
   Ebpf(Server(shop, 3, None), obi, here), Ebpf(Server(shop, 4, None), obi, there),
   Ebpf(Server(shop, 5, 1), obi, here), Server(shop, 6, None),
   [Caller(obi) EXCEPT !.conflict = TRUE], [Caller(obi) EXCEPT !.id = None],
   [Caller(obi) EXCEPT !.peer = None], [Caller(obi) EXCEPT !.peer = A],
   [Caller(obi) EXCEPT !.peer = web]}

\* A reported name that turned out to be a database.
DbPeer ==
  {Ebpf(DbClient(alt, 7, D), obi, here), Ebpf(Server(shop, 8, 7), obi, here),
   Caller(obi)}

Orders(S) == SetToSeqs(S)

Windows(S, k) == UNION {Orders(T) : T \in UNION {kSubset(n, S) : n \in 1 .. k}}

MCBatches ==
  Windows(Identities, 4) \cup Windows(DbCalls, 4) \cup Orders(Lookalike) \cup
    Windows(PeerCalls, 3) \cup Orders(DbPeer) \cup Orders(InProcess) \cup
    Orders(DbCalls \ {DbClient(web, 5, L), Server(store, 6, 5)})
=============================================================================
