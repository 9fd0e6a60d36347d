-------------------------- MODULE DiscoveryProofs ---------------------------
(***************************************************************************)
(* Theorems about Discovery and EbpfPeers, for any spans in any order: the *)
(* index of spans is exact; the execution links and their evidence are     *)
(* those that the unambiguous spans say, and the others are warned about;  *)
(* no database call is lost and no receiver guessed; the graph is closed.  *)
(***************************************************************************)
EXTENDS EbpfPeers, TLAPS

\* The spans the index has taken in.
Scanned == IF pass = "index" THEN 1 .. next - 1 ELSE Positions

ExportsIn(S, k) == {i \in S : Identified(batch[i]) /\ Key(batch[i]) = k}

Agree(S, k) ==
  \A i, j \in ExportsIn(S, k) :
    ~batch[i].conflict /\ Signature(batch[i]) = Signature(batch[j])

\* An identity is given up exactly when its exports disagree; any other has
\* one of its exports in the index.
IndexOf(S, idx, amb) ==
  /\ \A k : k \in amb <=> ~Agree(S, k)
  /\ \A s \in idx : \E i \in S : s = batch[i] /\ Identified(s) /\ Key(s) \notin amb
  /\ \A i \in S : Identified(batch[i]) /\ Key(batch[i]) \notin amb =>
       \E t \in idx : Key(t) = Key(batch[i])
  /\ \A s, t \in idx : Key(s) = Key(t) => s = t

Shape ==
  /\ batch \in Batches
  /\ next \in Positions
  /\ pass \in {"index", "services", "links", "observe", "merge", "done", "failed"}

IndexInv == Shape /\ IndexOf(Scanned, index, ambiguous)

\* A window is a non-empty sequence of spans.
LEMMA BatchShape ==
  ASSUME batch \in Batches
  PROVE  Len(batch) \in Nat \ {0} /\ Positions = 1 .. Len(batch)
<1>1. batch \in Seq({batch[i] : i \in DOMAIN batch}) /\ batch # <<>>
  BY BatchesAssumption
<1> QED
  BY <1>1 DEF Positions

\* Before the first span the index is empty, and so are the identities given up.
LEMMA InitIndex == Init => IndexInv
<1> SUFFICES ASSUME Init PROVE IndexInv
  OBVIOUS
<1> USE DEF Init
<1>1. Shape
  BY BatchShape DEF Shape
<1>2. Scanned = {}
  BY DEF Scanned
<1> QED
  BY <1>1, <1>2 DEF IndexInv, IndexOf, Agree, ExportsIn

\* A step of any pass keeps the shape of the loop.
LEMMA AdvanceShape ==
  ASSUME Shape, NEW after \in {"services", "links", "observe", "merge", "failed"},
         Advance(after)
  PROVE  Shape' /\ batch' = batch
BY BatchShape DEF Shape, Advance, Positions

\* A step moves on by one span or one pass and leaves the window alone.
LEMMA StepShape == Shape /\ [Next]_vars => Shape' /\ batch' = batch
<1> SUFFICES ASSUME Shape, [Next]_vars PROVE Shape' /\ batch' = batch
  OBVIOUS
<1>1. CASE IndexSpan
  BY <1>1, AdvanceShape DEF IndexSpan
<1>2. CASE CountSpan
  BY <1>2, AdvanceShape DEF CountSpan
<1>3. CASE LinkSpan
  BY <1>3, AdvanceShape DEF LinkSpan
<1>4. CASE ObserveSpan
  BY <1>4, AdvanceShape DEF ObserveSpan
<1>5. CASE MergeCalls
  BY <1>5 DEF MergeCalls, Shape, Positions
<1>6. CASE UNCHANGED vars
  BY <1>6 DEF vars, Shape, Positions
<1> QED
  BY <1>1, <1>2, <1>3, <1>4, <1>5, <1>6 DEF Next

\* Another export changes only what is said of its own identity.
LEMMA ExportsOne ==
  ASSUME NEW S, NEW n, n \notin S, NEW k
  PROVE  ExportsIn(S \cup {n}, k) =
           IF Identified(batch[n]) /\ Key(batch[n]) = k
             THEN ExportsIn(S, k) \cup {n} ELSE ExportsIn(S, k)
BY DEF ExportsIn

\* A span with another identity changes nothing for the exports of k.
LEMMA AgreeOther ==
  ASSUME NEW S, NEW n, n \notin S, NEW k,
         ~(Identified(batch[n]) /\ Key(batch[n]) = k)
  PROVE  Agree(S \cup {n}, k) <=> Agree(S, k)
BY ExportsOne DEF Agree

\* If all exports agree, so do fewer of them.
LEMMA AgreeGrows ==
  ASSUME NEW S, NEW n, NEW k, Agree(S \cup {n}, k)
  PROVE  Agree(S, k)
BY DEF Agree, ExportsIn

\* An export of a consistent identity agrees with the others if and only if
\* it agrees with the one in the index.
LEMMA AgreeOwn ==
  ASSUME NEW S, NEW n, n \notin S, n = next,
         IndexOf(S, index, ambiguous),
         Identified(Span), Key(Span) \notin ambiguous
  PROVE  Agree(S \cup {n}, Key(Span)) <=> ~Contradicts(Span)
<1> DEFINE k == Key(Span)
<1>1. Agree(S, k)
  BY DEF IndexOf
<1>2. ExportsIn(S \cup {n}, k) = ExportsIn(S, k) \cup {n}
  BY ExportsOne DEF Span
<1>3. \A t \in Indexed(k) : \E i \in ExportsIn(S, k) : t = batch[i]
  BY DEF IndexOf, Indexed, ExportsIn
<1>4. \A i \in ExportsIn(S, k) : \E t \in Indexed(k) : Signature(t) = Signature(batch[i])
  <2> SUFFICES ASSUME NEW i \in ExportsIn(S, k)
               PROVE  \E t \in Indexed(k) : Signature(t) = Signature(batch[i])
    OBVIOUS
  <2>1. PICK t \in index : Key(t) = k
    BY DEF IndexOf, ExportsIn
  <2>2. t \in Indexed(k)
    BY <2>1 DEF Indexed
  <2>3. PICK j \in ExportsIn(S, k) : t = batch[j]
    BY <2>2, <1>3
  <2> QED
    BY <2>2, <2>3, <1>1 DEF Agree
<1>5. ASSUME Contradicts(Span) PROVE ~Agree(S \cup {n}, k)
  <2>1. CASE Span.conflict
    BY <2>1, <1>2 DEF Agree, Span
  <2>2. CASE \E t \in Indexed(k) : Signature(t) # Signature(Span)
    BY <2>2, <1>2, <1>3 DEF Agree, Span
  <2> QED
    BY <1>5, <2>1, <2>2 DEF Contradicts
<1>6. ASSUME ~Contradicts(Span) PROVE Agree(S \cup {n}, k)
  <2>1. ~Span.conflict /\ \A t \in Indexed(k) : Signature(t) = Signature(Span)
    BY <1>6 DEF Contradicts
  <2>2. \A i \in ExportsIn(S, k) : Signature(batch[i]) = Signature(Span)
    BY <2>1, <1>4
  <2> QED
    BY <1>1, <1>2, <2>1, <2>2 DEF Agree, Span
<1> QED
  BY <1>5, <1>6

\* What a step of the first loop does to the index, n being the span it is at.
LEMMA IndexOne ==
  ASSUME NEW S, NEW n, n \notin S, n = next,
         IndexOf(S, index, ambiguous),
         PassOver \/ GiveUp \/ Keep
  PROVE  IndexOf(S \cup {n}, index', ambiguous')
<1>. DEFINE k == Key(Span)
           T == S \cup {n}
<1>1. \A i \in T : i \in S \/ batch[i] = Span
  BY DEF Span
<1>2. \A key : ~(Identified(Span) /\ k = key) => (Agree(T, key) <=> Agree(S, key))
  BY AgreeOther DEF Span
<1>3. CASE PassOver
  <2>1. index' = index /\ ambiguous' = ambiguous
    BY <1>3 DEF PassOver
  <2>2. Identified(Span) => k \in ambiguous /\ ~Agree(T, k)
    BY <1>3, AgreeGrows DEF PassOver, IndexOf
  <2>3. \A key : key \in ambiguous <=> ~Agree(T, key)
    BY <1>2, <2>2 DEF IndexOf
  <2> QED
    BY <1>1, <2>1, <2>2, <2>3 DEF IndexOf
<1>4. CASE GiveUp
  <2>1. /\ Identified(Span) /\ k \notin ambiguous /\ Contradicts(Span)
        /\ ambiguous' = ambiguous \cup {k} /\ index' = index \ Indexed(k)
    BY <1>4 DEF GiveUp
  <2>2. ~Agree(T, k)
    BY <2>1, AgreeOwn
  <2>3. \A key : key \in ambiguous' <=> ~Agree(T, key)
    BY <1>2, <2>1, <2>2 DEF IndexOf
  <2>4. \A s \in index' : s \in index /\ Key(s) # k
    BY <2>1 DEF Indexed
  <2>5. \A s \in index : Key(s) # k => s \in index'
    BY <2>1 DEF Indexed
  <2> QED
    BY <1>1, <2>1, <2>3, <2>4, <2>5 DEF IndexOf
<1>5. CASE Keep
  <2>1. /\ Identified(Span) /\ k \notin ambiguous /\ ~Contradicts(Span)
        /\ ambiguous' = ambiguous
        /\ index' = IF Replaces(Span) THEN (index \ Indexed(k)) \cup {Span} ELSE index
    BY <1>5 DEF Keep
  <2>2. Agree(T, k)
    BY <2>1, AgreeOwn
  <2>3. \A key : key \in ambiguous' <=> ~Agree(T, key)
    BY <1>2, <2>1, <2>2 DEF IndexOf
  <2>4. \E t \in index' : Key(t) = k
    BY <2>1 DEF Replaces, Indexed
  <2>5. \A s \in index' : s \in index \/ s = Span
    BY <2>1
  <2>6. \A s \in index : Key(s) # k => s \in index'
    BY <2>1 DEF Indexed
  <2>7. \A s, t \in index' : Key(s) = Key(t) => s = t
    BY <2>1 DEF IndexOf, Indexed
  <2>8. \A s \in index' : \E i \in T : s = batch[i] /\ Identified(s) /\ Key(s) \notin ambiguous
    BY <2>1, <2>5 DEF IndexOf, Span
  <2>9. \A i \in T : Identified(batch[i]) /\ Key(batch[i]) \notin ambiguous =>
           \E t \in index' : Key(t) = Key(batch[i])
    BY <1>1, <2>4, <2>6 DEF IndexOf
  <2> QED
    BY <2>1, <2>3, <2>7, <2>8, <2>9 DEF IndexOf
<1> QED
  BY <1>3, <1>4, <1>5

\* IndexSpan keeps the index exact; the other passes only read it.
LEMMA StepIndex == IndexInv /\ [Next]_vars => IndexInv'
<1> SUFFICES ASSUME IndexInv, [Next]_vars PROVE IndexInv'
  OBVIOUS
<1>1. Shape' /\ batch' = batch
  BY StepShape DEF IndexInv
<1>2. Len(batch) \in Nat \ {0} /\ Positions = 1 .. Len(batch) /\ next \in Positions
  BY BatchShape DEF IndexInv, Shape
<1>3. CASE IndexSpan
  <2>1. pass = "index" /\ (PassOver \/ GiveUp \/ Keep) /\ Advance("services")
    BY <1>3 DEF IndexSpan
  <2>2. Scanned' = Scanned \cup {next} /\ next \notin Scanned
    BY <1>2, <2>1 DEF Scanned, Advance, Positions
  <2>3. IndexOf(Scanned \cup {next}, index', ambiguous')
    BY <2>1, <2>2, IndexOne DEF IndexInv
  <2>4. IndexOf(Scanned', index', ambiguous')
    BY <2>2, <2>3
  <2> QED
    BY <1>1, <2>4 DEF IndexInv, IndexOf, Agree, ExportsIn
<1>4. CASE ~IndexSpan
  <2>1. /\ index' = index /\ ambiguous' = ambiguous
        /\ (pass' = "index" <=> pass = "index") /\ (pass = "index" => next' = next)
    BY <1>1, <1>2, <1>4 DEF Next, vars, CountSpan, LinkSpan, ObserveSpan, MergeCalls, Advance
  <2>2. Scanned' = Scanned
    BY <1>1, <2>1 DEF Scanned, Positions
  <2> QED
    BY <1>1, <2>1, <2>2 DEF IndexInv, IndexOf, Agree, ExportsIn
<1> QED
  BY <1>3, <1>4

\* The index of unambiguousSpanIndex never depends on more than the set of
\* exports it has read, up to the choice of one of several that agree.
THEOREM IndexExact == Spec => []IndexInv
BY InitIndex, StepIndex, PTL DEF Spec
-----------------------------------------------------------------------------
(* The links                                                               *)

\* The links of the spans that the second loop of Discover has been at.
LinksInv ==
  /\ pass \in {"index", "services"} => links = {}
  /\ pass = "links" => links = UNION {LinksTo(i) : i \in 1 .. next - 1}
  /\ LinksExact

\* A link says nothing of the caller in which two of its exports may differ.
LEMMA LinkOfSignature ==
  ASSUME NEW p, NEW q, NEW s, Signature(p) = Signature(q)
  PROVE  p.service = q.service /\ Link(p, s) = Link(q, s)
<1>1. p.service = q.service /\ p.kind = q.kind /\ p.op = q.op /\ p.messaging = q.messaging
  BY DEF Signature
<1> QED
  BY <1>1 DEF Link, Async, Operation

\* A span with an entry in the index has an identity that is not given up.
LEMMA IndexedKey ==
  ASSUME IndexOf(Positions, index, ambiguous), NEW k, NEW t \in Indexed(k)
  PROVE  /\ Consistent(k)
         /\ \E j \in Exports(k) : t = batch[j]
         /\ \A j \in Exports(k) : Signature(t) = Signature(batch[j])
<1>1. t \in index /\ Key(t) = k
  BY DEF Indexed
<1>2. PICK j \in Positions : t = batch[j] /\ Identified(t) /\ k \notin ambiguous
  BY <1>1 DEF IndexOf
<1>3. Agree(Positions, k)
  BY <1>2 DEF IndexOf
<1>4. ExportsIn(Positions, k) = Exports(k) /\ j \in Exports(k)
  BY <1>1, <1>2 DEF ExportsIn, Exports
<1> QED
  BY <1>2, <1>3, <1>4 DEF Agree, Consistent

\* A consistent identity has an entry in the index.
LEMMA KeyIndexed ==
  ASSUME IndexOf(Positions, index, ambiguous), NEW k, Consistent(k), NEW j \in Exports(k)
  PROVE  \E t \in Indexed(k) : TRUE
<1>1. ExportsIn(Positions, k) = Exports(k)
  BY DEF ExportsIn, Exports
<1>2. k \notin ambiguous
  BY <1>1 DEF IndexOf, Agree, Consistent
<1> QED
  BY <1>2 DEF IndexOf, Exports, Indexed

\* The links of a span with its callers in the index are those its export says.
LEMMA LinksOfSpan ==
  ASSUME IndexOf(Positions, index, ambiguous), NEW n \in Positions
  PROVE  {<<Link(p, batch[n]), n>> : p \in {q \in Callers(batch[n]) : batch[n].service # None}}
           = LinksTo(n)
<1> DEFINE L == {<<Link(p, batch[n]), n>> : p \in {q \in Callers(batch[n]) : batch[n].service # None}}
<1>1. ASSUME NEW p \in Callers(batch[n]), batch[n].service # None
      PROVE  <<Link(p, batch[n]), n>> \in LinksTo(n)
  <2>1. /\ p \in Indexed(ParentKey(batch[n])) /\ p.service \notin {None, batch[n].service}
        /\ \E t : t \in Indexed(Key(batch[n]))
    BY DEF Callers, Parent
  <2>2. PICK j \in Exports(ParentKey(batch[n])) : p = batch[j]
    BY <2>1, IndexedKey
  <2>3. Consistent(Key(p))
    BY <2>1, <2>2, IndexedKey DEF Exports
  <2>4. PICK t : t \in Indexed(Key(batch[n]))
    BY <2>1
  <2>5. Consistent(Key(batch[n])) /\ \E m \in Exports(Key(batch[n])) : t = batch[m]
    BY <2>4, IndexedKey
  <2>6. Identified(batch[n])
    BY <2>5 DEF Exports, Key, Identified
  <2>7. Calls(j, n)
    BY <1>1, <2>1, <2>2, <2>3, <2>5, <2>6 DEF Calls, Exports
  <2> QED
    BY <2>2, <2>7 DEF LinksTo, Exports
<1>2. ASSUME NEW j \in Positions, Calls(j, n)
      PROVE  <<Link(batch[j], batch[n]), n>> \in L
  <2>1. /\ j \in Exports(ParentKey(batch[n])) /\ n \in Exports(Key(batch[n]))
        /\ Consistent(ParentKey(batch[n])) /\ Consistent(Key(batch[n]))
        /\ batch[j].service # batch[n].service /\ None \notin {batch[j].service, batch[n].service}
    BY <1>2 DEF Calls, Exports
  <2>2. PICK t \in Indexed(ParentKey(batch[n])) : TRUE
    BY <2>1, KeyIndexed
  <2>3. Signature(t) = Signature(batch[j])
    BY <2>1, <2>2, IndexedKey
  <2>4. t.service = batch[j].service /\ Link(t, batch[n]) = Link(batch[j], batch[n])
    BY <2>3, LinkOfSignature
  <2>5. Indexed(Key(batch[n])) # {}
    BY <2>1, KeyIndexed
  <2>6. batch[n].trace # None /\ batch[n].parent # None
    BY <2>1 DEF Exports, Identified, Key, ParentKey
  <2>7. t \in Callers(batch[n])
    BY <2>1, <2>2, <2>4, <2>5, <2>6 DEF Callers, Parent
  <2> QED
    BY <2>1, <2>4, <2>7
<1>3. LinksTo(n) = {<<Link(batch[j], batch[n]), n>> : j \in {k \in Positions : Calls(k, n)}}
  BY DEF LinksTo
<1> QED
  BY <1>1, <1>2, <1>3

\* LinkSpan adds the links of one span and no other; the other passes add none.
LEMMA StepLinks == IndexInv /\ LinksInv /\ [Next]_vars => LinksInv'
<1> SUFFICES ASSUME IndexInv, LinksInv, [Next]_vars PROVE LinksInv'
  OBVIOUS
<1>1. Shape' /\ batch' = batch /\ Positions' = Positions
  BY StepShape DEF IndexInv, Positions
<1>2. Len(batch) \in Nat \ {0} /\ Positions = 1 .. Len(batch) /\ next \in Positions
  BY BatchShape DEF IndexInv, Shape
<1>3. \A i : LinksTo(i)' = LinksTo(i)
  BY <1>1 DEF LinksTo, Calls, Exports, Consistent
<1> USE DEF LinksInv, LinksExact, Linked
<1>4. CASE IndexSpan
  BY <1>4, <1>1 DEF IndexSpan, Advance, graphVars
<1>5. CASE CountSpan
  <2>1. links = {} /\ links' = {} /\ next \in Nat
    BY <1>2, <1>5 DEF CountSpan
  <2>2. \/ pass' = "services"
        \/ pass' = "links" /\ next' = 1
        \/ pass' = "failed"
    BY <1>5 DEF CountSpan, Advance
  <2>3. UNION {LinksTo(i)' : i \in 1 .. 0} = {}
    OBVIOUS
  <2> QED
    BY <2>1, <2>2, <2>3
<1>6. CASE LinkSpan
  <2>1. pass = "links" /\ Scanned = Positions
    BY <1>6 DEF LinkSpan, Scanned
  <2>2. links' = links \cup LinksTo(next)
    BY <1>2, <1>6, <2>1, LinksOfSpan DEF LinkSpan, IndexInv, Span
  <2>3. links' = UNION {LinksTo(i) : i \in 1 .. next}
    <3>1. 1 .. next = (1 .. next - 1) \cup {next}
      BY <1>2
    <3> QED
      BY <2>1, <2>2, <3>1
  <2>4. \/ pass' = "links" /\ next' - 1 = next
        \/ pass' = "observe" /\ next = Len(batch)
    BY <1>2, <1>6, <2>1 DEF LinkSpan, Advance
  <2> QED
    BY <1>1, <1>2, <1>3, <2>3, <2>4
<1>7. CASE ObserveSpan
  BY <1>7, <1>1, <1>3 DEF ObserveSpan, Advance, graphVars
<1>8. CASE MergeCalls
  BY <1>8, <1>1, <1>3 DEF MergeCalls, graphVars
<1>9. CASE UNCHANGED vars
  BY <1>9, <1>1, <1>3 DEF vars, graphVars
<1> QED
  BY <1>4, <1>5, <1>6, <1>7, <1>8, <1>9 DEF Next

\* LinksInv holds in every reachable state.
LEMMA LinksAlways == Spec => []LinksInv
<1>1. Init => LinksInv
  BY DEF Init, LinksInv, LinksExact, Linked
<1> QED
  BY <1>1, IndexExact, StepLinks, PTL DEF Spec

\* For any exports in any order: the execution links of Discover are those of
\* the pairs of unambiguous spans, once for every export of the child.
THEOREM LinksAreExact == Spec => []LinksExact
<1>1. LinksInv => LinksExact
  BY DEF LinksInv
<1> QED
  BY <1>1, LinksAlways, PTL
-----------------------------------------------------------------------------
(* The receivers of database calls                                         *)

\* What the conjuncts of TypeOK say beyond IndexInv.
Accumulators ==
  /\ services \subseteq Services \X Positions
  /\ receivers \subseteq Services
  /\ \A x \in links \cup calls : x[2] \in Positions

Guessless ==
  /\ \A x \in databases : ReceiversOf(x[1]) = {}
  /\ \A x \in calls :
       x[1].to \in Services => ReceiversOf(DatabaseNode(batch[x[2]])) = {x[1].to}

ReceiversInv ==
  /\ Accumulators
  /\ pass \in {"index", "services", "links"} => databases = {} /\ calls = {}
  /\ Guessless

\* A receiver is a named service of the window.
LEMMA ReceiversNamed ==
  ASSUME IndexInv
  PROVE  /\ \A c \in index : c.service # None => c.service \in Services
         /\ \A node : ReceiversOf(node) \subseteq Services
         /\ \A k : {c.service : c \in Paired(k)} \subseteq Services
<1>1. \A c \in index : c.service # None => c.service \in Services
  BY BatchesAssumption DEF IndexInv, IndexOf, Scanned, Shape, Positions
<1> QED
  BY <1>1 DEF ReceiversOf, Paired

\* ObserveSpan keeps the receivers those of the spans it has read.
LEMMA StepReceivers == IndexInv /\ ReceiversInv /\ [Next]_vars => ReceiversInv'
<1> SUFFICES ASSUME IndexInv, ReceiversInv, [Next]_vars PROVE ReceiversInv'
  OBVIOUS
<1>1. Shape' /\ batch' = batch /\ Positions' = Positions
  BY StepShape DEF IndexInv, Positions
<1>2. next \in Positions
  BY DEF IndexInv, Shape
<1>3. ASSUME UNCHANGED index
      PROVE  \A node : ReceiversOf(node)' = ReceiversOf(node)
  BY <1>3 DEF ReceiversOf, Paired, Parent, Indexed
<1> USE DEF ReceiversInv, Accumulators
<1>4. CASE IndexSpan
  BY <1>1, <1>4 DEF IndexSpan, Advance, graphVars, dbVars, Guessless
<1>5. CASE CountSpan
  <2>1. Span.service \in Services \cup {None}
    BY <1>2, BatchesAssumption DEF IndexInv, Shape, Positions, Span
  <2> QED
    BY <1>1, <1>2, <1>5, <2>1 DEF CountSpan, Advance, dbVars, Guessless
<1>6. CASE LinkSpan
  BY <1>1, <1>2, <1>6 DEF LinkSpan, Advance, dbVars, Guessless
<1>7. CASE ObserveSpan
  <2>1. /\ pass = "observe" /\ pass' \in {"observe", "merge"}
        /\ UNCHANGED <<index, services, links>>
    BY <1>7 DEF ObserveSpan, Advance, graphVars
  <2>2. CASE Called
    <3> DEFINE node == DatabaseNode(Span)
    <3>1. /\ receivers' = receivers \cup ReceiversOf(node)
          /\ databases' = IF ReceiversOf(node) = {} THEN databases \cup {<<node, next>>}
                          ELSE databases
          /\ calls' = calls \cup {<<Dependency(Span, Target(Span)), next>>}
          /\ \A a, b \in ReceiversOf(node) : a = b
      BY <2>2 DEF Called
    <3>2. node \notin Services
      BY <1>2, NodesAssumption DEF IndexInv, Shape, Positions, Span
    <3>3. Dependency(Span, Target(Span)).to = Target(Span)
      BY DEF Dependency
    <3>4. Target(Span) \in Services => ReceiversOf(node) = {Target(Span)}
      <4>1. CASE ReceiversOf(node) = {}
        BY <4>1, <3>2 DEF Target
      <4>2. CASE ReceiversOf(node) # {}
        BY <4>2, <3>1 DEF Target
      <4> QED
        BY <4>1, <4>2
    <3>5. Accumulators'
      BY <1>1, <1>2, <2>1, <3>1, ReceiversNamed
    <3>6. \A x \in databases' : ReceiversOf(x[1]) = {}
      BY <3>1 DEF Guessless
    <3>7. \A x \in calls' :
            x[1].to \in Services => ReceiversOf(DatabaseNode(batch[x[2]])) = {x[1].to}
      BY <3>1, <3>3, <3>4 DEF Guessless, Span
    <3>8. \A s : DatabaseNode(s)' = DatabaseNode(s)
      BY DEF DatabaseNode
    <3> QED
      BY <1>1, <1>3, <2>1, <3>5, <3>6, <3>7 DEF Guessless
  <2>3. CASE ~Called
    <3>1. UNCHANGED <<databases, calls>>
      BY <1>7, <2>3 DEF ObserveSpan, Unnamed, Doubtful, NoDatabase, Answered, Undecided, dbVars
    <3>2. receivers' \subseteq Services
      BY <1>7, <2>3, ReceiversNamed
      DEF ObserveSpan, Unnamed, Doubtful, NoDatabase, Answered, Undecided, dbVars, Answering
    <3> QED
      BY <1>1, <1>3, <2>1, <3>1, <3>2 DEF Guessless
  <2> QED
    BY <2>2, <2>3
<1>8. CASE MergeCalls
  BY <1>1, <1>3, <1>8 DEF MergeCalls, graphVars, dbVars, Guessless
<1>9. CASE UNCHANGED vars
  BY <1>1, <1>3, <1>9 DEF vars, graphVars, dbVars, Guessless
<1> QED
  BY <1>4, <1>5, <1>6, <1>7, <1>8, <1>9 DEF Next

\* ReceiversInv holds in every reachable state.
LEMMA ReceiversAlways == Spec => []ReceiversInv
<1>1. Init => ReceiversInv
  BY DEF Init, ReceiversInv, Accumulators, Guessless
<1>2. Spec => []IndexInv
  BY IndexExact
<1> QED
  BY <1>1, <1>2, StepReceivers, PTL DEF Spec

\* The type invariant, which also says that the index has one span for an
\* identity and none for one that is given up.
THEOREM TypeCorrect == Spec => []TypeOK
<1>1. ASSUME IndexInv, ReceiversInv PROVE TypeOK
  <2>1. Shape /\ IndexOf(Scanned, index, ambiguous) /\ Scanned \subseteq Positions
    BY <1>1, BatchShape DEF IndexInv, Shape, Scanned
  <2>2. \A s \in index : \E i \in Positions :
          s = batch[i] /\ Identified(s) /\ Key(s) \notin ambiguous
    BY <2>1 DEF IndexOf
  <2>3. \A s, t \in index : Key(s) = Key(t) => s = t
    BY <2>1 DEF IndexOf
  <2> QED
    BY <1>1, <2>1, <2>2, <2>3 DEF Shape, ReceiversInv, Accumulators, TypeOK
<1> QED
  BY <1>1, IndexExact, ReceiversAlways, PTL

\* No order of the exports makes enrichObservations join a caller to one of
\* several receivers, or give a database that was answered for a second node.
THEOREM NothingGuessed == Spec => []NeverGuesses
<1>1. ReceiversInv => NeverGuesses
  BY DEF ReceiversInv, Guessless, NeverGuesses
<1> QED
  BY <1>1, ReceiversAlways, PTL
-----------------------------------------------------------------------------
(* Warnings and aliases.  Both only grow, so that it is enough to look at  *)
(* the step at which the loop of enrichObservations is at the span.        *)

\* What Disclosed and CallsKept say of the span at i.
Told(i) ==
  LET s == batch[i] IN
  s.service # None =>
    \/ i \in Exports(Key(s)) /\ Consistent(Key(s)) /\ Consistent(ParentKey(s))
    \/ \E t \in {"attribute_conflict", "conflicting_span_identity",
                  "conflicting_parent_identity", "context_identity_incomplete"} :
         <<s.service, t>> \in warnings

Kept(i) ==
  LET s == batch[i] IN
  (s.service # None /\ ~s.conflict /\ Consistent(Key(s)) /\ IsDatabaseCall(s)) =>
    \/ <<s.service, s.db>> \in aliases
    \/ \E e \in LinkEdges \cup CallEdges : e.from = s.service /\ <<e, s.db>> \in aliases

ObservedInv ==
  /\ pass = "observe" => \A i \in 1 .. next - 1 : Told(i) /\ Kept(i)
  /\ Observed => \A i \in Positions : Told(i) /\ Kept(i)

\* Once the index is complete the identities given up are the inconsistent ones.
LEMMA GivenUp ==
  ASSUME IndexOf(Positions, index, ambiguous)
  PROVE  \A k : k \in ambiguous <=> ~Consistent(k)
<1>1. \A k : ExportsIn(Positions, k) = Exports(k)
  BY DEF ExportsIn, Exports
<1> QED
  BY <1>1 DEF IndexOf, Agree, Consistent

\* A span that is in no link for its identity's sake is warned about.
LEMMA TellsSpan ==
  ASSUME IndexOf(Positions, index, ambiguous), batch' = batch,
         NEW n \in Positions, n = next,
         Unnamed \/ Doubtful \/ NoDatabase \/ Answered \/ Undecided \/ Called
  PROVE  Told(n)'
<1> SUFFICES ASSUME Span.service # None
             PROVE  \/ /\ next \in Exports(Key(Span))
                       /\ Consistent(Key(Span)) /\ Consistent(ParentKey(Span))
                    \/ \E t \in {"attribute_conflict", "conflicting_span_identity",
                                  "conflicting_parent_identity", "context_identity_incomplete"} :
                         <<Span.service, t>> \in warnings'
  BY DEF Told, Span, Exports, Consistent, Positions
<1>1. CASE Doubtful
  BY <1>1 DEF Doubtful, Warn
<1>2. CASE ~Doubtful
  <2>1. /\ Sound(Span)
        /\ \A t \in IdentityWarnings(Span) : <<Span.service, t>> \in warnings'
    BY <1>2 DEF Unnamed, NoDatabase, Answered, Undecided, Called, Warn
  <2>2. CASE ParentKey(Span) \in ambiguous \/ Indexed(Key(Span)) = {}
    BY <2>1, <2>2 DEF IdentityWarnings
  <2>3. CASE ParentKey(Span) \notin ambiguous /\ Indexed(Key(Span)) # {}
    <3>1. Consistent(ParentKey(Span)) /\ Consistent(Key(Span))
      BY <2>1, <2>3, GivenUp DEF Sound
    <3>2. PICK j \in Exports(Key(Span)) : TRUE
      BY <2>3, IndexedKey
    <3>3. next \in Exports(Key(Span))
      BY <3>2 DEF Exports, Identified, Key, Span
    <3> QED
      BY <3>1, <3>3
  <2> QED
    BY <2>2, <2>3
<1> QED
  BY <1>1, <1>2

\* An answered call has a link to its receiver: the receiver is in the index,
\* and the export of the call that the loop is at is as good as the one there.
LEMMA AnsweredLinked ==
  ASSUME IndexOf(Positions, index, ambiguous), links = UNION {LinksTo(i) : i \in Positions},
         NEW n \in Positions, batch[n].service # None, NEW c \in Paired(Key(batch[n]))
  PROVE  Link(batch[n], c) \in LinkEdges
<1> DEFINE s == batch[n]
<1>1. PICK p \in Parent(c) : Key(p) = Key(s) /\ p.service # c.service
  BY DEF Paired
<1>2. c \in index /\ c.service # None /\ p \in Indexed(ParentKey(c))
  BY <1>1 DEF Paired, Parent
<1>3. c \in Indexed(Key(c)) /\ p \in Indexed(Key(p))
  BY <1>2 DEF Indexed
<1>4. PICK i \in Exports(Key(c)) : c = batch[i]
  BY <1>3, IndexedKey
<1>5. Consistent(Key(c)) /\ Consistent(Key(p))
  BY <1>3, IndexedKey
<1>6. PICK j \in Exports(Key(p)) : p = batch[j]
  BY <1>3, IndexedKey
<1>7. n \in Exports(Key(p)) /\ Key(p) = ParentKey(c)
  BY <1>1, <1>2, <1>6 DEF Exports, Identified, Key, Indexed
<1>8. Signature(p) = Signature(s)
  BY <1>3, <1>7, IndexedKey
<1>9. p.service = s.service
  BY <1>8, LinkOfSignature
<1>10. Calls(n, i) /\ i \in Positions
  BY <1>1, <1>2, <1>4, <1>5, <1>7, <1>9 DEF Calls, Exports
<1>11. <<Link(s, c), i>> \in LinksTo(i)
  BY <1>4, <1>10 DEF LinksTo
<1>12. <<Link(s, c), i>> \in links
  BY <1>10, <1>11
<1> QED
  BY <1>12 DEF LinkEdges

\* The database of an undoubtful call becomes an alias of an edge or a service.
LEMMA KeepsCall ==
  ASSUME IndexOf(Positions, index, ambiguous), links = UNION {LinksTo(i) : i \in Positions},
         batch' = batch, links' = links, NEW n \in Positions, n = next,
         Unnamed \/ Doubtful \/ NoDatabase \/ Answered \/ Undecided \/ Called
  PROVE  Kept(n)'
<1> SUFFICES ASSUME Span.service # None, ~Span.conflict, Consistent(Key(Span)),
                    IsDatabaseCall(Span)
             PROVE  \/ <<Span.service, Span.db>> \in aliases'
                    \/ \E e \in LinkEdges \cup CallEdges' :
                         e.from = Span.service /\ <<e, Span.db>> \in aliases'
  BY DEF Kept, Span, Exports, Consistent, Positions, LinkEdges
<1>1. Key(Span) \notin ambiguous
  BY GivenUp
<1>2. Answered \/ Undecided \/ Called
  BY <1>1 DEF Unnamed, Doubtful, NoDatabase
<1>3. CASE Answered
  <2>1. PICK c : c \in Paired(Key(Span))
    BY <1>3 DEF Answered
  <2>2. Link(Span, c) \in LinkEdges
    BY <2>1, AnsweredLinked DEF Span
  <2>3. <<Link(Span, c), Span.db>> \in aliases'
    BY <1>3, <2>1, <2>2 DEF Answered, Answering
  <2>4. Link(Span, c).from = Span.service
    BY DEF Link
  <2> QED
    BY <2>2, <2>3, <2>4
<1>4. CASE Undecided
  BY <1>4 DEF Undecided
<1>5. CASE Called
  <2> DEFINE edge == Dependency(Span, Target(Span))
  <2>1. <<edge, next>> \in calls' /\ <<edge, Span.db>> \in aliases'
    BY <1>5 DEF Called
  <2>2. edge \in CallEdges'
    BY <2>1 DEF CallEdges
  <2>3. edge.from = Span.service
    BY DEF Dependency
  <2> QED
    BY <2>1, <2>2, <2>3
<1> QED
  BY <1>2, <1>3, <1>4, <1>5

\* What has been said of a span stays said.
LEMMA SaidStays ==
  ASSUME batch' = batch, links' = links, calls \subseteq calls',
         warnings \subseteq warnings', aliases \subseteq aliases', NEW i
  PROVE  /\ Told(i) => Told(i)'
         /\ Kept(i) => Kept(i)'
<1>1. Told(i) => Told(i)'
  BY DEF Told, Exports, Consistent, Positions
<1>2. LinkEdges' = LinkEdges /\ CallEdges \subseteq CallEdges'
  BY DEF LinkEdges, CallEdges
<1>3. Kept(i) => Kept(i)'
  BY <1>2 DEF Kept, Exports, Consistent, Positions
<1> QED
  BY <1>1, <1>3

\* ObserveSpan says what there is to say of one span; no other pass unsays it.
LEMMA StepObserved == IndexInv /\ LinksInv /\ ObservedInv /\ [Next]_vars => ObservedInv'
<1> SUFFICES ASSUME IndexInv, LinksInv, ObservedInv, [Next]_vars PROVE ObservedInv'
  OBVIOUS
<1>1. Shape' /\ batch' = batch /\ Positions' = Positions
  BY StepShape DEF IndexInv, Positions
<1>2. Len(batch) \in Nat \ {0} /\ Positions = 1 .. Len(batch) /\ next \in Positions
  BY BatchShape DEF IndexInv, Shape
<1>3. CASE IndexSpan
  BY <1>3 DEF IndexSpan, Advance, ObservedInv, Observed
<1>4. CASE CountSpan
  BY <1>4 DEF CountSpan, Advance, ObservedInv, Observed
<1>5. CASE LinkSpan
  BY <1>5 DEF LinkSpan, Advance, ObservedInv, Observed
<1>6. CASE ObserveSpan
  <2>1. /\ pass = "observe" /\ UNCHANGED links /\ Advance("merge")
        /\ Unnamed \/ Doubtful \/ NoDatabase \/ Answered \/ Undecided \/ Called
    BY <1>6 DEF ObserveSpan, graphVars
  <2>2. IndexOf(Positions, index, ambiguous) /\ links = UNION {LinksTo(i) : i \in Positions}
    BY <2>1 DEF IndexInv, Scanned, LinksInv, LinksExact, Linked
  <2>3. calls \subseteq calls' /\ warnings \subseteq warnings' /\ aliases \subseteq aliases'
    BY <2>1 DEF Unnamed, Doubtful, NoDatabase, Answered, Undecided, Called, Warn, dbVars
  <2>4. ASSUME NEW i \in Positions, i < next PROVE Told(i)' /\ Kept(i)'
    <3>1. Told(i) /\ Kept(i)
      BY <1>2, <2>1, <2>4 DEF ObservedInv
    <3> QED
      BY <1>1, <2>1, <2>3, <3>1, SaidStays
  <2>5. ASSUME NEW i \in Positions, i = next PROVE Told(i)' /\ Kept(i)'
    BY <1>1, <2>1, <2>2, <2>5, TellsSpan, KeepsCall
  <2>6. \A i \in 1 .. next : Told(i)' /\ Kept(i)'
    BY <1>2, <2>4, <2>5
  <2>7. \/ pass' = "observe" /\ next' = next + 1
        \/ pass' = "merge" /\ next = Len(batch)
    BY <1>2, <2>1 DEF Advance
  <2> QED
    BY <1>1, <1>2, <2>6, <2>7 DEF ObservedInv, Observed
<1>7. ASSUME MergeCalls \/ UNCHANGED vars PROVE ObservedInv'
  <2>1. /\ UNCHANGED <<batch, next, links, calls, warnings, aliases>>
        /\ Observed' => Observed
        /\ pass' = "observe" => pass = "observe"
    BY <1>7 DEF MergeCalls, vars, graphVars, dbVars, Observed
  <2>2. \A i : (Told(i) => Told(i)') /\ (Kept(i) => Kept(i)')
    BY <2>1, SaidStays
  <2> QED
    BY <1>1, <2>1, <2>2 DEF ObservedInv
<1> QED
  BY <1>3, <1>4, <1>5, <1>6, <1>7 DEF Next

\* ObservedInv holds in every reachable state.
LEMMA ObservedAlways == Spec => []ObservedInv
<1>1. Init => ObservedInv
  BY DEF Init, ObservedInv, Observed
<1> QED
  BY <1>1, IndexExact, LinksAlways, StepObserved, PTL DEF Spec

\* A named span that can stand in no execution link, because of its identity
\* or that of its parent, leaves a warning at its service.
THEOREM DoubtsAreDisclosed == Spec => []Disclosed
<1>1. ObservedInv => Disclosed
  BY DEF ObservedInv, Disclosed, Told
<1> QED
  BY <1>1, ObservedAlways, PTL

\* No database call of an undoubtful client is lost, in whatever order the
\* exports of the client and of its receivers were appended.
THEOREM CallsAreKept == Spec => []CallsKept
<1>1. ObservedInv => CallsKept
  BY DEF ObservedInv, CallsKept, Kept
<1> QED
  BY <1>1, ObservedAlways, PTL
-----------------------------------------------------------------------------
(* The evidence of links                                                   *)

\* The export in the index is the first of its identity in canonical order.
CanonicalInv ==
  \A t \in index : \A i \in ExportsIn(Scanned, Key(t)) : t.source <= batch[i].source

\* The spans in S have cited the sources of their links, and nothing else is
\* cited but by a dependency on a database.
CitedBy(S) ==
  /\ \A i \in S : batch[i].service # None => LinkSources(batch[i]) \subseteq cited
  /\ \A y \in cited :
       \/ y[1] \in CallEdges
       \/ \E i \in S : batch[i].service # None /\ y \in LinkSources(batch[i])

CitedInv ==
  /\ pass \in {"index", "services", "links"} => cited = {}
  /\ pass = "observe" => CitedBy(1 .. next - 1)
  /\ Observed => CitedBy(Positions)
  /\ pass = "done" => CallEdges \cap LinkEdges = {}

\* Keep replaces the export in the index by one that comes before it.
LEMMA StepCanonical == IndexInv /\ CanonicalInv /\ [Next]_vars => CanonicalInv'
<1> SUFFICES ASSUME IndexInv, CanonicalInv, [Next]_vars PROVE CanonicalInv'
  OBVIOUS
<1>1. Shape' /\ batch' = batch /\ Positions' = Positions
  BY StepShape DEF IndexInv, Positions
<1>2. Len(batch) \in Nat \ {0} /\ Positions = 1 .. Len(batch) /\ next \in Positions
  BY BatchShape DEF IndexInv, Shape
<1>3. CASE IndexSpan
  <2>1. pass = "index" /\ (PassOver \/ GiveUp \/ Keep) /\ Advance("services")
    BY <1>3 DEF IndexSpan
  <2>2. Scanned' = Scanned \cup {next} /\ next \notin Scanned /\ Scanned \subseteq Positions
    BY <1>2, <2>1 DEF Scanned, Advance, Positions
  <2>3. \A i \in Positions : batch[i].source \in Int
    BY BatchesAssumption DEF IndexInv, Shape, Positions
  <2>4. SUFFICES ASSUME NEW t \in index', NEW i \in Scanned \cup {next},
                        Identified(batch[i]), Key(batch[i]) = Key(t)
                 PROVE  t.source <= batch[i].source
    BY <1>1, <2>2 DEF CanonicalInv, ExportsIn
  <2>5. CASE t \in index /\ i \in Scanned
    BY <2>4, <2>5 DEF CanonicalInv, ExportsIn
  <2>6. CASE t \in index /\ i = next
    <3>1. Identified(Span) /\ t \in Indexed(Key(Span)) /\ Key(Span) \notin ambiguous
      BY <2>4, <2>6 DEF Indexed, Span, IndexInv, IndexOf
    <3>2. Keep
      BY <2>1, <2>4, <3>1 DEF PassOver, GiveUp
    <3>3. CASE t = Span
      BY <1>2, <2>3, <2>6, <3>3 DEF Span
    <3>4. CASE t # Span
      <4>1. ~Replaces(Span)
        BY <3>1, <3>2, <3>4, <2>4 DEF Keep
      <4>2. PICK u \in Indexed(Key(Span)) : ~(Span.source < u.source)
        BY <4>1 DEF Replaces, Precedes
      <4>3. u = t
        BY <3>1, <4>2 DEF Indexed, IndexInv, IndexOf
      <4>4. t.source \in Int /\ Span.source \in Int
        BY <1>2, <2>2, <2>3, <2>6 DEF IndexInv, IndexOf, Span
      <4> QED
        BY <2>6, <4>2, <4>3, <4>4 DEF Span
    <3> QED
      BY <3>3, <3>4
  <2>7. CASE t \notin index
    <3>1. Keep /\ t = Span /\ Replaces(Span)
      BY <2>1, <2>4, <2>7 DEF PassOver, GiveUp, Keep
    <3>2. CASE i = next
      BY <1>2, <2>3, <3>1, <3>2 DEF Span
    <3>3. CASE i \in Scanned
      <4>1. Key(batch[i]) \notin ambiguous
        BY <2>4, <3>1 DEF Keep
      <4>2. PICK u \in index : Key(u) = Key(batch[i])
        BY <2>4, <3>3, <4>1 DEF IndexInv, IndexOf
      <4>3. u.source <= batch[i].source
        BY <2>4, <3>3, <4>2 DEF CanonicalInv, ExportsIn
      <4>4. Span.source < u.source
        BY <2>4, <3>1, <4>2 DEF Replaces, Precedes, Indexed
      <4>5. u.source \in Int /\ Span.source \in Int /\ batch[i].source \in Int
        BY <1>2, <2>2, <2>3, <3>3, <4>2 DEF IndexInv, IndexOf, Span
      <4> QED
        BY <3>1, <4>3, <4>4, <4>5
    <3> QED
      BY <2>4, <3>2, <3>3
  <2> QED
    BY <2>4, <2>5, <2>6, <2>7
<1>4. CASE ~IndexSpan
  <2>1. /\ index' = index
        /\ (pass' = "index" <=> pass = "index") /\ (pass = "index" => next' = next)
    BY <1>1, <1>2, <1>4 DEF Next, vars, CountSpan, LinkSpan, ObserveSpan, MergeCalls, Advance
  <2>2. Scanned' = Scanned
    BY <1>1, <2>1 DEF Scanned, Positions
  <2> QED
    BY <1>1, <2>1, <2>2 DEF CanonicalInv, ExportsIn
<1> QED
  BY <1>3, <1>4

\* A span with a caller in the index is not doubtful.
LEMMA CallersSound ==
  ASSUME IndexOf(Positions, index, ambiguous), NEW n \in Positions,
         NEW p \in Callers(batch[n])
  PROVE  ~batch[n].conflict /\ Key(batch[n]) \notin ambiguous
<1> DEFINE k == Key(batch[n])
<1>1. PICK t : t \in Indexed(k)
  BY DEF Callers
<1>2. Consistent(k) /\ \E j \in Exports(k) : TRUE
  BY <1>1, IndexedKey
<1>3. n \in Exports(k)
  BY <1>2 DEF Exports, Identified, Key
<1> QED
  BY <1>2, <1>3, GivenUp DEF Consistent

\* A step of the loop cites the sources of the links of one span, and those of
\* a dependency that it makes.
LEMMA CitesSpan ==
  ASSUME IndexOf(Positions, index, ambiguous), NEW n \in Positions, n = next,
         Unnamed \/ Doubtful \/ NoDatabase \/ Answered \/ Undecided \/ Called
  PROVE  /\ cited \subseteq cited' /\ calls \subseteq calls'
         /\ batch[n].service # None => LinkSources(batch[n]) \subseteq cited'
         /\ \A y \in cited' : \/ y \in cited \/ y[1] \in CallEdges'
                              \/ batch[n].service # None /\ y \in LinkSources(batch[n])
<1>1. CASE Unnamed
  BY <1>1 DEF Unnamed, dbVars, Span
<1>2. CASE Doubtful
  <2>1. UNCHANGED <<cited, calls>> /\ (Span.conflict \/ Key(Span) \in ambiguous)
    BY <1>2 DEF Doubtful
  <2>2. \A p : p \notin Callers(batch[n])
    BY <2>1, CallersSound DEF Span
  <2>3. LinkSources(batch[n]) = {}
    BY <2>2 DEF LinkSources
  <2> QED
    BY <2>1, <2>3
<1>3. CASE NoDatabase \/ Answered \/ Undecided
  BY <1>3 DEF NoDatabase, Answered, Undecided, Sound, Span
<1>4. CASE Called
  <2> DEFINE edge == Dependency(Span, Target(Span))
  <2>1. /\ Span.service # None /\ calls' = calls \cup {<<edge, next>>}
        /\ cited' = cited \cup LinkSources(Span) \cup {<<edge, Span.source>>}
    BY <1>4 DEF Called, Sound
  <2> HIDE DEF edge
  <2>2. <<edge, next>>[1] = edge /\ <<edge, next>> \in calls'
    BY <2>1
  <2>3. edge \in CallEdges'
    BY <2>2 DEF CallEdges
  <2> QED
    BY <2>1, <2>3 DEF Span
<1> QED
  BY <1>1, <1>2, <1>3, <1>4

\* What is read of the index and of the graph does not change while they do not.
LEMMA CitedStays ==
  ASSUME UNCHANGED <<batch, index, cited, calls>>, NEW S, CitedBy(S)
  PROVE  CitedBy(S)'
BY DEF CitedBy, LinkSources, Callers, Parent, Indexed, CallEdges

\* ObserveSpan cites for one span, and MergeCalls fails when a dependency has
\* the identity of a link.
LEMMA StepCited == IndexInv /\ CitedInv /\ [Next]_vars => CitedInv'
<1> SUFFICES ASSUME IndexInv, CitedInv, [Next]_vars PROVE CitedInv'
  OBVIOUS
<1>1. Shape' /\ batch' = batch /\ Positions' = Positions
  BY StepShape DEF IndexInv, Positions
<1>2. Len(batch) \in Nat \ {0} /\ Positions = 1 .. Len(batch) /\ next \in Positions
  BY BatchShape DEF IndexInv, Shape
<1>3. CASE IndexSpan
  BY <1>3 DEF IndexSpan, Advance, dbVars, CitedInv, Observed
<1>4. CASE CountSpan
  BY <1>4 DEF CountSpan, Advance, dbVars, CitedInv, Observed
<1>5. CASE LinkSpan
  <2>1. /\ cited' = {}
        /\ \/ pass' = "links"
           \/ pass' = "observe" /\ next' = 1
    BY <1>5 DEF LinkSpan, Advance, dbVars, CitedInv
  <2> QED
    BY <2>1 DEF CitedInv, CitedBy, Observed
<1>6. CASE ObserveSpan
  <2>1. /\ pass = "observe" /\ UNCHANGED <<index, links>> /\ Advance("merge")
        /\ Unnamed \/ Doubtful \/ NoDatabase \/ Answered \/ Undecided \/ Called
    BY <1>6 DEF ObserveSpan, graphVars
  <2>2. IndexOf(Positions, index, ambiguous)
    BY <2>1 DEF IndexInv, Scanned
  <2>3. \A i : (batch[i].service # None)' = (batch[i].service # None)
               /\ LinkSources(batch[i])' = LinkSources(batch[i])
    BY <1>1, <2>1 DEF LinkSources, Callers, Parent, Indexed
  <2>4. CitedBy(1 .. next - 1)
    BY <2>1 DEF CitedInv
  <2>5. ASSUME NEW n, n = next
        PROVE  /\ cited \subseteq cited' /\ calls \subseteq calls'
               /\ batch[n].service # None => LinkSources(batch[n]) \subseteq cited'
               /\ \A y \in cited' : \/ y \in cited \/ y[1] \in CallEdges'
                                    \/ batch[n].service # None /\ y \in LinkSources(batch[n])
    BY <1>2, <2>1, <2>2, <2>5, CitesSpan
  <2>6. CallEdges \subseteq CallEdges'
    BY <2>5 DEF CallEdges
  <2>7. 1 .. next = (1 .. next - 1) \cup {next}
    BY <1>2
  <2>8. ASSUME NEW S, S = 1 .. next PROVE CitedBy(S)'
    <3>1. \A i \in S : batch[i].service # None => LinkSources(batch[i]) \subseteq cited'
      BY <2>4, <2>5, <2>7, <2>8 DEF CitedBy
    <3>2. ASSUME NEW y \in cited'
          PROVE  \/ y[1] \in CallEdges'
                 \/ \E i \in S : batch[i].service # None /\ y \in LinkSources(batch[i])
      <4>1. CASE y \in cited
        BY <2>4, <2>6, <2>7, <2>8, <4>1 DEF CitedBy
      <4>2. CASE y \notin cited
        BY <2>5, <2>7, <2>8, <3>2, <4>2
      <4> QED
        BY <4>1, <4>2
    <3> QED
      BY <1>1, <2>3, <3>1, <3>2 DEF CitedBy
  <2>9. \/ pass' = "observe" /\ 1 .. next' - 1 = 1 .. next
        \/ pass' = "merge" /\ Positions' = 1 .. next
    BY <1>1, <1>2, <2>1 DEF Advance
  <2> QED
    BY <2>8, <2>9 DEF CitedInv, Observed
<1>7. CASE MergeCalls
  <2>1. /\ UNCHANGED <<batch, index, cited, calls, links>>
        /\ pass = "merge" /\ pass' = IF CallEdges \cap LinkEdges # {} THEN "failed" ELSE "done"
    BY <1>7 DEF MergeCalls, graphVars, dbVars
  <2>2. CitedBy(Positions)'
    BY <1>1, <2>1, CitedStays DEF CitedInv, Observed
  <2>3. CallEdges' = CallEdges /\ LinkEdges' = LinkEdges
    BY <2>1 DEF CallEdges, LinkEdges
  <2> QED
    BY <1>1, <2>1, <2>2, <2>3 DEF CitedInv, Observed
<1>8. CASE UNCHANGED vars
  BY <1>8 DEF vars, graphVars, dbVars, CitedInv, CitedBy, LinkSources, Callers, Parent, Indexed,
     CallEdges, LinkEdges, Observed, Positions
<1> QED
  BY <1>3, <1>4, <1>5, <1>6, <1>7, <1>8 DEF Next

\* CanonicalInv and CitedInv hold in every reachable state.
LEMMA CitedAlways == Spec => [](CanonicalInv /\ CitedInv)
<1>1. Init => CanonicalInv /\ CitedInv
  BY DEF Init, CanonicalInv, CitedInv, Observed
<1> QED
  BY <1>1, IndexExact, StepCanonical, StepCited, PTL DEF Spec

\* The sources that the export at i cites for one of its links: its own, and
\* that of the first export, in canonical order, of its parent.
LEMMA SourcesOfSpan ==
  ASSUME IndexOf(Positions, index, ambiguous), CanonicalInv, Scanned = Positions,
         batch \in Batches, NEW n \in Positions, NEW p \in Callers(batch[n])
  PROVE  {p.source, batch[n].source} = {batch[n].source} \cup
           {batch[j].source : j \in {k \in Exports(ParentKey(batch[n])) :
              \A m \in Exports(ParentKey(batch[n])) : batch[k].source <= batch[m].source}}
<1> DEFINE X == Exports(ParentKey(batch[n]))
<1>1. p \in index /\ Key(p) = ParentKey(batch[n]) /\ p \in Indexed(ParentKey(batch[n]))
  BY DEF Callers, Parent, Indexed
<1>2. PICK j \in X : p = batch[j]
  BY <1>1, IndexedKey
<1>3. ExportsIn(Scanned, Key(p)) = X
  BY <1>1 DEF ExportsIn, Exports
<1>4. \A m \in X : p.source <= batch[m].source
  BY <1>1, <1>3 DEF CanonicalInv
<1>5. \A m \in X : batch[m].source \in Int
  BY BatchesAssumption DEF Positions, Exports
<1>6. \A k \in X : (\A m \in X : batch[k].source <= batch[m].source) => batch[k].source = p.source
  BY <1>2, <1>4, <1>5
<1> QED
  BY <1>2, <1>4, <1>6

\* In whatever order exports were appended, the evidence of a link cites the
\* source of each child and the first source of its parent, and no other.
THEOREM EvidenceIsExact == Spec => []SourcesExact
<1>1. ASSUME IndexInv, LinksInv, CanonicalInv, CitedInv, pass = "done", NEW e \in LinkEdges
      PROVE  {x[2] : x \in {y \in cited : y[1] = e}} =
               UNION {{batch[i].source} \cup
                      {batch[j].source : j \in {k \in Exports(ParentKey(batch[i])) :
                         \A m \in Exports(ParentKey(batch[i])) : batch[k].source <= batch[m].source}} :
                      i \in {k \in Positions : <<e, k>> \in links}}
  <2> DEFINE Of(i) == {batch[i].source} \cup
                      {batch[j].source : j \in {k \in Exports(ParentKey(batch[i])) :
                         \A m \in Exports(ParentKey(batch[i])) : batch[k].source <= batch[m].source}}
  <2>1. /\ IndexOf(Positions, index, ambiguous) /\ Scanned = Positions /\ batch \in Batches
        /\ links = UNION {LinksTo(i) : i \in Positions}
        /\ CitedBy(Positions) /\ e \notin CallEdges
    BY <1>1 DEF IndexInv, Shape, Scanned, LinksInv, LinksExact, Linked, CitedInv, Observed
  <2>2. ASSUME NEW i \in Positions
        PROVE  <<e, i>> \in links <=>
                 \E p \in Callers(batch[i]) : batch[i].service # None /\ e = Link(p, batch[i])
    <3>1. LinksTo(i) = {<<Link(p, batch[i]), i>> :
                          p \in {q \in Callers(batch[i]) : batch[i].service # None}}
      BY <2>1, LinksOfSpan
    <3>2. \A j \in Positions : <<e, i>> \in LinksTo(j) => j = i
      BY DEF LinksTo
    <3>3. <<e, i>> \in links <=> <<e, i>> \in LinksTo(i)
      BY <2>1, <3>2
    <3> QED
      BY <3>1, <3>3
  <2>3. ASSUME NEW i \in Positions, NEW p \in Callers(batch[i])
        PROVE  {p.source, batch[i].source} = Of(i)
    BY <1>1, <2>1, SourcesOfSpan
  <2> HIDE DEF Of
  <2>4. ASSUME NEW y \in cited, y[1] = e
        PROVE  \E i \in Positions : <<e, i>> \in links /\ y[2] \in Of(i)
    <3>1. PICK i \in Positions : batch[i].service # None /\ y \in LinkSources(batch[i])
      BY <2>1, <2>4 DEF CitedBy
    <3>2. PICK p \in Callers(batch[i]) : y \in {Link(p, batch[i])} \X {p.source, batch[i].source}
      BY <3>1 DEF LinkSources
    <3>3. e = Link(p, batch[i]) /\ y[2] \in {p.source, batch[i].source}
      BY <2>4, <3>2
    <3> QED
      BY <2>2, <2>3, <3>1, <3>3
  <2>5. ASSUME NEW i \in Positions, <<e, i>> \in links, NEW v \in Of(i)
        PROVE  <<e, v>> \in cited
    <3>1. PICK p \in Callers(batch[i]) : batch[i].service # None /\ e = Link(p, batch[i])
      BY <2>2, <2>5
    <3>2. v \in {p.source, batch[i].source}
      BY <2>3
    <3>3. <<e, v>> \in {Link(p, batch[i])} \X {p.source, batch[i].source}
      BY <3>1, <3>2
    <3>4. <<e, v>> \in LinkSources(batch[i])
      BY <3>3 DEF LinkSources
    <3> QED
      BY <2>1, <3>1, <3>4 DEF CitedBy
  <2>6. {x[2] : x \in {y \in cited : y[1] = e}} =
          UNION {Of(i) : i \in {k \in Positions : <<e, k>> \in links}}
    <3>1. ASSUME NEW v \in {x[2] : x \in {y \in cited : y[1] = e}}
          PROVE  \E i \in Positions : <<e, i>> \in links /\ v \in Of(i)
      BY <2>4
    <3>2. ASSUME NEW i \in Positions, <<e, i>> \in links, NEW v \in Of(i)
          PROVE  v \in {x[2] : x \in {y \in cited : y[1] = e}}
      <4>1. <<e, v>> \in cited
        BY <2>5, <3>2
      <4>2. <<e, v>>[1] = e /\ <<e, v>>[2] = v
        OBVIOUS
      <4> QED
        BY <4>1, <4>2
    <3> QED
      BY <3>1, <3>2
  <2> QED
    BY <2>6 DEF Of
<1>2. IndexInv /\ LinksInv /\ CanonicalInv /\ CitedInv => SourcesExact
  BY <1>1 DEF SourcesExact
<1> QED
  BY <1>2, IndexExact, LinksAlways, CitedAlways, PTL
-----------------------------------------------------------------------------
(* The graph: every edge has its two nodes.                                *)

\* Some span of the window is of the service n.
Named(n) == n # None /\ \E i \in Positions : batch[i].service = n

Counted(S) ==
  \A i \in S : batch[i].service # None => <<batch[i].service, i>> \in services

GraphInv ==
  /\ pass = "services" => Counted(1 .. next - 1)
  /\ pass \in {"links", "observe", "merge", "done"} => Counted(Positions)
  /\ \A x \in databases : x[1].kind = "database" /\ \E y \in calls : y[1].to = x[1]
  /\ \A x \in calls : Named(x[1].from) /\ (Named(x[1].to) \/ \E y \in databases : y[1] = x[1].to)

PeerInv ==
  /\ step \in Nat \ {0}
  /\ \A x \in peers : \E y \in dependencies : y[1].to = x[1]
  /\ \A x \in dependencies : Named(x[1].from) /\ (Named(x[1].to) \/ \E y \in peers : y[1] = x[1].to)

\* CountSpan counts every named span, and Called makes a node for a dependency
\* unless somebody was seen to answer.
LEMMA StepGraph == IndexInv /\ GraphInv /\ [Next]_vars => GraphInv'
<1> SUFFICES ASSUME IndexInv, GraphInv, [Next]_vars PROVE GraphInv'
  OBVIOUS
<1>1. Shape' /\ batch' = batch /\ Positions' = Positions /\ \A n : Named(n)' = Named(n)
  BY StepShape DEF IndexInv, Positions, Named
<1>2. Len(batch) \in Nat \ {0} /\ Positions = 1 .. Len(batch) /\ next \in Positions
  BY BatchShape DEF IndexInv, Shape
<1>3. CASE IndexSpan
  <2>1. UNCHANGED <<databases, calls>> /\ Advance("services")
    BY <1>3 DEF IndexSpan, dbVars
  <2>2. \/ pass' = "index"
        \/ pass' = "services" /\ next' = 1
    BY <1>3, <2>1 DEF IndexSpan, Advance
  <2> QED
    BY <1>1, <2>1, <2>2 DEF GraphInv, Counted
<1>4. CASE CountSpan
  <2>1. /\ pass = "services" /\ UNCHANGED <<databases, calls>>
        /\ services \subseteq services'
        /\ Span.service # None => <<Span.service, next>> \in services'
    BY <1>4 DEF CountSpan, dbVars
  <2>2. Counted(1 .. next - 1)
    BY <2>1 DEF GraphInv
  <2>3. ASSUME NEW S, S = 1 .. next PROVE Counted(S)'
    <3>1. \A i \in S : i \in 1 .. next - 1 \/ i = next
      BY <1>2, <2>3
    <3> QED
      BY <1>1, <2>1, <2>2, <3>1 DEF Counted, Span
  <2>4. \/ pass' = "services" /\ 1 .. next' - 1 = 1 .. next
        \/ pass' = "failed"
        \/ pass' = "links" /\ Positions' = 1 .. next
    BY <1>1, <1>2, <1>4 DEF CountSpan, Advance
  <2> QED
    BY <1>1, <2>1, <2>3, <2>4 DEF GraphInv
<1>5. ASSUME ObserveSpan /\ Called PROVE GraphInv'
  <2> DEFINE node == DatabaseNode(Span)
             edge == Dependency(Span, Target(Span))
  <2>1. /\ pass = "observe" /\ pass' \in {"observe", "merge"}
        /\ UNCHANGED services
    BY <1>5 DEF ObserveSpan, Advance, graphVars
  <2>2. /\ calls' = calls \cup {<<edge, next>>}
        /\ databases' = IF ReceiversOf(node) = {} THEN databases \cup {<<node, next>>}
                        ELSE databases
        /\ Span.service # None
    BY <1>5 DEF Called, Sound
  <2>3. edge.from = Span.service /\ edge.to = Target(Span) /\ node.kind = "database"
    BY DEF Dependency, DatabaseNode
  <2>4. Named(Span.service)
    BY <1>2, <2>2 DEF Named, Span
  <2>5. CASE ReceiversOf(node) = {}
    <3>1. Target(Span) = node
      BY <2>5 DEF Target
    <3>2. <<node, next>> \in databases' /\ <<edge, next>> \in calls'
      BY <2>2, <2>5
    <3> HIDE DEF node, edge
    <3>3. ASSUME NEW x \in databases'
          PROVE  x[1].kind = "database" /\ \E y \in calls' : y[1].to = x[1]
      <4>1. CASE x \in databases
        BY <2>2, <4>1 DEF GraphInv
      <4>2. CASE x = <<node, next>>
        <5>1. x[1] = node /\ <<edge, next>>[1] = edge
          BY <4>2
        <5> QED
          BY <2>3, <3>1, <3>2, <5>1
      <4> QED
        BY <2>2, <2>5, <4>1, <4>2
    <3>4. ASSUME NEW x \in calls'
          PROVE  Named(x[1].from) /\ (Named(x[1].to) \/ \E y \in databases' : y[1] = x[1].to)
      <4>1. CASE x \in calls
        BY <2>2, <2>5, <4>1 DEF GraphInv
      <4>2. CASE x = <<edge, next>>
        <5>1. x[1] = edge /\ <<node, next>>[1] = node
          BY <4>2
        <5> QED
          BY <2>3, <2>4, <3>1, <3>2, <5>1
      <4> QED
        BY <2>2, <4>1, <4>2
    <3> QED
      BY <1>1, <2>1, <3>3, <3>4 DEF GraphInv, Counted
  <2>6. CASE ReceiversOf(node) # {}
    <3>1. PICK c \in index : c.service # None /\ Target(Span) = c.service
      BY <2>6 DEF Target, ReceiversOf, Paired
    <3>2. PICK i \in Positions : c = batch[i]
      BY <2>1, <3>1 DEF IndexInv, IndexOf, Scanned
    <3>3. Named(Target(Span))
      BY <3>1, <3>2 DEF Named
    <3> HIDE DEF node, edge
    <3>4. \A x \in calls' : Named(x[1].from)
                            /\ (Named(x[1].to) \/ \E y \in databases' : y[1] = x[1].to)
      BY <2>2, <2>3, <2>4, <2>6, <3>3 DEF GraphInv
    <3> QED
      BY <1>1, <2>1, <2>2, <2>6, <3>4 DEF GraphInv, Counted
  <2> QED
    BY <2>5, <2>6
<1>6. ASSUME ~IndexSpan, ~CountSpan, ~(ObserveSpan /\ Called) PROVE GraphInv'
  <2>1. UNCHANGED <<services, databases, calls>>
    BY <1>6 DEF Next, vars, graphVars, dbVars, LinkSpan, ObserveSpan, MergeCalls, Unnamed,
       Doubtful, NoDatabase, Answered, Undecided
  <2>2. /\ pass' \in {"links", "observe", "merge", "done"} =>
             pass \in {"links", "observe", "merge", "done"}
        /\ pass' = "services" => pass = "services" /\ next' = next
    BY <1>6 DEF Next, vars, LinkSpan, ObserveSpan, MergeCalls, Advance
  <2> QED
    BY <1>1, <2>1, <2>2 DEF GraphInv, Counted
<1> QED
  BY <1>3, <1>4, <1>5, <1>6

\* The edges that Discover has made join services and databases of the graph.
LEMMA EdgesNamed ==
  ASSUME LinksInv, GraphInv, Observed, NEW e \in LinkEdges \cup CallEdges
  PROVE  /\ Named(e.from)
         /\ Named(e.to) \/ \E y \in databases : y[1] = e.to
<1>1. CASE e \in LinkEdges
  <2>1. PICK x \in links : e = x[1]
    BY <1>1 DEF LinkEdges
  <2>2. PICK i \in Positions : x \in LinksTo(i)
    BY <2>1 DEF LinksInv, LinksExact, Linked, Observed
  <2>3. PICK j \in Positions : Calls(j, i) /\ e = Link(batch[j], batch[i])
    BY <2>1, <2>2 DEF LinksTo
  <2>4. e.from = batch[j].service /\ e.to = batch[i].service
    BY <2>3 DEF Link
  <2> QED
    BY <2>3, <2>4 DEF Calls, Named
<1>2. CASE e \in CallEdges
  BY <1>2 DEF CallEdges, GraphInv
<1> QED
  BY <1>1, <1>2

\* A peer that no service stands for is the end of no link and of no call.
LEMMA PeerIsNew ==
  ASSUME LinksInv, GraphInv, Observed, batch \in Batches,
         NEW s, NEW e \in LinkEdges \cup CallEdges, PeerNode(s) \notin Services
  PROVE  e.to # PeerNode(s)
<1>1. \A n : Named(n) => n \in Services
  BY BatchesAssumption DEF Named, Positions
<1>2. PeerNode(s).kind = "peer"
  BY DEF PeerNode
<1>3. CASE Named(e.to)
  BY <1>1, <1>3
<1>4. CASE \E y \in databases : y[1] = e.to
  BY <1>2, <1>4 DEF GraphInv
<1> QED
  BY <1>3, <1>4, EdgesNamed

\* Depend makes a node only with an edge to it, and an edge only to a node.
LEMMA StepPeers ==
  IndexInv /\ LinksInv /\ GraphInv /\ PeerInv /\ [PeersNext]_<<vars, step, peerVars>> => PeerInv'
<1> SUFFICES ASSUME IndexInv, LinksInv, GraphInv, PeerInv, [PeersNext]_<<vars, step, peerVars>>
             PROVE  PeerInv'
  OBVIOUS
<1>1. batch' = batch
  BY StepShape DEF PeersNext, PeerSpan, AdvancePeers, Returned, IndexInv, vars
<1>2. \A n : Named(n)' = Named(n)
  BY <1>1 DEF Named, Positions
<1>3. CASE PeerSpan
  <2>1. pass = "done" /\ step <= Len(batch) /\ step' = step + 1
    BY <1>3 DEF PeerSpan, AdvancePeers
  <2>2. step \in Positions /\ batch \in Batches
    BY <2>1, BatchShape DEF PeerInv, IndexInv, Shape
  <2>3. CASE Ignore \/ Refuse
    BY <1>2, <2>1, <2>3 DEF Ignore, Refuse, peerVars, PeerInv
  <2>4. CASE Depend
    <3> DEFINE target == PeerTarget(Client)
               edge == PeerEdge(Client, target)
    <3>1. /\ Client.service # None
          /\ peers' = IF target \notin Services THEN peers \cup {<<target, step>>} ELSE peers
          /\ dependencies' = IF Equivalent(Client, target) THEN dependencies
                             ELSE dependencies \cup {<<edge, step>>}
      BY <2>4 DEF Depend, Candidate, PeerCall
    <3>2. edge.from = Client.service /\ edge.to = target
      BY DEF PeerEdge
    <3>3. Named(Client.service)
      BY <2>2, <3>1 DEF Named, Client
    <3>4. PeerNode(Client) \notin Services
      BY <2>2, PeersAssumption DEF Client, Positions
    <3>5. CASE target \in Services
      <4>1. target = Client.peer /\ SameService(Client)
        BY <3>4, <3>5 DEF PeerTarget
      <4>2. \E i \in Positions : batch[i].service = target
        BY <4>1 DEF SameService, Scopes
      <4>3. Named(target)
        BY <3>5, <4>2, BatchesAssumption DEF Named
      <4> HIDE DEF target, edge
      <4> QED
        BY <1>2, <2>1, <3>1, <3>2, <3>3, <3>5, <4>3 DEF PeerInv
    <3>6. CASE target \notin Services
      <4>1. target = PeerNode(Client)
        BY <3>6 DEF PeerTarget
      <4>2. ~Equivalent(Client, target)
        BY <2>1, <2>2, <3>4, <4>1, PeerIsNew DEF Equivalent, Observed
      <4> HIDE DEF target, edge
      <4>3. <<target, step>> \in peers' /\ <<edge, step>> \in dependencies'
        BY <3>1, <3>6, <4>2
      <4>4. <<target, step>>[1] = target /\ <<edge, step>>[1] = edge
        OBVIOUS
      <4>5. peers' = peers \cup {<<target, step>>} /\ dependencies' = dependencies \cup {<<edge, step>>}
        BY <3>1, <3>6, <4>2
      <4>6. ASSUME NEW x \in peers' PROVE \E y \in dependencies' : y[1].to = x[1]
        BY <3>2, <4>3, <4>4, <4>5 DEF PeerInv
      <4>7. ASSUME NEW x \in dependencies'
            PROVE  Named(x[1].from) /\ (Named(x[1].to) \/ \E y \in peers' : y[1] = x[1].to)
        <5>1. CASE x \in dependencies
          BY <4>5, <5>1 DEF PeerInv
        <5>2. CASE x = <<edge, step>>
          BY <3>2, <3>3, <4>3, <4>4, <5>2
        <5> QED
          BY <4>5, <5>1, <5>2
      <4>8. step' \in Nat \ {0}
        BY <2>1 DEF PeerInv
      <4> QED
        BY <1>2, <4>6, <4>7, <4>8 DEF PeerInv
    <3> QED
      BY <3>5, <3>6
  <2> QED
    BY <1>3, <2>3, <2>4 DEF PeerSpan
<1>4. CASE ~PeerSpan
  BY <1>2, <1>4 DEF PeersNext, Returned, peerVars, PeerInv
<1> QED
  BY <1>3, <1>4

\* enrichEBPFPeers only reads what the passes before it have made.
LEMMA PeersImplySpec == PeersSpec => Spec
<1>1. PeersInit => Init
  BY DEF PeersInit
<1>2. [PeersNext]_<<vars, step, peerVars>> => [Next]_vars
  BY DEF PeersNext, PeerSpan, AdvancePeers, Returned
<1> QED
  BY <1>1, <1>2, PTL DEF PeersSpec, Spec

\* Discover never builds what ValidateSemantic would refuse: an edge without
\* its two nodes, or a made-up node without an edge.
THEOREM GraphIsConnected == PeersSpec => []Connected
<1>1. ASSUME LinksInv, GraphInv, PeerInv, IndexInv PROVE Connected
  <2> SUFFICES ASSUME Observed
               PROVE  /\ \A e \in LinkEdges \cup CallEdges \cup DependencyEdges :
                           \A n \in {e.from, e.to} :
                             \E x \in services \cup databases \cup peers : x[1] = n
                      /\ \A x \in databases : \E e \in CallEdges : e.to = x[1]
                      /\ \A x \in peers : \E e \in DependencyEdges : e.to = x[1]
    BY DEF Connected
  <2>1. ASSUME NEW n, Named(n) PROVE \E x \in services : x[1] = n
    <3>1. PICK i \in Positions : batch[i].service = n
      BY <2>1 DEF Named
    <3>2. <<n, i>> \in services
      BY <1>1, <2>1, <3>1 DEF GraphInv, Counted, Observed, Named
    <3> QED
      BY <3>2
  <2>2. ASSUME NEW e \in DependencyEdges
        PROVE  Named(e.from) /\ (Named(e.to) \/ \E y \in peers : y[1] = e.to)
    BY <1>1 DEF DependencyEdges, PeerInv
  <2>3. \A x \in databases : \E e \in CallEdges : e.to = x[1]
    BY <1>1 DEF GraphInv, CallEdges
  <2>4. \A x \in peers : \E e \in DependencyEdges : e.to = x[1]
    BY <1>1 DEF PeerInv, DependencyEdges
  <2>5. ASSUME NEW e \in LinkEdges \cup CallEdges \cup DependencyEdges, NEW n \in {e.from, e.to}
        PROVE  \E x \in services \cup databases \cup peers : x[1] = n
    BY <1>1, <2>1, <2>2, EdgesNamed
  <2> QED
    BY <2>3, <2>4, <2>5
<1>2. Spec => [](IndexInv /\ LinksInv /\ GraphInv)
  <2>1. Init => GraphInv
    BY DEF Init, GraphInv
  <2> QED
    BY <2>1, IndexExact, LinksAlways, StepGraph, PTL DEF Spec
<1>3. PeersInit => PeerInv
  BY DEF PeersInit, PeerInv
<1> QED
  BY <1>1, <1>2, <1>3, PeersImplySpec, StepPeers, PTL DEF PeersSpec
=============================================================================
