---------------------------- MODULE ShutdownBatch ----------------------------
(***************************************************************************)
(* The on_shutdown publication mode of internal/runtime/engine.go.         *)
(*                                                                         *)
(* Handlers call ingestShutdownBatch, one critical section of mu.  Close   *)
(* holds flushMu throughout, but lets go of mu between closing the batch   *)
(* and taking it, and again while it discovers and writes: handlers run in *)
(* between.  Nothing says that Close is called once.  A request counts as  *)
(* retained when it brought at least one span.                             *)
(***************************************************************************)
EXTENDS Integers, FiniteSets

CONSTANTS
  Requests,             \* calls of IngestWithSource
  Closers,              \* calls of Close
  Sizes,                \* the numbers of spans a request may carry
  MaxInMemorySpans,     \* runtime.max_in_memory_spans
  None

ASSUME BatchAssumption ==
  /\ Sizes \subseteq Nat
  /\ MaxInMemorySpans \in Nat \ {0}
  /\ None \notin Closers \cup {"capacity", "precedes", "discovery", "sink",
                              "accepted", "overflow", "refused"}

VARIABLES
  retained, spans,      \* current.spans: whose they are, how many they are
  closed, closeErr, terminalErr,
  flushMu,              \* the call of Close that holds flushMu, or None
  pc,                   \* where each call of Close is
  taken,                \* flushCurrent's copy of the requests retained
  size,                 \* the number of spans a request brought
  reply,                \* what a request was answered, None before that
  result,               \* what a call of Close returned
  written               \* the batches written, each a set of requests

reqVars == <<retained, spans, terminalErr, size, reply>>
vars == <<reqVars, closed, closeErr, flushMu, pc, taken, result, written>>

Errors == {"capacity", "precedes", "discovery", "sink"}

Init ==
  /\ retained = {} /\ spans = 0
  /\ closed = FALSE /\ closeErr = None /\ terminalErr = None
  /\ flushMu = None
  /\ pc = [c \in Closers |-> "idle"]
  /\ taken = {}
  /\ size = [r \in Requests |-> 0]
  /\ reply = [r \in Requests |-> None]
  /\ result = [c \in Closers |-> None]
  /\ written = {}
-----------------------------------------------------------------------------
(* ingestShutdownBatch                                                     *)

\* The request fits into what is left of the limit.
MutantFits(n) == spans <= MaxInMemorySpans

Fits(n) == n <= MaxInMemorySpans - spans

Answer(r, n, text) ==
  /\ reply[r] = None
  /\ size' = [size EXCEPT ![r] = n]
  /\ reply' = [reply EXCEPT ![r] = text]

Refuse(r, n) ==
  /\ closed \/ terminalErr # None
  /\ Answer(r, n, "refused")
  /\ UNCHANGED <<retained, spans, terminalErr>>

\* Capacity is terminal: the flag is what later requests and Close look at.
Poison == "capacity"

Overflow(r, n) ==
  /\ ~closed /\ terminalErr = None
  /\ ~Fits(n)
  /\ terminalErr' = Poison
  /\ Answer(r, n, "overflow")
  /\ UNCHANGED <<retained, spans>>

\* The batch is open: not closed, not invalid.
MutantOpen == terminalErr = None

Open == ~closed /\ terminalErr = None

Accept(r, n) ==
  /\ Open
  /\ Fits(n)
  /\ retained' = IF n > 0 THEN retained \cup {r} ELSE retained
  /\ spans' = spans + n
  /\ Answer(r, n, "accepted")
  /\ UNCHANGED terminalErr

Ingest(r, n) ==
  /\ Refuse(r, n) \/ Overflow(r, n) \/ Accept(r, n)
  /\ UNCHANGED <<closed, closeErr, flushMu, pc, taken, result, written>>
-----------------------------------------------------------------------------
(* Close                                                                   *)

Goto(c, label) == pc' = [pc EXCEPT ![c] = label]

LockFlush(c) ==
  /\ pc[c] = "idle"
  /\ flushMu = None
  /\ flushMu' = c
  /\ Goto(c, "close")
  /\ UNCHANGED <<reqVars, closed, closeErr, taken, result, written>>

Return(c, err) ==
  /\ result' = [result EXCEPT ![c] = err]
  /\ flushMu' = None
  /\ Goto(c, "done")

\* A later call returns what the first one returned.
MutantFirstResult == None

FirstResult == closeErr

CloseAgain(c) ==
  /\ pc[c] = "close"
  /\ closed
  /\ Return(c, FirstResult)
  /\ UNCHANGED <<reqVars, closed, closeErr, taken, written>>

\* The batch overflowed, or the clock has gone back behind its start.
CloseInvalid(c) ==
  /\ pc[c] = "close"
  /\ ~closed
  /\ closed' = TRUE
  /\ closeErr' = IF terminalErr # None THEN terminalErr ELSE "precedes"
  /\ Return(c, closeErr')
  /\ UNCHANGED <<reqVars, taken, written>>

CloseBatch(c) ==
  /\ pc[c] = "close"
  /\ ~closed /\ terminalErr = None
  /\ closed' = TRUE
  /\ Goto(c, "take")
  /\ UNCHANGED <<reqVars, closeErr, flushMu, taken, result, written>>

\* flushCurrent, forced: no spans, nothing to publish.
TakeNothing(c) ==
  /\ pc[c] = "take"
  /\ spans = 0
  /\ Return(c, None)
  /\ UNCHANGED <<reqVars, closed, closeErr, taken, written>>

TakeBatch(c) ==
  /\ pc[c] = "take"
  /\ spans # 0
  /\ taken' = retained
  /\ retained' = {} /\ spans' = 0
  /\ Goto(c, "discover")
  /\ UNCHANGED <<terminalErr, size, reply, closed, closeErr, flushMu, result, written>>

Discover(c) ==
  /\ pc[c] = "discover"
  /\ Goto(c, "sink")
  /\ UNCHANGED <<reqVars, closed, closeErr, flushMu, taken, result, written>>

\* The first file of Sink.Write, the snapshot: from here on the batch is in place.
WriteSink(c) ==
  /\ pc[c] = "sink"
  /\ written' = written \cup {taken}
  /\ Goto(c, "latest")
  /\ UNCHANGED <<reqVars, closed, closeErr, flushMu, taken, result>>

\* The other files of Sink.Write: the sidecar of the snapshot, the latest file
\* and its sidecar.
FinishSink(c) ==
  /\ pc[c] = "latest"
  /\ Return(c, None)
  /\ UNCHANGED <<reqVars, closed, closeErr, taken, written>>

\* Discovery or a write fails; the snapshot may be in place by then.
Failure(c) == IF pc[c] = "discover" THEN "discovery" ELSE "sink"

FlushFails(c) ==
  /\ pc[c] \in {"discover", "sink", "latest"}
  /\ closeErr' = Failure(c)
  /\ Return(c, closeErr')
  /\ UNCHANGED <<reqVars, closed, taken, written>>
-----------------------------------------------------------------------------
Close(c) ==
  \/ LockFlush(c) \/ CloseAgain(c) \/ CloseInvalid(c) \/ CloseBatch(c)
  \/ TakeNothing(c) \/ TakeBatch(c) \/ Discover(c)
  \/ WriteSink(c) \/ FinishSink(c) \/ FlushFails(c)

\* Every call has returned.
Finished ==
  /\ \A r \in Requests : reply[r] # None
  /\ \A c \in Closers : pc[c] = "done"
  /\ UNCHANGED vars

Next ==
  \/ \E r \in Requests, n \in Sizes : Ingest(r, n)
  \/ \E c \in Closers : Close(c)
  \/ Finished

Spec == Init /\ [][Next]_vars

-----------------------------------------------------------------------------
Labels == {"idle", "close", "take", "discover", "sink", "latest", "done"}

TypeOK ==
  /\ retained \in SUBSET Requests /\ spans \in 0 .. MaxInMemorySpans
  /\ closed \in BOOLEAN
  /\ closeErr \in Errors \cup {None} /\ terminalErr \in {"capacity", None}
  /\ flushMu \in Closers \cup {None}
  /\ pc \in [Closers -> Labels]
  /\ taken \in SUBSET Requests
  /\ size \in [Requests -> Nat]
  /\ reply \in [Requests -> {"accepted", "overflow", "refused", None}]
  /\ result \in [Closers -> Errors \cup {None}]
  /\ written \in SUBSET SUBSET Requests

\* The requests that were answered "accepted" and brought spans.
Acknowledged == {r \in Requests : reply[r] = "accepted" /\ size[r] > 0}

\* What is published is every acknowledged request, whole, and no other: none
\* is accepted after the batch was closed, though Close lets go of mu.
PublishedWhole == \A b \in written : b = Acknowledged

\* An overflow, whenever it comes, keeps every accepted request unpublished.
OverflowPublishesNothing ==
  (\E r \in Requests : reply[r] = "overflow") => written = {}

\* Whoever calls Close, and however often, learns the same outcome: no error
\* only for a published batch, and an error other than the sink's only for one
\* that was not published.  An error of the sink leaves it open: the snapshot
\* may be in place when a later file of Sink.Write fails.
SameOutcome ==
  /\ \A c, d \in Closers : pc[c] = "done" /\ pc[d] = "done" => result[c] = result[d]
  /\ \A c \in Closers : pc[c] = "done" /\ Acknowledged # {} =>
       IF written = {} THEN result[c] # None ELSE result[c] \in {None, "sink"}

\* The phases of AtomicBatch: the batch is sealed while a call of Close owns
\* it, from the moment it is closed until its snapshot is in place or given up.
Owned == \E c \in Closers : pc[c] \in {"take", "discover", "sink"}

Phase ==
  IF terminalErr # None THEN "invalid"
  ELSE IF ~closed THEN "open"
  ELSE IF Owned THEN "sealed" ELSE "settled"

\* The mode keeps the promises of AtomicBatch.
Batch == INSTANCE AtomicBatch WITH
  Request <- Requests, phase <- Phase, batch <- Acknowledged, published <- written

Refines == Batch!Spec
=============================================================================
