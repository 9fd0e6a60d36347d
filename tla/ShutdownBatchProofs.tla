------------------------- MODULE ShutdownBatchProofs -------------------------
(***************************************************************************)
(* ShutdownBatch for any requests, sizes and limit, and any calls of       *)
(* Close: what is published is whole, never a prefix, and the mode         *)
(* implements AtomicBatch.                                                 *)
(***************************************************************************)
EXTENDS ShutdownBatch, TLAPS

\* Where a call of Close holds flushMu, and where it owns the closed batch.
Holding == {"close", "take", "discover", "sink", "latest"}

Owning == {"take", "discover", "sink"}

\* flushMu admits one call of Close; the batch has one owner, from the moment
\* it is closed until it is settled; the acknowledged requests are retained
\* until the owner takes them, and are its own after that.  While the owner
\* writes the other files of the sink, they are the batch in place.
BatchInv ==
  /\ TypeOK
  /\ \A c \in Closers : pc[c] \in Holding <=> flushMu = c
  /\ \A c \in Closers : pc[c] \in Owning => closed /\ terminalErr = None
  /\ \A c \in Closers : pc[c] \in Owning => written = {}
  /\ ~closed => written = {}
  /\ terminalErr # None => written = {}
  /\ \A r \in Requests : reply[r] = "overflow" => terminalErr # None
  /\ (~closed \/ terminalErr # None) => retained = Acknowledged
  /\ \A c \in Closers : pc[c] = "take" => retained = Acknowledged
  /\ \A c \in Closers : pc[c] \in {"discover", "sink"} => taken = Acknowledged
  /\ \A c \in Closers : pc[c] = "latest" =>
       closed /\ terminalErr = None /\ written = {Acknowledged}
  /\ PublishedWhole

\* At the start the batch is open and empty.
LEMMA InitInv == Init => BatchInv
<1> SUFFICES ASSUME Init PROVE BatchInv
  OBVIOUS
<1> USE DEF Init
<1>1. TypeOK
  <2>1. spans \in 0 .. MaxInMemorySpans
    BY BatchAssumption
  <2> QED
    BY <2>1 DEF TypeOK, Labels
<1>2. Acknowledged = {} /\ PublishedWhole
  BY DEF Acknowledged, PublishedWhole
<1>3. \A c \in Closers : pc[c] \notin Holding /\ pc[c] \notin Owning
  BY DEF Holding, Owning
<1> QED
  BY <1>1, <1>2, <1>3, BatchAssumption DEF BatchInv, Holding, Owning

\* A request is answered once: the others keep their answers.
LEMMA AnswerKeeps ==
  ASSUME TypeOK, NEW r \in Requests, NEW n \in Nat, NEW text,
         text \in {"accepted", "overflow", "refused"}, Answer(r, n, text)
  PROVE  /\ size' \in [Requests -> Nat]
         /\ reply' \in [Requests -> {"accepted", "overflow", "refused", None}]
         /\ reply'[r] = text
         /\ \A q \in Requests : q # r => reply'[q] = reply[q] /\ size'[q] = size[q]
         /\ Acknowledged' = IF text = "accepted" /\ n > 0
                            THEN Acknowledged \cup {r} ELSE Acknowledged
<1>1. /\ size' = [size EXCEPT ![r] = n] /\ reply' = [reply EXCEPT ![r] = text]
      /\ reply[r] = None
      /\ size \in [Requests -> Nat]
      /\ reply \in [Requests -> {"accepted", "overflow", "refused", None}]
  BY DEF Answer, TypeOK
<1>2. /\ size' \in [Requests -> Nat]
      /\ reply' \in [Requests -> {"accepted", "overflow", "refused", None}]
      /\ reply'[r] = text /\ size'[r] = n
      /\ \A q \in Requests : q # r => reply'[q] = reply[q] /\ size'[q] = size[q]
  BY <1>1
<1>3. r \notin Acknowledged
  BY <1>1, BatchAssumption DEF Acknowledged
<1> QED
  BY <1>2, <1>3 DEF Acknowledged

\* Every step keeps BatchInv.
LEMMA StepInv == BatchInv /\ [Next]_vars => BatchInv'
<1> SUFFICES ASSUME BatchInv, [Next]_vars PROVE BatchInv'
  OBVIOUS
<1>0. TypeOK /\ pc \in [Closers -> Labels] /\ result \in [Closers -> Errors \cup {None}]
  BY DEF BatchInv, TypeOK
<1>1. CASE UNCHANGED vars \/ Finished
  BY <1>1 DEF vars, reqVars, Finished, BatchInv, TypeOK, Acknowledged, PublishedWhole,
              Labels, Holding, Owning
<1>2. ASSUME NEW r \in Requests, NEW n \in Sizes, Ingest(r, n) PROVE BatchInv'
  <2>1. n \in Nat
    BY BatchAssumption
  <2>2. UNCHANGED <<closed, closeErr, flushMu, pc, taken, result, written>>
    BY <1>2 DEF Ingest
  <2>3. CASE Refuse(r, n)
    <3>1. UNCHANGED <<retained, spans, terminalErr>> /\ Answer(r, n, "refused")
      BY <2>3 DEF Refuse
    <3>2. /\ Acknowledged' = Acknowledged
          /\ size' \in [Requests -> Nat]
          /\ reply' \in [Requests -> {"accepted", "overflow", "refused", None}]
          /\ \A q \in Requests : reply'[q] = "overflow" => reply[q] = "overflow"
      BY <1>0, <2>1, <3>1, AnswerKeeps
    <3>3. TypeOK'
      BY <1>0, <2>2, <3>1, <3>2 DEF TypeOK
    <3> QED
      BY <2>2, <3>1, <3>2, <3>3 DEF BatchInv, PublishedWhole
  <2>4. CASE Overflow(r, n)
    <3>1. /\ ~closed /\ terminalErr = None /\ terminalErr' = "capacity"
          /\ UNCHANGED <<retained, spans>> /\ Answer(r, n, "overflow")
      BY <2>4 DEF Overflow, Poison
    <3>2. /\ Acknowledged' = Acknowledged
          /\ size' \in [Requests -> Nat]
          /\ reply' \in [Requests -> {"accepted", "overflow", "refused", None}]
      BY <1>0, <2>1, <3>1, AnswerKeeps
    <3>3. TypeOK'
      BY <1>0, <2>2, <3>1, <3>2 DEF TypeOK
    <3>4. terminalErr' # None
      BY <3>1, BatchAssumption
    <3> QED
      BY <2>2, <3>1, <3>2, <3>3, <3>4 DEF BatchInv, PublishedWhole
  <2>5. CASE Accept(r, n)
    <3>1. /\ ~closed /\ terminalErr = None /\ UNCHANGED terminalErr
          /\ spans' = spans + n /\ n <= MaxInMemorySpans - spans
          /\ Answer(r, n, "accepted")
          /\ retained' = IF n > 0 THEN retained \cup {r} ELSE retained
      BY <2>5 DEF Accept, Open, Fits
    <3>2. /\ Acknowledged' = IF n > 0 THEN Acknowledged \cup {r} ELSE Acknowledged
          /\ size' \in [Requests -> Nat]
          /\ reply' \in [Requests -> {"accepted", "overflow", "refused", None}]
          /\ \A q \in Requests : reply'[q] = "overflow" => reply[q] = "overflow"
      BY <1>0, <2>1, <3>1, AnswerKeeps
    <3>3. spans' \in 0 .. MaxInMemorySpans /\ retained' \in SUBSET Requests
      BY <1>0, <2>1, <3>1, BatchAssumption DEF TypeOK
    <3>4. TypeOK'
      BY <1>0, <2>2, <3>1, <3>2, <3>3 DEF TypeOK
    <3>5. written = {} /\ \A c \in Closers : pc[c] \notin Owning /\ pc[c] # "latest"
      BY <3>1 DEF BatchInv
    <3>6. retained' = Acknowledged'
      BY <3>1, <3>2 DEF BatchInv
    <3> QED
      BY <2>2, <3>1, <3>2, <3>4, <3>5, <3>6 DEF BatchInv, PublishedWhole, Owning
  <2> QED
    BY <1>2, <2>3, <2>4, <2>5 DEF Ingest
<1>3. ASSUME NEW c \in Closers, Close(c) PROVE BatchInv'
  <2>1. UNCHANGED <<size, reply, terminalErr>> /\ Acknowledged' = Acknowledged
    BY <1>3 DEF Close, LockFlush, CloseAgain, CloseInvalid, CloseBatch, TakeNothing,
                TakeBatch, Discover, WriteSink, FinishSink, FlushFails, reqVars, Acknowledged
  <2>2. \A d \in Closers : d # c => pc'[d] = pc[d]
    BY <1>0, <1>3 DEF Close, LockFlush, CloseAgain, CloseInvalid, CloseBatch, TakeNothing,
                TakeBatch, Discover, WriteSink, FinishSink, FlushFails, Return, Goto
  <2>3. /\ \A d \in Closers : pc[d] \in Holding <=> flushMu = d
        /\ \A d \in Closers : d # None
    BY BatchAssumption DEF BatchInv
  <2>4. CASE LockFlush(c)
    <3>1. /\ UNCHANGED <<retained, spans, closed, closeErr, taken, result, written>>
          /\ flushMu = None /\ flushMu' = c /\ pc[c] = "idle" /\ pc'[c] = "close"
          /\ pc' \in [Closers -> Labels]
      BY <1>0, <2>4 DEF LockFlush, Goto, Labels, reqVars
    <3>2. TypeOK'
      BY <1>0, <2>1, <3>1 DEF TypeOK
    <3>3. \A d \in Closers : pc'[d] \in Owning \cup {"latest"} => pc'[d] = pc[d]
      BY <2>2, <3>1 DEF Owning
    <3>4. \A d \in Closers : pc'[d] \in Holding <=> flushMu' = d
      BY <2>2, <2>3, <3>1 DEF Holding
    <3> QED
      BY <2>1, <3>1, <3>2, <3>3, <3>4 DEF BatchInv, PublishedWhole, Owning
  <2>5. CASE CloseAgain(c) \/ CloseInvalid(c) \/ TakeNothing(c)
    <3>1. /\ UNCHANGED <<retained, spans, taken, written>>
          /\ pc[c] \in Holding /\ flushMu' = None /\ pc'[c] = "done"
          /\ pc' \in [Closers -> Labels] /\ (closed => closed')
      BY <1>0, <2>5 DEF CloseAgain, CloseInvalid, TakeNothing, Return, Goto, Labels,
                        reqVars, Holding
    <3>2. closeErr' \in Errors \cup {None} /\ closed' \in BOOLEAN
      BY <1>0, <2>5 DEF CloseAgain, CloseInvalid, TakeNothing, TypeOK, Errors
    <3>3. result' \in [Closers -> Errors \cup {None}]
      <4>1. PICK e \in Errors \cup {None} : result' = [result EXCEPT ![c] = e]
        BY <1>0, <2>5, <3>2 DEF CloseAgain, CloseInvalid, TakeNothing, Return,
                                FirstResult, TypeOK
      <4> QED
        BY <1>0, <4>1
    <3>4. TypeOK'
      BY <1>0, <2>1, <3>1, <3>2, <3>3 DEF TypeOK
    <3>5. \A d \in Closers : pc'[d] \in Holding => d # c /\ pc[d] \in Holding
      BY <2>2, <3>1 DEF Holding
    <3>6. \A d \in Closers : pc'[d] \notin Holding
      BY <2>3, <3>1, <3>5
    <3>7. \A d \in Closers : pc'[d] \notin Owning
      BY <3>6 DEF Holding, Owning
    <3> QED
      BY <2>1, <2>3, <3>1, <3>4, <3>6, <3>7 DEF BatchInv, PublishedWhole, Holding, Owning
  <2>6. CASE CloseBatch(c)
    <3>1. /\ UNCHANGED <<retained, spans, closeErr, flushMu, taken, result, written>>
          /\ ~closed /\ terminalErr = None /\ closed' = TRUE
          /\ pc[c] = "close" /\ pc'[c] = "take" /\ pc' \in [Closers -> Labels]
      BY <1>0, <2>6 DEF CloseBatch, Goto, Labels, reqVars
    <3>2. TypeOK'
      BY <1>0, <2>1, <3>1 DEF TypeOK
    <3>3. written = {} /\ retained = Acknowledged
      BY <3>1 DEF BatchInv
    <3>4. \A d \in Closers : d # c => pc'[d] \notin Holding /\ pc'[d] \notin Owning
      BY <2>2, <2>3, <3>1 DEF Holding, Owning
    <3> QED
      BY <2>1, <2>2, <2>3, <3>1, <3>2, <3>3, <3>4 DEF BatchInv, PublishedWhole, Holding,
                                                      Owning
  <2>7. CASE TakeBatch(c)
    <3>1. /\ UNCHANGED <<closed, closeErr, flushMu, result, written>>
          /\ taken' = retained /\ retained' = {} /\ spans' = 0
          /\ pc[c] = "take" /\ pc'[c] = "discover" /\ pc' \in [Closers -> Labels]
      BY <1>0, <2>7 DEF TakeBatch, Goto, Labels
    <3>2. TypeOK'
      BY <1>0, <2>1, <3>1, BatchAssumption DEF TypeOK
    <3>3. /\ retained = Acknowledged /\ closed /\ terminalErr = None /\ written = {}
      BY <3>1 DEF BatchInv, Owning
    <3>4. \A d \in Closers : d # c => pc'[d] \notin Holding /\ pc'[d] \notin Owning
      BY <2>2, <2>3, <3>1 DEF Holding, Owning
    <3> QED
      BY <2>1, <2>2, <2>3, <3>1, <3>2, <3>3, <3>4 DEF BatchInv, PublishedWhole, Holding,
                                                      Owning
  <2>8. CASE Discover(c)
    <3>1. /\ UNCHANGED <<retained, spans, closed, closeErr, flushMu, taken, result, written>>
          /\ pc[c] = "discover" /\ pc'[c] = "sink" /\ pc' \in [Closers -> Labels]
      BY <1>0, <2>8 DEF Discover, Goto, Labels, reqVars
    <3>2. TypeOK'
      BY <1>0, <2>1, <3>1 DEF TypeOK
    <3>3. \A d \in Closers : d # c => pc'[d] \notin Holding /\ pc'[d] \notin Owning
      BY <2>2, <2>3, <3>1 DEF Holding, Owning
    <3> QED
      BY <2>1, <2>2, <2>3, <3>1, <3>2, <3>3 DEF BatchInv, PublishedWhole, Holding, Owning
  <2>9. CASE WriteSink(c)
    <3>1. /\ UNCHANGED <<retained, spans, closed, closeErr, flushMu, taken, result>>
          /\ pc[c] = "sink" /\ pc'[c] = "latest" /\ pc' \in [Closers -> Labels]
          /\ written' = written \cup {taken}
      BY <1>0, <2>9 DEF WriteSink, Goto, Labels, reqVars
    <3>2. /\ taken = Acknowledged /\ closed /\ terminalErr = None /\ written = {}
      BY <3>1 DEF BatchInv, Owning
    <3>3. written' = {Acknowledged} /\ written' \in SUBSET SUBSET Requests
      BY <1>0, <3>1, <3>2 DEF TypeOK
    <3>4. TypeOK'
      BY <1>0, <2>1, <3>1, <3>3 DEF TypeOK
    <3>5. \A d \in Closers : d # c => pc'[d] \notin Holding /\ pc'[d] \notin Owning
      BY <2>2, <2>3, <3>1 DEF Holding, Owning
    <3>6. /\ pc'[c] \in Holding /\ pc'[c] \notin Owning /\ flushMu' = c
          /\ pc'[c] \notin {"take", "discover", "sink"}
      BY <2>3, <3>1 DEF Holding, Owning
    <3> QED
      BY <2>1, <2>2, <2>3, <3>1, <3>2, <3>3, <3>4, <3>5, <3>6
      DEF BatchInv, PublishedWhole, Holding, Owning
  <2>10. CASE FinishSink(c) \/ FlushFails(c)
    <3>1. /\ UNCHANGED <<retained, spans, closed, taken, written>>
          /\ pc[c] \in {"discover", "sink", "latest"} /\ flushMu' = None /\ pc'[c] = "done"
          /\ pc' \in [Closers -> Labels]
      BY <1>0, <2>10 DEF FinishSink, FlushFails, Return, Goto, Labels, reqVars
    <3>2. closeErr' \in Errors \cup {None}
      BY <1>0, <2>10 DEF FinishSink, FlushFails, Failure, TypeOK, Errors
    <3>3. result' \in [Closers -> Errors \cup {None}]
      <4>1. PICK e \in Errors \cup {None} : result' = [result EXCEPT ![c] = e]
        BY <2>10, <3>2 DEF FinishSink, FlushFails, Return
      <4> QED
        BY <1>0, <4>1
    <3>4. closed /\ terminalErr = None
      BY <3>1 DEF BatchInv, Owning
    <3>5. TypeOK'
      BY <1>0, <2>1, <3>1, <3>2, <3>3 DEF TypeOK
    <3>6. \A d \in Closers : pc'[d] \notin Holding /\ pc'[d] \notin Owning
      BY <2>2, <2>3, <3>1 DEF Holding, Owning
    <3> QED
      BY <2>1, <2>3, <3>1, <3>4, <3>5, <3>6 DEF BatchInv, PublishedWhole, Holding, Owning
  <2> QED
    BY <1>3, <2>4, <2>5, <2>6, <2>7, <2>8, <2>9, <2>10 DEF Close
<1> QED
  BY <1>1, <1>2, <1>3 DEF Next

\* BatchInv holds in every reachable state.
LEMMA Invariant == Spec => []BatchInv
<1> QED
  BY InitInv, StepInv, PTL DEF Spec

\* Whatever calls of Close and requests interleave, what is published is
\* every acknowledged request and nothing else.
THEOREM BatchPublishedWhole == Spec => []PublishedWhole
<1>1. BatchInv => PublishedWhole
  BY DEF BatchInv
<1> QED
  BY <1>1, Invariant, PTL

\* A request that overflows, at any time, keeps the whole batch unpublished.
THEOREM OverflowIsTerminal == Spec => []OverflowPublishesNothing
<1>1. BatchInv => OverflowPublishesNothing
  BY DEF BatchInv, OverflowPublishesNothing
<1> QED
  BY <1>1, Invariant, PTL

\* Every reachable state of the mode is well typed.
THEOREM TypeCorrect == Spec => []TypeOK
<1>1. BatchInv => TypeOK
  BY DEF BatchInv
<1> QED
  BY <1>1, Invariant, PTL

-----------------------------------------------------------------------------
(* The outcome.  Until the batch is settled no call has returned, and what *)
(* settles it decides closeErr for all of them.                            *)

OutcomeInv ==
  /\ \A c \in Closers : pc[c] = "done" => closed /\ result[c] = closeErr
  /\ ~closed => closeErr = None
  /\ \A c \in Closers : pc[c] \in Owning \cup {"latest"} =>
       closeErr = None /\ \A d \in Closers : pc[d] # "done"
  /\ spans = 0 => retained = {}
  /\ closed /\ Acknowledged # {} =>
       \/ \E c \in Closers : pc[c] \in Owning
       \/ closeErr = None => written # {}
  /\ closeErr \notin {None, "sink"} => written = {}

\* At the start no Close has returned.
LEMMA OutcomeInit == Init => OutcomeInv
BY DEF Init, OutcomeInv, Owning

\* The first Close to finish fixes the outcome; later ones read it.
LEMMA OutcomeStep ==
  ASSUME BatchInv, OutcomeInv, [Next]_vars
  PROVE  OutcomeInv'
<1>0. /\ TypeOK /\ pc \in [Closers -> Labels] /\ result \in [Closers -> Errors \cup {None}]
      /\ spans \in Nat
  BY BatchAssumption DEF BatchInv, TypeOK
<1>1. CASE UNCHANGED vars \/ Finished
  BY <1>1 DEF vars, reqVars, Finished, OutcomeInv, Acknowledged, Owning
<1>2. ASSUME NEW r \in Requests, NEW n \in Sizes, Ingest(r, n) PROVE OutcomeInv'
  <2>1. n \in Nat /\ UNCHANGED <<closed, closeErr, pc, result, written>>
    BY <1>2, BatchAssumption DEF Ingest
  <2>2. CASE Refuse(r, n) \/ Overflow(r, n)
    <3>1. Acknowledged' = Acknowledged
      BY <1>0, <2>1, <2>2, AnswerKeeps DEF Refuse, Overflow
    <3>2. UNCHANGED <<retained, spans>>
      BY <2>2 DEF Refuse, Overflow
    <3> QED
      BY <2>1, <3>1, <3>2 DEF OutcomeInv
  <2>3. CASE Accept(r, n)
    <3>1. /\ ~closed /\ spans' = spans + n
          /\ retained' = IF n > 0 THEN retained \cup {r} ELSE retained
      BY <2>3 DEF Accept, Open
    <3>2. spans' = 0 => retained' = {}
      BY <1>0, <2>1, <3>1 DEF OutcomeInv
    <3> QED
      BY <2>1, <3>1, <3>2 DEF OutcomeInv
  <2> QED
    BY <1>2, <2>2, <2>3 DEF Ingest
<1>3. ASSUME NEW c \in Closers, Close(c) PROVE OutcomeInv'
  <2>1. Acknowledged' = Acknowledged
    BY <1>3 DEF Close, LockFlush, CloseAgain, CloseInvalid, CloseBatch, TakeNothing,
                TakeBatch, Discover, WriteSink, FinishSink, FlushFails, reqVars, Acknowledged
  <2>2. /\ \A d \in Closers : d # c => pc'[d] = pc[d]
        /\ pc[c] \in Holding =>
             \A d \in Closers : d # c => pc[d] \notin Owning \cup {"latest"}
    BY <1>0, <1>3 DEF Close, LockFlush, CloseAgain, CloseInvalid, CloseBatch, TakeNothing,
                TakeBatch, Discover, WriteSink, FinishSink, FlushFails, Return, Goto,
                Holding, Owning, BatchInv
  <2>3. CASE LockFlush(c)
    <3>1. /\ UNCHANGED <<retained, spans, closed, closeErr, result, written>>
          /\ pc[c] = "idle" /\ pc'[c] = "close"
      BY <1>0, <2>3 DEF LockFlush, Goto, reqVars
    <3> QED
      BY <2>1, <2>2, <3>1 DEF OutcomeInv, Owning
  <2>4. CASE CloseAgain(c)
    <3>1. /\ UNCHANGED <<retained, spans, closed, closeErr, written>> /\ closed
          /\ pc[c] = "close" /\ pc'[c] = "done"
          /\ result' = [result EXCEPT ![c] = closeErr]
      BY <1>0, <2>4 DEF CloseAgain, Return, Goto, FirstResult, reqVars
    <3>2. \A d \in Closers :
            pc[d] \notin Owning \cup {"latest"} /\ pc'[d] \notin Owning \cup {"latest"}
      BY <2>2, <3>1 DEF Owning, Holding
    <3>3. \A d \in Closers : pc'[d] = "done" => result'[d] = closeErr
      BY <1>0, <2>2, <3>1 DEF OutcomeInv
    <3> QED
      BY <2>1, <3>1, <3>2, <3>3 DEF OutcomeInv
  <2>5. CASE CloseInvalid(c)
    <3>1. /\ UNCHANGED <<retained, spans, written>> /\ ~closed /\ closed'
          /\ pc[c] = "close" /\ pc'[c] = "done"
          /\ closeErr' = IF terminalErr # None THEN terminalErr ELSE "precedes"
          /\ result' = [result EXCEPT ![c] = closeErr']
      BY <1>0, <2>5 DEF CloseInvalid, Return, Goto, reqVars
    <3>2. closeErr' # None /\ written = {}
      BY <3>1, BatchAssumption DEF BatchInv
    <3>3. \A d \in Closers : pc[d] # "done" /\ pc'[d] \notin Owning \cup {"latest"}
      BY <2>2, <3>1 DEF OutcomeInv, Holding, Owning
    <3>4. \A d \in Closers : pc'[d] = "done" => result'[d] = closeErr'
      BY <1>0, <2>2, <3>1, <3>3
    <3> QED
      BY <2>1, <3>1, <3>2, <3>3, <3>4 DEF OutcomeInv
  <2>6. CASE CloseBatch(c)
    <3>1. /\ UNCHANGED <<retained, spans, closeErr, result, written>> /\ ~closed /\ closed'
          /\ pc[c] = "close" /\ pc'[c] = "take"
      BY <1>0, <2>6 DEF CloseBatch, Goto, reqVars
    <3>2. closeErr = None /\ \A d \in Closers : pc'[d] # "done"
      BY <2>2, <3>1 DEF OutcomeInv
    <3>3. pc'[c] \in Owning
      BY <3>1 DEF Owning
    <3> QED
      BY <2>1, <3>1, <3>2, <3>3 DEF OutcomeInv
  <2>7. CASE TakeBatch(c) \/ Discover(c)
    <3>1. /\ UNCHANGED <<closed, closeErr, result, written>>
          /\ pc[c] \in Owning /\ pc'[c] \in Owning /\ pc'[c] # "done"
      BY <1>0, <2>7 DEF TakeBatch, Discover, Goto, Owning
    <3>2. spans' = 0 => retained' = {}
      BY <2>7 DEF TakeBatch, Discover, reqVars, OutcomeInv
    <3> QED
      BY <2>1, <2>2, <3>1, <3>2 DEF OutcomeInv
  <2>8. CASE WriteSink(c)
    <3>1. /\ UNCHANGED <<retained, spans, closed, closeErr, result>> /\ written' # {}
          /\ pc[c] = "sink" /\ pc'[c] = "latest"
      BY <1>0, <2>8 DEF WriteSink, Goto, reqVars
    <3>2. closeErr = None /\ \A d \in Closers : pc'[d] # "done"
      BY <2>2, <3>1 DEF OutcomeInv, Owning
    <3> QED
      BY <2>1, <3>1, <3>2 DEF OutcomeInv
  <2>9. CASE TakeNothing(c) \/ FinishSink(c) \/ FlushFails(c)
    <3>1. /\ UNCHANGED <<retained, spans, closed, written>>
          /\ pc[c] \in Owning \cup {"latest"} /\ pc'[c] = "done"
          /\ result' = [result EXCEPT ![c] = closeErr']
          /\ Acknowledged # {} => (closeErr' = None => written # {})
          /\ closeErr' \notin {None, "sink"} => written = {}
      <4>1. /\ pc[c] \in Owning \cup {"latest"} /\ pc'[c] = "done"
            /\ UNCHANGED <<retained, spans, closed, written>>
        BY <1>0, <2>9 DEF TakeNothing, FinishSink, FlushFails, Return, Goto, Owning, reqVars
      <4>2. closeErr = None /\ (pc[c] \in Owning => written = {})
        BY <4>1 DEF OutcomeInv, BatchInv
      <4>3. CASE TakeNothing(c)
        <5>1. Acknowledged = {}
          BY <4>3 DEF TakeNothing, BatchInv, OutcomeInv
        <5> QED
          BY <4>1, <4>2, <4>3, <5>1 DEF TakeNothing, Return
      <4>4. CASE FinishSink(c)
        <5>1. written = {Acknowledged}
          BY <4>4 DEF FinishSink, BatchInv
        <5> QED
          BY <4>1, <4>2, <4>4, <5>1 DEF FinishSink, Return
      <4>5. CASE FlushFails(c)
        <5>1. /\ closeErr' \in {"discovery", "sink"} /\ closeErr' # None
              /\ closeErr' # "sink" => pc[c] \in Owning
          BY <4>5, BatchAssumption DEF FlushFails, Failure, Owning
        <5> QED
          BY <4>1, <4>2, <4>5, <5>1 DEF FlushFails, Return
      <4> QED
        BY <2>9, <4>3, <4>4, <4>5
    <3>2. /\ closed
          /\ \A d \in Closers : d # c =>
               pc'[d] \notin Owning \cup {"latest"} /\ pc'[d] # "done"
      BY <2>2, <3>1 DEF BatchInv, OutcomeInv, Owning, Holding
    <3>3. /\ pc'[c] \notin Owning \cup {"latest"}
          /\ \A d \in Closers : pc'[d] = "done" => result'[d] = closeErr'
      BY <1>0, <3>1, <3>2 DEF Owning
    <3> QED
      BY <2>1, <3>1, <3>2, <3>3 DEF OutcomeInv
  <2> QED
    BY <1>3, <2>3, <2>4, <2>5, <2>6, <2>7, <2>8, <2>9 DEF Close
<1> QED
  BY <1>1, <1>2, <1>3 DEF Next

\* However many calls of Close there are, and however they interleave with the
\* requests and with failing writes, all return the same: no error only when
\* the acknowledged requests are published, and an error other than the sink's
\* only when they are not.
THEOREM CloseIsDecided == Spec => []SameOutcome
<1>1. BatchInv /\ OutcomeInv => SameOutcome
  <2> SUFFICES ASSUME BatchInv, OutcomeInv PROVE SameOutcome
    OBVIOUS
  <2>1. \A c \in Closers : pc[c] = "done" => closed /\ result[c] = closeErr
    BY DEF OutcomeInv
  <2>2. ASSUME NEW c \in Closers, pc[c] = "done", Acknowledged # {}
        PROVE  IF written = {} THEN result[c] # None ELSE result[c] \in {None, "sink"}
    <3>1. \A d \in Closers : pc[d] \notin Owning
      BY <2>2 DEF OutcomeInv
    <3> QED
      BY <2>1, <2>2, <3>1 DEF OutcomeInv
  <2> QED
    BY <2>1, <2>2 DEF SameOutcome
<1>2. Spec => []OutcomeInv
  <2>1. BatchInv /\ OutcomeInv /\ [Next]_vars => OutcomeInv'
    BY OutcomeStep
  <2> QED
    BY <2>1, OutcomeInit, Invariant, PTL DEF Spec
<1> QED
  BY <1>1, <1>2, Invariant, PTL

-----------------------------------------------------------------------------
\* An initial state of the batch is one of the atomic batch.
LEMMA RefinesInit == Init => Batch!Init
<1> SUFFICES ASSUME Init PROVE Batch!Init
  OBVIOUS
<1>1. Acknowledged = {} /\ Phase = "open" /\ written = {}
  BY BatchAssumption DEF Init, Acknowledged, Phase
<1> QED
  BY <1>1 DEF Batch!Init

\* Every step is a step of the atomic batch or a stutter.
LEMMA RefinesStep ==
  ASSUME BatchInv, BatchInv', [Next]_vars
  PROVE  [Batch!Next]_(Batch!vars)
<1>0. /\ TypeOK /\ pc \in [Closers -> Labels]
      /\ \A d \in Closers : pc[d] \in Holding <=> flushMu = d
  BY DEF BatchInv, TypeOK
<1>1. CASE UNCHANGED vars \/ Finished
  BY <1>1 DEF vars, reqVars, Finished, Phase, Owned, Acknowledged, Batch!vars
<1>2. ASSUME NEW r \in Requests, NEW n \in Sizes, Ingest(r, n)
      PROVE  [Batch!Next]_(Batch!vars)
  <2>1. n \in Nat /\ UNCHANGED <<closed, pc, written>> /\ Owned' = Owned
    BY <1>2, BatchAssumption DEF Ingest, Owned
  <2>2. CASE Refuse(r, n)
    <3>1. Acknowledged' = Acknowledged /\ UNCHANGED terminalErr
      BY <1>0, <2>1, <2>2, AnswerKeeps DEF Refuse
    <3> QED
      BY <2>1, <3>1 DEF Phase, Batch!vars
  <2>3. CASE Overflow(r, n)
    <3>1. Acknowledged' = Acknowledged
      BY <1>0, <2>1, <2>3, AnswerKeeps DEF Overflow
    <3>2. Phase = "open" /\ Phase' = "invalid"
      BY <2>3, BatchAssumption DEF Overflow, Poison, Phase
    <3> QED
      BY <2>1, <3>1, <3>2 DEF Batch!Next, Batch!Invalidate
  <2>4. CASE Accept(r, n)
    <3>1. Acknowledged' = Acknowledged \/ Acknowledged' = Acknowledged \cup {r}
      BY <1>0, <2>1, <2>4, AnswerKeeps DEF Accept
    <3>2. Phase = "open" /\ Phase' = "open"
      BY <2>1, <2>4 DEF Accept, Open, Phase
    <3> QED
      BY <2>1, <3>1, <3>2 DEF Batch!Next, Batch!Accept, Batch!vars
  <2> QED
    BY <1>2, <2>2, <2>3, <2>4 DEF Ingest
<1>3. ASSUME NEW c \in Closers, Close(c) PROVE [Batch!Next]_(Batch!vars)
  <2>1. UNCHANGED terminalErr /\ Acknowledged' = Acknowledged
    BY <1>3 DEF Close, LockFlush, CloseAgain, CloseInvalid, CloseBatch, TakeNothing,
                TakeBatch, Discover, WriteSink, FinishSink, FlushFails, reqVars, Acknowledged
  <2>2. /\ \A d \in Closers : d # c => pc'[d] = pc[d]
        /\ pc[c] \in Holding => \A d \in Closers : d # c => pc[d] \notin Owning
    BY <1>0, <1>3 DEF Close, LockFlush, CloseAgain, CloseInvalid, CloseBatch, TakeNothing,
                TakeBatch, Discover, WriteSink, FinishSink, FlushFails, Return, Goto,
                Holding, Owning
  <2>3. CASE LockFlush(c) \/ CloseAgain(c)
    <3>1. /\ UNCHANGED <<closed, written>>
          /\ pc[c] \in {"idle", "close"} /\ pc'[c] \in {"close", "done"}
      BY <1>0, <2>3 DEF LockFlush, CloseAgain, Return, Goto
    <3>2. Owned' = Owned
      BY <2>2, <3>1 DEF Owned
    <3> QED
      BY <2>1, <3>1, <3>2 DEF Phase, Batch!vars
  <2>4. CASE CloseInvalid(c)
    <3>1. /\ pc[c] = "close" /\ pc'[c] = "done" /\ ~closed /\ closed' = TRUE
          /\ UNCHANGED written
      BY <1>0, <2>4 DEF CloseInvalid, Return, Goto
    <3>2. ~Owned'
      BY <2>2, <3>1 DEF Owned, Holding, Owning
    <3>3. CASE terminalErr # None
      BY <2>1, <3>1, <3>3 DEF Phase, Batch!vars
    <3>4. CASE terminalErr = None
      <4>1. Phase = "open" /\ Phase' = "settled"
        BY <2>1, <3>1, <3>2, <3>4 DEF Phase
      <4> QED
        BY <2>1, <3>1, <4>1 DEF Batch!Next, Batch!Abandon
    <3> QED
      BY <3>3, <3>4
  <2>5. CASE CloseBatch(c)
    <3>1. /\ pc'[c] = "take" /\ ~closed /\ terminalErr = None /\ closed' = TRUE
          /\ UNCHANGED written
      BY <1>0, <2>5 DEF CloseBatch, Goto
    <3>2. Phase = "open" /\ Phase' = "sealed"
      BY <2>1, <3>1 DEF Phase, Owned
    <3> QED
      BY <2>1, <3>1, <3>2 DEF Batch!Next, Batch!Seal
  <2>6. CASE TakeBatch(c) \/ Discover(c)
    <3>1. /\ UNCHANGED <<closed, written>>
          /\ pc[c] \in {"take", "discover"} /\ pc'[c] \in {"discover", "sink"}
      BY <1>0, <2>6 DEF TakeBatch, Discover, Goto
    <3>2. Owned /\ Owned'
      BY <3>1 DEF Owned
    <3> QED
      BY <2>1, <3>1, <3>2 DEF Phase, Batch!vars
  <2>7. CASE pc[c] \in Owning /\ (TakeNothing(c) \/ WriteSink(c) \/ FlushFails(c))
    <3>1. /\ UNCHANGED <<closed, taken>> /\ pc[c] \in Owning
          /\ pc'[c] \in {"latest", "done"}
          /\ \/ UNCHANGED written
             \/ pc[c] = "sink" /\ written' = written \cup {taken}
      BY <1>0, <2>7 DEF TakeNothing, WriteSink, FlushFails, Return, Goto
    <3>2. closed /\ terminalErr = None /\ (pc[c] = "sink" => taken = Acknowledged)
      BY <3>1 DEF BatchInv
    <3>3. Owned /\ ~Owned'
      BY <2>2, <3>1 DEF Owned, Holding, Owning
    <3>4. Phase = "sealed" /\ Phase' = "settled"
      BY <2>1, <3>1, <3>2, <3>3 DEF Phase
    <3> QED
      BY <2>1, <3>1, <3>2, <3>4 DEF Batch!Next, Batch!Abandon, Batch!Publish
  <2>8. CASE pc[c] = "latest" /\ (FinishSink(c) \/ FlushFails(c))
    <3>1. UNCHANGED <<closed, written>> /\ pc'[c] = "done"
      BY <1>0, <2>8 DEF FinishSink, FlushFails, Return, Goto
    <3>2. ~Owned /\ ~Owned'
      BY <2>2, <2>8, <3>1 DEF Owned, Holding, Owning
    <3> QED
      BY <2>1, <3>1, <3>2 DEF Phase, Batch!vars
  <2> QED
    BY <1>3, <2>3, <2>4, <2>5, <2>6, <2>7, <2>8
    DEF Close, TakeNothing, WriteSink, FinishSink, FlushFails, Owning
<1> QED
  BY <1>1, <1>2, <1>3 DEF Next

\* The on_shutdown mode implements AtomicBatch.
THEOREM BatchRefines == Spec => Refines
<1>1. BatchInv /\ BatchInv' /\ [Next]_vars => [Batch!Next]_(Batch!vars)
  BY RefinesStep
<1> QED
  BY <1>1, RefinesInit, Invariant, PTL DEF Spec, Refines, Batch!Spec
=============================================================================
