--------------------------- MODULE ServiceProofs ---------------------------
(***************************************************************************)
(* Proofs about Service.  The phases of Run form the inductive invariant:  *)
(* what has been drained and waited for at each of them, on the path that  *)
(* leads to Close.  The error path gives no such promise, nor need it.     *)
(***************************************************************************)
EXTENDS Service, TLAPS

AfterHttp == {"grpc", "wait", "close", "closing"}
AfterGrpc == {"wait", "close", "closing"}
Closing == {"close", "closing"}

\* A drained server has no handler, on any path that can reach Close.
DrainedForGood ==
  cause # "error" /\ run # "returned" =>
    \A r \in Requests : request[r] = "active" => ServerOf(r) \notin down

Phases ==
  /\ cause = "ctx" => ctxDone
  /\ run \in {"listen", "select"} => cause = None
  /\ run \notin {"listen", "select", "returned"} => cause # None
  /\ cause = "ctx" /\ run \in AfterHttp => "http" \in down
  /\ cause = "ctx" /\ run \in AfterGrpc => "grpc" \in down
  /\ run \in Closing => cause = "ctx" /\ WorkersGone

\* on_shutdown: no worker flushes, so nothing is published before Run ends.
NoEarlyFlush ==
  onShutdown =>
    /\ worker["ticker"] \in {"off", "exited"}
    /\ published # {} => run = "returned" /\ PublishedAfterDrain

Inv == TypeOK /\ DrainedForGood /\ Phases /\ NoEarlyFlush

-----------------------------------------------------------------------------
(* Each group of actions keeps the invariant.                              *)

\* A request belongs to one of the two servers.
LEMMA ServerOfType == \A r \in Requests : ServerOf(r) \in {"http", "grpc"}
  BY DEF ServerOf

\* Init establishes the invariant.
LEMMA InvInit == Init => Inv
  BY ServiceAssumption DEF Init, Inv, TypeOK, DrainedForGood, Phases, NoEarlyFlush,
     AfterHttp, AfterGrpc, Closing

\* A server that is down takes no request.
LEMMA InvArrive ==
  ASSUME Inv, NEW r \in Requests, Arrive(r)
  PROVE  Inv'
  BY DEF Inv, Arrive, Running, runVars, memory, TypeOK, DrainedForGood, Phases,
     NoEarlyFlush, PublishedAfterDrain, AfterHttp, AfterGrpc, Closing, WorkersGone, ServerOf

\* A handler that answers touches only the memory, and in on_shutdown mode
\* publishes nothing.
LEMMA InvAnswer ==
  ASSUME Inv, NEW r \in Requests, Answer(r)
  PROVE  Inv'
<1> USE DEF Inv, Answer, Running, runVars, IngestWindowed, IngestBatch, Emit, Lose, Fail
<1>1. TypeOK'
  <2>1. invalid' \in BOOLEAN
    BY Zenon DEF TypeOK
  <2>2. request' \in [Requests -> {"idle", "active", "ok", "error"}]
    BY DEF TypeOK
  <2>3. /\ pending' \in SUBSET Requests /\ published' \in SUBSET Requests
        /\ lost' \in SUBSET Requests
    BY DEF TypeOK
  <2>4. UNCHANGED <<runVars, ctxDone, errCh, worker, down, last>>
    OBVIOUS
  <2>5. QED
    BY <2>1, <2>2, <2>3, <2>4 DEF TypeOK, runVars
<1>2. DrainedForGood'
  BY DEF TypeOK, DrainedForGood
<1>3. Phases'
  BY DEF Phases, AfterHttp, AfterGrpc, Closing, WorkersGone
<1>4. NoEarlyFlush'
  BY DEF NoEarlyFlush
<1>5. QED
  BY <1>1, <1>2, <1>3, <1>4

\* The workers: they touch neither Run nor the servers nor the requests.
Worker ==
  \/ Tick \/ Flushed \/ SendFlushError \/ StopTicker
  \/ \E s \in Servers : ServeFails(s) \/ Serve(s)

\* The workers keep the invariant: none of them leaves its final label.
LEMMA InvWorker ==
  ASSUME Inv, Worker
  PROVE  Inv'
<1>1. Servers \subseteq {"http", "grpc"}
  BY DEF Servers
<1>2. /\ Running /\ UNCHANGED <<runVars, ctxDone, down, request>>
      /\ UNCHANGED <<last, invalid>>
  BY DEF Worker, Tick, Flushed, SendFlushError, StopTicker, ServeFails, Serve,
     SendServeError, ServeEnds, runVars, memory
<1>3. \E w \in {"http", "grpc", "ticker"}, l \in {"idle", "flushing", "failed", "exited"} :
        /\ worker' = [worker EXCEPT ![w] = l]
        /\ worker[w] # "exited"
        /\ onShutdown => w # "ticker"
  <2>1. CASE Tick \/ Flushed \/ SendFlushError \/ StopTicker
    BY <2>1 DEF Inv, NoEarlyFlush, Tick, Flushed, SendFlushError, StopTicker, Move
  <2>2. CASE \E s \in Servers : ServeFails(s) \/ Serve(s)
    BY <2>2, <1>1 DEF ServeFails, Serve, SendServeError, ServeEnds, Move
  <2>3. QED
    BY <2>1, <2>2 DEF Worker
<1>4. /\ errCh' \in {"http", "grpc", "ticker", None}
      /\ pending' \in SUBSET Requests /\ published' \in SUBSET Requests
      /\ lost' \in SUBSET Requests
      /\ onShutdown => published' = published
  BY <1>1 DEF Inv, TypeOK, NoEarlyFlush, Worker, Tick, Flushed, SendFlushError,
     StopTicker, ServeFails, Serve, SendServeError, ServeEnds, Sent, Emit, Lose, Fail,
     memory
<1>5. TypeOK'
  BY <1>2, <1>3, <1>4 DEF Inv, TypeOK, runVars
<1>6. DrainedForGood'
  BY <1>2 DEF Inv, DrainedForGood, runVars
<1>7. Phases'
  BY <1>2, <1>3 DEF Inv, TypeOK, Phases, WorkersGone, Closing, AfterHttp, AfterGrpc,
     runVars
<1>8. NoEarlyFlush'
  BY <1>2, <1>3, <1>4 DEF Inv, TypeOK, NoEarlyFlush, Running, runVars
<1>9. QED
  BY <1>5, <1>6, <1>7, <1>8 DEF Inv

\* A server goes down when it has no handler, or by force on a path that
\* does not reach Close.
LEMMA InvDrain ==
  ASSUME Inv,
         \/ Drained("http", "grpc") \/ TooLate("http", "grpc")
         \/ Drained("grpc", "wait") \/ TooLate("grpc", "wait")
  PROVE  Inv'
<1> USE DEF Drained, TooLate, Idle, memory
<1>1. TypeOK'
  <2>1. CASE Drained("http", "grpc")
    BY <2>1 DEF Inv, TypeOK
  <2>2. CASE TooLate("http", "grpc")
    BY <2>2 DEF Inv, TypeOK
  <2>3. CASE Drained("grpc", "wait")
    BY <2>3 DEF Inv, TypeOK
  <2>4. CASE TooLate("grpc", "wait")
    BY <2>4 DEF Inv, TypeOK
  <2>5. QED
    BY <2>1, <2>2, <2>3, <2>4
<1>2. DrainedForGood'
  BY DEF Inv, DrainedForGood, Phases, TypeOK
<1>3. Phases'
  BY DEF Inv, TypeOK, Phases, AfterHttp, AfterGrpc, Closing, WorkersGone
<1>4. NoEarlyFlush'
  BY DEF Inv, NoEarlyFlush
<1>5. QED
  BY <1>1, <1>2, <1>3, <1>4 DEF Inv

\* The steps of Run before and between the drains, and the environment's.
LEMMA InvBegin ==
  ASSUME Inv, Listen \/ Select \/ CallShutdown \/ Wait \/ Cancel \/ Expire
  PROVE  Inv'
<1> USE ServiceAssumption
    DEF Listen, Select, Asked, CallShutdown, Wait, Cancel, Expire, runVars, memory
<1>1. TypeOK'
  <2>1. CASE Listen
    <3>1. worker' \in [{"http", "grpc", "ticker"} ->
                         {"off", "idle", "flushing", "failed", "exited"}]
      BY <2>1 DEF Inv, TypeOK
    <3>2. QED
      BY <2>1, <3>1 DEF Inv, TypeOK
  <2>2. CASE Select
    BY <2>2 DEF Inv, TypeOK
  <2>3. CASE CallShutdown
    BY <2>3 DEF Inv, TypeOK
  <2>4. CASE Wait
    BY <2>4 DEF Inv, TypeOK
  <2>5. CASE Cancel
    BY <2>5 DEF Inv, TypeOK
  <2>6. CASE Expire
    BY <2>6 DEF Inv, TypeOK
  <2>7. QED
    BY <2>1, <2>2, <2>3, <2>4, <2>5, <2>6
<1>2. DrainedForGood'
  BY DEF Inv, DrainedForGood, Phases, TypeOK
<1>3. Phases'
  BY DEF Inv, TypeOK, Phases, AfterHttp, AfterGrpc, Closing, WorkersGone
<1>4. NoEarlyFlush'
  BY DEF Inv, TypeOK, NoEarlyFlush, PublishedAfterDrain, Workers, Servers
<1>5. QED
  BY <1>1, <1>2, <1>3, <1>4 DEF Inv

\* Close publishes after both drains.
LEMMA InvClose ==
  ASSUME Inv, Close \/ Closed
  PROVE  Inv'
<1> USE DEF Close, Closed, Report, Emit, Lose, Fail
<1>1. TypeOK'
  BY DEF Inv, TypeOK
<1>2. DrainedForGood'
  BY DEF Inv, DrainedForGood
<1>3. Phases'
  BY DEF Inv, Phases, AfterHttp, AfterGrpc, Closing, WorkersGone
<1>4. NoEarlyFlush'
  <2>1. CASE Close
    BY <2>1 DEF Inv, NoEarlyFlush
  <2>2. CASE Closed
    <3>1. /\ ctxDone /\ {"http", "grpc"} \subseteq down
          /\ \A r \in Requests : request[r] # "active"
      BY <2>2, ServerOfType DEF Inv, Phases, DrainedForGood, AfterHttp, AfterGrpc, Closing
    <3>2. PublishedAfterDrain'
      BY <2>2, <3>1 DEF PublishedAfterDrain, Servers
    <3>3. QED
      BY <2>2, <3>2 DEF Inv, NoEarlyFlush
  <2>3. QED
    BY <2>1, <2>2
<1>5. QED
  BY <1>1, <1>2, <1>3, <1>4 DEF Inv

\* Every step keeps the invariant.
LEMMA InvNext == Inv /\ [Next]_vars => Inv'
<1> SUFFICES ASSUME Inv, [Next]_vars PROVE Inv'
  OBVIOUS
<1>1. CASE UNCHANGED vars
  BY <1>1 DEF Inv, vars, runVars, memory, TypeOK, DrainedForGood, Phases, NoEarlyFlush,
     PublishedAfterDrain, WorkersGone, AfterHttp, AfterGrpc, Closing
<1>2. CASE Worker
  BY <1>2, InvWorker
<1>3. CASE Listen \/ Select \/ CallShutdown \/ Wait \/ Cancel \/ Expire
  BY <1>3, InvBegin
<1>4. CASE \/ Drained("http", "grpc") \/ TooLate("http", "grpc")
           \/ Drained("grpc", "wait") \/ TooLate("grpc", "wait")
  BY <1>4, InvDrain
<1>5. CASE Close \/ Closed
  BY <1>5, InvClose
<1>6. CASE \E r \in Requests : Arrive(r) \/ Answer(r)
  BY <1>6, InvArrive, InvAnswer
<1>7. QED
  BY <1>1, <1>2, <1>3, <1>4, <1>5, <1>6 DEF Next, Run, Worker, Returned

\* The invariant holds in every reachable state.
LEMMA Invariance == Spec => []Inv
  BY InvInit, InvNext, PTL DEF Spec

\* Close runs alone, whatever the number of requests and whichever way the
\* servers and the workers ended.
THEOREM CloseRunsAlone == Spec => []AloneAtClose
<1>1. Inv => AloneAtClose
  BY ServerOfType DEF Inv, AloneAtClose, Phases, DrainedForGood, WorkersGone, Closing,
     AfterHttp, AfterGrpc
<1>2. QED
  BY <1>1, Invariance, PTL

\* on_shutdown publishes nothing before the servers are drained.
THEOREM DrainedBeforePublished == Spec => []PublishedAfterDrain
<1>1. Inv => PublishedAfterDrain
  BY DEF Inv, NoEarlyFlush, PublishedAfterDrain
<1>2. QED
  BY <1>1, Invariance, PTL

-----------------------------------------------------------------------------
(* The exit status.  In on_shutdown mode what is in memory is all that was *)
(* acknowledged, until Close takes it and after that; in windowed mode it  *)
(* matters only that nothing comes in behind Close.                        *)

ExitInv ==
  /\ result = "ok" => run = "returned" /\ pending = {} /\ last = {}
  /\ run = "closing" => pending = {}
  /\ onShutdown =>
       /\ run \notin {"closing", "returned"} => Acknowledged = pending
       /\ run = "closing" => Acknowledged = last
       /\ result = "ok" => Acknowledged = published

\* ExitInv is kept: no handler answers once Run is in Close, and no worker
\* flushes in on_shutdown mode.
LEMMA ExitStep ==
  ASSUME Inv, ExitInv, [Next]_vars
  PROVE  ExitInv'
<1>1. CASE UNCHANGED vars \/ Returned
  BY <1>1 DEF Returned, vars, runVars, memory, ExitInv, Acknowledged
<1>2. ASSUME NEW r \in Requests, Arrive(r) PROVE ExitInv'
  <2>1. Acknowledged' = Acknowledged
    BY <1>2 DEF Arrive, Acknowledged, Inv, TypeOK
  <2> QED
    BY <1>2, <2>1 DEF Arrive, runVars, memory, ExitInv
<1>3. ASSUME NEW r \in Requests, Answer(r) PROVE ExitInv'
  <2>1. run \notin {"closing", "returned", "listen"} /\ UNCHANGED <<run, result, onShutdown, last>>
    <3>1. run # "closing"
      BY <1>3, ServerOfType DEF Answer, Inv, Phases, DrainedForGood, Closing, AfterHttp, AfterGrpc
    <3> QED
      BY <1>3, <3>1 DEF Answer, Running, runVars
  <2>2. request \in [Requests -> {"idle", "active", "ok", "error"}] /\ request[r] = "active"
    BY <1>3 DEF Answer, Inv, TypeOK
  <2>3. ASSUME onShutdown PROVE Acknowledged' = pending'
    <3>1. Acknowledged = pending
      BY <2>1, <2>3 DEF ExitInv
    <3>2. \/ request' = [request EXCEPT ![r] = "ok"] /\ pending' = pending \cup {r}
          \/ request' = [request EXCEPT ![r] = "error"] /\ pending' = pending
      BY <1>3, <2>3 DEF Answer, IngestBatch
    <3> QED
      BY <2>2, <3>1, <3>2 DEF Acknowledged
  <2> QED
    BY <2>1, <2>3 DEF ExitInv
<1>4. CASE Worker
  <2>1. /\ Running /\ UNCHANGED <<runVars, request, last>>
        /\ onShutdown => UNCHANGED pending
        /\ run = "closing" => UNCHANGED pending
    <3>1. Servers \subseteq {"http", "grpc"}
      BY DEF Servers
    <3>2. run = "closing" \/ onShutdown => worker["ticker"] \in {"off", "exited"}
      BY DEF Inv, Phases, NoEarlyFlush, WorkersGone, TypeOK, Closing
    <3> QED
      BY <1>4, <3>1, <3>2 DEF Worker, Tick, Flushed, SendFlushError, StopTicker, ServeFails,
         Serve, SendServeError, ServeEnds, memory
  <2>2. Acknowledged' = Acknowledged /\ run # "returned"
    BY <2>1 DEF Acknowledged, Running
  <2> QED
    BY <2>1, <2>2 DEF ExitInv, runVars
<1>5. CASE Listen \/ Select \/ CallShutdown \/ Wait \/ Cancel \/ Expire
  <2>1. UNCHANGED <<request, memory, onShutdown>> /\ Acknowledged' = Acknowledged
    BY <1>5 DEF Listen, Select, CallShutdown, Wait, Cancel, Expire, runVars, Acknowledged
  <2>2. /\ run' = "closing" <=> run = "closing"
        /\ run' # "returned" => run # "returned"
        /\ result' = "ok" => result = "ok" /\ run' = "returned"
    BY <1>5 DEF Listen, Select, CallShutdown, Wait, Cancel, Expire, runVars, ExitInv
  <2> QED
    BY <2>1, <2>2 DEF ExitInv, memory
<1>6. CASE \/ Drained("http", "grpc") \/ TooLate("http", "grpc")
           \/ Drained("grpc", "wait") \/ TooLate("grpc", "wait")
  <2>1. UNCHANGED <<request, memory, onShutdown>> /\ Acknowledged' = Acknowledged
    BY <1>6 DEF Drained, TooLate, Acknowledged
  <2>2. run \in {"http", "grpc"} /\ run' # "closing" /\ result' # "ok"
    BY <1>6 DEF Drained, TooLate, ExitInv
  <2> QED
    BY <2>1, <2>2 DEF ExitInv, memory
<1>7. CASE Close
  <2>1. UNCHANGED <<request, onShutdown, published>> /\ Acknowledged' = Acknowledged
    BY <1>7 DEF Close, Acknowledged
  <2> QED
    BY <1>7, <2>1 DEF Close, Report, ExitInv
<1>8. CASE Closed
  <2>1. UNCHANGED <<request, onShutdown, pending>> /\ Acknowledged' = Acknowledged
    BY <1>8 DEF Closed, Acknowledged
  <2>2. onShutdown => published = {}
    BY <1>8 DEF Closed, Inv, NoEarlyFlush
  <2> QED
    BY <1>8, <2>1, <2>2 DEF Closed, Report, Emit, Lose, Fail, ExitInv
<1> QED
  BY <1>1, <1>2, <1>3, <1>4, <1>5, <1>6, <1>7, <1>8 DEF Next, Run, Worker

\* A Run that returns no error has left nothing in memory, and in on_shutdown
\* mode has published every acknowledged request.
THEOREM ExitIsHonest == Spec => []ExitStatus
<1>1. Init => ExitInv
  BY ServiceAssumption DEF Init, ExitInv, Acknowledged
<1>2. Inv /\ ExitInv /\ [Next]_vars => ExitInv'
  BY ExitStep
<1>3. ExitInv => ExitStatus
  BY DEF ExitInv, ExitStatus
<1> QED
  BY <1>1, <1>2, <1>3, Invariance, PTL DEF Spec
=============================================================================
