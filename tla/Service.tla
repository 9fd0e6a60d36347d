------------------------------ MODULE Service ------------------------------
(***************************************************************************)
(* The lifetime of the runtime: Service.Run of internal/runtime/service.go *)
(* with its flush worker, its two serve workers and the export handlers.   *)
(*                                                                         *)
(* Run waits in a select for its context or for the first error a worker   *)
(* sends on errCh, a channel of capacity one; it then drains the servers,  *)
(* waits for the workers, and, if it was the context, flushes what is left.*)
(* Here the engine is only the set of requests whose spans are in memory;  *)
(* Engine and ShutdownBatch have the rest of it.                           *)
(***************************************************************************)
CONSTANTS
  HttpRequests, GrpcRequests,   \* the export requests, per server
  Grpc,                         \* server.grpc_listen_address is set
  None

ASSUME ServiceAssumption ==
  /\ Grpc \in BOOLEAN
  /\ HttpRequests \cap GrpcRequests = {}
  /\ None \notin {"ctx", "error", "http", "grpc", "ticker", "ok"}

VARIABLES
  onShutdown,           \* runtime.publication_mode is "on_shutdown"; it stays
  run,                  \* where Run is
  cause,                \* what ended its select: the context or an error
  result,               \* what Run returned, None before that
  ctxDone,              \* the context of Run is done
  expired,              \* the five seconds of shutdownCtx are over
  errCh,                \* the worker whose error is in the channel, or None
  worker,               \* where each worker is
  down,                 \* the servers that take no more requests
  request,              \* where each request is
  pending,              \* requests whose spans are in memory
  last,                 \* what Close has taken and not yet written
  published, lost,      \* requests whose snapshot is in place, or given up
  invalid               \* Engine.terminalErr is set

runVars == <<onShutdown, run, cause, result, expired>>
memory == <<pending, last, published, lost, invalid>>
vars == <<runVars, ctxDone, errCh, worker, down, request, memory>>

Requests == HttpRequests \cup GrpcRequests
ServerOf(r) == IF r \in HttpRequests THEN "http" ELSE "grpc"

Servers == IF Grpc THEN {"http", "grpc"} ELSE {"http"}

\* on_shutdown has no flush worker.
MutantWorkers == Servers \cup {"ticker"}

Workers == Servers \cup (IF onShutdown THEN {} ELSE {"ticker"})

Init ==
  /\ onShutdown \in BOOLEAN
  /\ run = "listen" /\ cause = None /\ result = None
  /\ ctxDone = FALSE /\ expired = FALSE
  /\ errCh = None
  /\ worker = [w \in {"http", "grpc", "ticker"} |-> "off"]
  /\ down = {}
  /\ request = [r \in Requests |-> "idle"]
  /\ pending = {} /\ last = {} /\ published = {} /\ lost = {}
  /\ invalid = FALSE

Running == run \notin {"listen", "returned"}
-----------------------------------------------------------------------------
(* The context, the deadline, and the handlers.                            *)

Cancel ==
  /\ ~ctxDone
  /\ ctxDone' = TRUE
  /\ UNCHANGED <<runVars, errCh, worker, down, request, memory>>

\* on_shutdown drains without a deadline, except after an error.
HasDeadline == cause = "error" \/ (cause = "ctx" /\ ~onShutdown)

Expire ==
  /\ Running /\ HasDeadline /\ ~expired
  /\ run # "unready"
  /\ expired' = TRUE
  /\ UNCHANGED <<onShutdown, run, cause, result, ctxDone, errCh, worker, down, request, memory>>

Arrive(r) ==
  /\ Running
  /\ request[r] = "idle"
  /\ ServerOf(r) \notin down
  /\ request' = [request EXCEPT ![r] = "active"]
  /\ UNCHANGED <<runVars, ctxDone, errCh, worker, down, memory>>

Emit(batch) == published' = published \cup batch /\ UNCHANGED lost
Lose(batch) == lost' = lost \cup batch /\ UNCHANGED published

\* A flush that returns an error may have its snapshot in place already: the
\* sink goes on to write a sidecar and the latest file.
Fail(batch) == Emit(batch) \/ Lose(batch)

\* A windowed request first flushes the windows that are due.
IngestWindowed(r) ==
  \/ /\ pending' = pending \cup {r}
     /\ request' = [request EXCEPT ![r] = "ok"]
     /\ UNCHANGED <<published, lost, invalid>>
  \/ /\ Emit(pending)
     /\ pending' = {r}
     /\ request' = [request EXCEPT ![r] = "ok"]
     /\ UNCHANGED invalid
  \/ /\ Fail(pending)
     /\ pending' = {}
     /\ request' = [request EXCEPT ![r] = "error"]
     /\ UNCHANGED invalid

\* An on_shutdown request joins the batch, or invalidates it, or comes late.
IngestBatch(r) ==
  \/ /\ ~invalid /\ run # "closing"
     /\ pending' = pending \cup {r}
     /\ request' = [request EXCEPT ![r] = "ok"]
     /\ UNCHANGED <<published, lost, invalid>>
  \/ /\ invalid' = (invalid \/ run # "closing")
     /\ request' = [request EXCEPT ![r] = "error"]
     /\ UNCHANGED <<pending, published, lost>>

\* The handler answers: the body does not decode, or Ingest has returned.
Answer(r) ==
  /\ Running
  /\ request[r] = "active"
  /\ \/ /\ request' = [request EXCEPT ![r] = "error"]
        /\ UNCHANGED <<pending, published, lost, invalid>>
     \/ IF onShutdown THEN IngestBatch(r) ELSE IngestWindowed(r)
  /\ UNCHANGED <<runVars, ctxDone, errCh, worker, down, last>>
-----------------------------------------------------------------------------
(* The workers.                                                            *)

Move(w, label) == worker' = [worker EXCEPT ![w] = label]

\* The flush worker's select chooses either of two ready channels.
Tick ==
  /\ Running
  /\ worker["ticker"] = "idle"
  /\ Move("ticker", "flushing")
  /\ UNCHANGED <<runVars, ctxDone, errCh, down, request, memory>>

Flushed ==
  /\ Running
  /\ worker["ticker"] = "flushing"
  /\ \/ /\ Emit(pending)
        /\ pending' = {}
        /\ Move("ticker", "idle")
     \/ /\ UNCHANGED <<pending, published, lost>>
        /\ Move("ticker", "idle")
     \/ /\ Fail(pending)
        /\ pending' = {}
        /\ Move("ticker", "failed")
  /\ UNCHANGED <<runVars, ctxDone, errCh, down, request, last, invalid>>

\* It sends its error on errCh, and waits while the channel is full.
SendFlushError ==
  /\ Running
  /\ worker["ticker"] = "failed"
  /\ errCh = None
  /\ errCh' = "ticker"
  /\ Move("ticker", "exited")
  /\ UNCHANGED <<runVars, ctxDone, down, request, memory>>

StopTicker ==
  /\ Running
  /\ worker["ticker"] = "idle"
  /\ ctxDone
  /\ Move("ticker", "exited")
  /\ UNCHANGED <<runVars, ctxDone, errCh, down, request, memory>>

\* Has Run told the server to stop?
Told(s) ==
  IF s = "http" THEN run \notin {"listen", "select", "unready"}
  ELSE run \in {"grpc", "wait", "close", "closing", "returned"}

ServeFails(s) ==
  /\ Running
  /\ worker[s] = "idle" /\ ~Told(s)
  /\ Move(s, "failed")
  /\ UNCHANGED <<runVars, ctxDone, errCh, down, request, memory>>

\* sendServeError drops the error when the channel is full.
MutantSent(s) == errCh = None /\ errCh' = s

Sent(s) == errCh' = IF errCh = None THEN s ELSE errCh

SendServeError(s) ==
  /\ Running
  /\ worker[s] = "failed"
  /\ Sent(s)
  /\ Move(s, "exited")
  /\ UNCHANGED <<runVars, ctxDone, down, request, memory>>

\* http.Serve returns as soon as Shutdown is called, grpc.Serve when the
\* server has stopped; neither is an error.
ServeEnds(s) ==
  /\ Running
  /\ worker[s] = "idle"
  /\ IF s = "http" THEN Told(s) ELSE s \in down
  /\ Move(s, "exited")
  /\ UNCHANGED <<runVars, ctxDone, errCh, down, request, memory>>
-----------------------------------------------------------------------------
(* Run.                                                                    *)

Listen ==
  /\ run = "listen"
  /\ \/ /\ run' = "select"
        /\ worker' = [w \in DOMAIN worker |-> IF w \in Workers THEN "idle" ELSE "exited"]
        /\ UNCHANGED result
     \/ /\ run' = "returned" /\ result' = "listen"
        /\ UNCHANGED worker
  /\ UNCHANGED <<onShutdown, cause, expired, ctxDone, errCh, down, request, memory>>

\* The select listens to the context Run was given.
MutantAsked == FALSE

Asked == ctxDone

Select ==
  /\ run = "select"
  /\ \/ Asked /\ cause' = "ctx" /\ UNCHANGED errCh
     \/ errCh # None /\ cause' = "error" /\ errCh' = None
  /\ run' = "unready"
  /\ UNCHANGED <<onShutdown, result, expired, ctxDone, worker, down, request, memory>>

CallShutdown ==
  /\ run = "unready"
  /\ run' = "http"
  /\ UNCHANGED <<onShutdown, cause, result, expired, ctxDone, errCh, worker, down, request, memory>>

\* Shutdown and GracefulStop wait for the handlers of their server.
MutantIdle(s) == TRUE

Idle(s) == \A r \in Requests : ServerOf(r) = s => request[r] # "active"

Drained(s, next) ==
  /\ run = s
  /\ Idle(s)
  /\ down' = down \cup {s}
  /\ run' = next
  /\ UNCHANGED <<onShutdown, cause, result, expired, ctxDone, errCh, worker, request, memory>>

\* Past the deadline Run gives up, but after an error it goes on regardless.
\* Only the gRPC server is then stopped by force, and stopGRPCServer still
\* waits for GracefulStop, which waits for its handlers.
TooLate(s, next) ==
  /\ run = s
  /\ s \in Servers
  /\ expired
  /\ s = "grpc" => Idle(s)
  /\ down' = IF s = "grpc" THEN down \cup {s} ELSE down
  /\ IF cause = "ctx" THEN run' = "returned" /\ result' = s
                      ELSE run' = next /\ UNCHANGED result
  /\ UNCHANGED <<onShutdown, cause, expired, ctxDone, errCh, worker, request, memory>>

\* workers.Wait
MutantWorkersGone == TRUE

WorkersGone == \A w \in DOMAIN worker : worker[w] = "exited"

Wait ==
  /\ run = "wait"
  /\ WorkersGone
  /\ IF cause = "ctx" THEN run' = "close" /\ UNCHANGED result
                      ELSE run' = "returned" /\ result' = "worker"
  /\ UNCHANGED <<onShutdown, cause, expired, ctxDone, errCh, worker, down, request, memory>>

Report(err) == err

\* Engine.Close takes what is in memory; an invalid batch it only reports.
Close ==
  /\ run = "close"
  /\ \/ /\ invalid
        /\ run' = "returned" /\ result' = Report("flush")
        /\ UNCHANGED <<pending, last>>
     \/ /\ ~invalid
        /\ last' = pending /\ pending' = {}
        /\ run' = "closing"
        /\ UNCHANGED result
  /\ UNCHANGED <<onShutdown, cause, expired, ctxDone, errCh, worker, down, request,
                 published, lost, invalid>>

Closed ==
  /\ run = "closing"
  /\ run' = "returned"
  /\ \/ Emit(last) /\ result' = "ok"
     \/ Fail(last) /\ result' = Report("flush")
  /\ last' = {}
  /\ UNCHANGED <<onShutdown, cause, expired, ctxDone, errCh, worker, down, request, pending,
                 invalid>>

Returned == run = "returned" /\ UNCHANGED vars
-----------------------------------------------------------------------------
Run ==
  \/ Listen \/ Select \/ CallShutdown
  \/ Drained("http", "grpc") \/ TooLate("http", "grpc")
  \/ Drained("grpc", "wait") \/ TooLate("grpc", "wait")
  \/ Wait \/ Close \/ Closed

Serve(s) == SendServeError(s) \/ ServeEnds(s)

Next ==
  \/ Run \/ Cancel \/ Expire
  \/ \E r \in Requests : Arrive(r) \/ Answer(r)
  \/ Tick \/ Flushed \/ SendFlushError \/ StopTicker
  \/ \E s \in Servers : ServeFails(s) \/ Serve(s)
  \/ Returned

Spec == Init /\ [][Next]_vars

\* The scheduler runs every goroutine, timers fire, and clients finish their
\* requests.  The ticker's select does not pass over the context for ever.
Fairness ==
  /\ WF_vars(Run) /\ WF_vars(Expire)
  /\ \A r \in Requests : WF_vars(Answer(r))
  /\ WF_vars(Flushed) /\ WF_vars(SendFlushError) /\ SF_vars(StopTicker)
  /\ \A s \in Servers : WF_vars(Serve(s))

FairSpec == Spec /\ Fairness
-----------------------------------------------------------------------------
TypeOK ==
  /\ run \in {"listen", "select", "unready", "http", "grpc", "wait", "close",
              "closing", "returned"}
  /\ cause \in {"ctx", "error", None}
  /\ result \in {"ok", "listen", "http", "grpc", "flush", "worker", None}
  /\ onShutdown \in BOOLEAN /\ ctxDone \in BOOLEAN /\ expired \in BOOLEAN /\ invalid \in BOOLEAN
  /\ errCh \in {"http", "grpc", "ticker", None}
  /\ worker \in [{"http", "grpc", "ticker"} ->
                   {"off", "idle", "flushing", "failed", "exited"}]
  /\ down \in SUBSET {"http", "grpc"}
  /\ request \in [Requests -> {"idle", "active", "ok", "error"}]
  /\ pending \in SUBSET Requests /\ last \in SUBSET Requests
  /\ published \in SUBSET Requests /\ lost \in SUBSET Requests

\* Close runs alone: no handler, no worker and no server is left that could
\* touch the engine.  Engine and ShutdownBatch rely on it.
AloneAtClose ==
  run \in {"close", "closing"} =>
    /\ \A r \in Requests : request[r] # "active" /\ ServerOf(r) \in down
    /\ \A w \in DOMAIN worker : worker[w] = "exited"

\* A Run that returns no error has left nothing in memory, and in on_shutdown
\* mode every acknowledged request is published.
Acknowledged == {r \in Requests : request[r] = "ok"}

ExitStatus ==
  result = "ok" =>
    /\ pending = {} /\ last = {}
    /\ onShutdown => Acknowledged = published

\* docs/runtime-config.md: on_shutdown publishes only after the service has
\* drained active requests on shutdown.
PublishedAfterDrain ==
  onShutdown /\ published # {} =>
    /\ ctxDone /\ Servers \subseteq down
    /\ \A r \in Requests : request[r] # "active"

\* Once its context is done, or it has left its select, Run returns, unless the
\* flush worker holds it: blocked on a full errCh, or waiting, after another
\* worker's error, for a context that nobody cancels.  Nothing holds it in
\* on_shutdown mode, which has no flush worker.
HeldByTicker ==
  \/ worker["ticker"] = "failed" /\ errCh # None
  \/ worker["ticker"] \in {"idle", "flushing"} /\ ~ctxDone

Terminates ==
  <>(ctxDone \/ cause # None) => <>(run = "returned") \/ <>[]HeldByTicker

\* Run returns once its context is done.
StopsInTime == ctxDone ~> run = "returned"
=============================================================================
