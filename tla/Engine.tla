------------------------------- MODULE Engine -------------------------------
(***************************************************************************)
(* The windowed publication mode of internal/runtime/engine.go.            *)
(*                                                                         *)
(* Three kinds of goroutine share one Engine: the OTLP handlers, which     *)
(* call IngestWithSource; the flush worker of Service.Run, which calls     *)
(* FlushDue; and Service.Run itself, which calls Close once the others are *)
(* gone.  flushMu serialises the flushes; mu protects the open window and  *)
(* is released while a taken window is discovered, reconciled and written. *)
(* An action below is one critical section of mu, one call that can fail,  *)
(* or, while a handler holds mu, one turn of the loop over its spans.      *)
(*                                                                         *)
(* A span is the pair <<request, index>>: the models tell spans apart only *)
(* by who sent them, their event time and whether they are eBPF exports.   *)
(***************************************************************************)
EXTENDS Integers, Sequences, FiniteSets

CONSTANTS
  Requests,             \* IngestWithSource calls, one per export request
  Ticker,               \* the flush worker
  Closer,               \* Service.Run, as the caller of Close
  Batches,              \* the span batches a request may carry
  WindowSize,           \* runtime.window_size, in clock units
  MaxInMemorySpans,     \* runtime.max_in_memory_spans
  LateDrop,             \* runtime.late_span_policy is "drop"
  Reconciling,          \* runtime.reconciliation.enabled
  MaxTime,              \* bound of the model: the clock stops here
  None

ASSUME EngineAssumption ==
  /\ WindowSize \in Nat \ {0}
  /\ MaxInMemorySpans \in Nat \ {0}
  /\ LateDrop \in BOOLEAN /\ Reconciling \in BOOLEAN
  /\ MaxTime \in Nat
  /\ Ticker \notin Requests /\ Closer \notin Requests /\ Ticker # Closer
  /\ None \notin Requests \cup {Ticker, Closer}
  /\ \A b \in Batches : b \in Seq([event : Nat \cup {None}, ebpf : BOOLEAN])

VARIABLES
  now,                  \* the receiver's clock
  current,              \* Engine.current, the open window
  flushMu, mu,          \* the goroutine that holds the lock, or None
  pc,                   \* where each goroutine is
  at,                   \* receivedAt of a request, now of a flush
  batch,                \* the spans of a request
  idx,                  \* next span of the loop in IngestWithSource
  taken,                \* flushCurrent's local copy of the window, or None
  previous,             \* previousRaw, previousStable, previous: window ends
  emitted,              \* per view, the envelopes written so far
  files,                \* window of the report, summary and projection files
  latestReport,         \* window of Engine.latestReport
  stopping,             \* the context of Run is done
  discarded, lost,      \* history: spans dropped by IngestWithSource, spans
                        \* of the windows given up without a snapshot
  torn                  \* history: <<view, place in emitted>> of the envelopes
                        \* in place whose write returned an error

inVars == <<now, batch, stopping>>
outVars == <<previous, emitted, files, latestReport, lost, torn>>
vars == <<now, current, flushMu, mu, pc, at, batch, idx, taken, previous,
          emitted, files, latestReport, stopping, discarded, lost, torn>>

Procs == Requests \cup {Ticker, Closer}
Views == {"raw", "stable", "primary"}
Files == {"report", "summary", "raw", "stable"}
Span == Requests \X UNION {DOMAIN b : b \in Batches}

\* No window ends at 0, so 0 stands for "never written" and "no previous".
NoWindow == 0
-----------------------------------------------------------------------------
\* newWindow: the next window starts where the last one ended.
MutantNewWindow(start) ==
  [start |-> start - WindowSize, end |-> start,
   spans |-> {}, dropped |-> 0, late |-> 0, observed |-> 0]

NewWindow(start) ==
  [start |-> start, end |-> start + WindowSize,
   spans |-> {}, dropped |-> 0, late |-> 0, observed |-> 0]

\* alignWindow: the window of the wall clock that holds t.
AlignWindow(t) == NewWindow(t - (t % WindowSize))

\* Span.EventTime, and the receiver's clock for an eBPF export.
EventTime(s, receivedAt) ==
  IF s.ebpf \/ s.event = None THEN receivedAt ELSE s.event

\* flushDueLocked: a window must close once its end is reached.
MutantDue(t) == t > current.end

Due(t) == t >= current.end

\* IngestWithSource: is a span older than the window it is to join?
Late(eventTime) == eventTime < current.start

\* ... and is there room for it?
Full == Cardinality(current.spans) >= MaxInMemorySpans

\* flushCurrent: the window it would take is empty.
MutantNothingToFlush == Cardinality(current.spans) <= 1

NothingToFlush == current.spans = {}

\* A goroutine blocks on flushMu, and on mu, while another holds it.
MutantFlushMuFree == TRUE

FlushMuFree == flushMu = None

MutantMuFree == TRUE

MuFree == mu = None

Init ==
  /\ now \in 0 .. WindowSize - 1
  /\ current = AlignWindow(now)
  /\ flushMu = None /\ mu = None
  /\ pc = [p \in Procs |-> "idle"]
  /\ at = [p \in Procs |-> 0]
  /\ batch = [r \in Requests |-> << >>]
  /\ idx = [r \in Requests |-> 1]
  /\ taken = [p \in Procs |-> None]
  /\ previous = [v \in Views |-> NoWindow]
  /\ emitted = [v \in Views |-> << >>]
  /\ files = [f \in Files |-> NoWindow]
  /\ latestReport = NoWindow
  /\ stopping = FALSE
  /\ discarded = {} /\ lost = {} /\ torn = {}

Goto(p, label) == pc' = [pc EXCEPT ![p] = label]
-----------------------------------------------------------------------------
(* The environment: the clock, the context, the clients, the ticker.       *)

Final == {"done", "failed", "aborted"}

\* Run has returned, and with it the process.
Halted == pc[Closer] \in Final

\* Shutdown of the servers waits for the handlers that are running.
MutantDrained == TRUE

Drained == \A r \in Requests : pc[r] \in {"idle", "done", "failed"}

Advance ==
  /\ now < MaxTime
  /\ ~Halted
  /\ now' = now + 1
  /\ UNCHANGED <<current, flushMu, mu, pc, at, batch, idx, taken, outVars,
                 stopping, discarded>>

Stop ==
  /\ ~stopping /\ ~Halted
  /\ stopping' = TRUE
  /\ UNCHANGED <<now, current, flushMu, mu, pc, at, batch, idx, taken, outVars,
                 discarded>>

\* A handler reads the clock, then calls IngestWithSource.  The servers take
\* requests until their Shutdown has returned.
Receive(r) ==
  /\ pc[r] = "idle"
  /\ pc[Closer] = "idle"
  /\ batch' \in {[batch EXCEPT ![r] = b] : b \in Batches}
  /\ at' = [at EXCEPT ![r] = now]
  /\ Goto(r, "enter")
  /\ UNCHANGED <<now, current, flushMu, mu, idx, taken, outVars, stopping,
                 discarded>>

\* The flush worker's select: with both channels ready, either is chosen.
WakeTicker ==
  /\ pc[Ticker] = "idle"
  /\ ~Halted
  /\ Goto(Ticker, "enter")
  /\ UNCHANGED <<current, flushMu, mu, at, idx, taken, inVars, outVars, discarded>>

MutantStopTicker ==
  /\ pc[Ticker] = "idle"
  /\ pc[Closer] # "idle"
  /\ Goto(Ticker, "stopped")
  /\ UNCHANGED <<current, flushMu, mu, at, idx, taken, inVars, outVars, discarded>>

StopTicker ==
  /\ pc[Ticker] = "idle"
  /\ stopping
  /\ Goto(Ticker, "stopped")
  /\ UNCHANGED <<current, flushMu, mu, at, idx, taken, inVars, outVars, discarded>>

\* The worker sends the error of its flush on errCh before it returns.  The
\* channel may be full of another worker's error, and nobody may read it.
ReportError ==
  /\ pc[Ticker] = "failed"
  /\ ~Halted
  /\ Goto(Ticker, "reported")
  /\ UNCHANGED <<current, flushMu, mu, at, idx, taken, inVars, outVars, discarded>>

\* Run calls Close when the servers are drained and the worker has returned.
StartClose ==
  /\ pc[Closer] = "idle"
  /\ stopping /\ Drained
  /\ pc[Ticker] \in {"stopped", "reported"}
  /\ Goto(Closer, "enter")
  /\ UNCHANGED <<current, flushMu, mu, at, idx, taken, inVars, outVars, discarded>>

\* Run returns without Close: a worker, this one or a server's, reported an
\* error and all have returned, or the servers did not drain in time.
Abort ==
  /\ pc[Closer] = "idle"
  /\ pc[Ticker] \in {"stopped", "reported"} \/ (stopping /\ ~Drained)
  /\ Goto(Closer, "aborted")
  /\ UNCHANGED <<current, flushMu, mu, at, idx, taken, inVars, outVars, discarded>>
-----------------------------------------------------------------------------
(* Flushing: flushDue, FlushDue and Close.                                 *)

\* A request brings the time at which it arrived; FlushDue and Close read
\* the clock once they hold the lock.
LockFlush(p) ==
  /\ pc[p] = "enter"
  /\ FlushMuFree
  /\ flushMu' = p
  /\ at' = IF p \in Requests THEN at ELSE [at EXCEPT ![p] = now]
  /\ Goto(p, IF p = Closer THEN "take" ELSE "check")
  /\ UNCHANGED <<current, mu, idx, taken, inVars, outVars, discarded>>

\* The loop of flushDueLocked: flush again, or unlock and go on.
CheckDue(p) ==
  /\ pc[p] = "check"
  /\ MuFree
  /\ \/ /\ Due(at[p])
        /\ Goto(p, "take")
        /\ UNCHANGED flushMu
     \/ /\ ~Due(at[p])
        /\ Goto(p, IF p = Ticker THEN "idle" ELSE "admit")
        /\ flushMu' = None
  /\ UNCHANGED <<current, mu, at, idx, taken, inVars, outVars, discarded>>

\* flushCurrent ends without an error.  Only Close does not loop.
Finish(p) ==
  /\ Goto(p, IF p = Closer THEN "done" ELSE "check")
  /\ flushMu' = IF p = Closer THEN None ELSE flushMu

\* flushCurrent passes over an empty window: it moves on to the next one,
\* unless it is forced.
SkipEmpty(p) ==
  /\ pc[p] = "take"
  /\ MuFree
  /\ NothingToFlush /\ ~Reconciling
  /\ current' = IF p = Closer THEN current ELSE NewWindow(current.end)
  /\ Finish(p)
  /\ UNCHANGED <<mu, at, idx, taken, inVars, outVars, discarded>>

\* flushCurrent takes the window and the envelopes to compare it with.
TakeWindow(p) ==
  /\ pc[p] = "take"
  /\ MuFree
  /\ ~NothingToFlush \/ Reconciling
  /\ taken' = [taken EXCEPT ![p] = [window |-> current, base |-> previous,
                                    shown |-> {"primary"}]]
  /\ current' = NewWindow(current.end)
  /\ Goto(p, "discover")
  /\ UNCHANGED <<flushMu, mu, at, idx, inVars, outVars, discarded>>

\* Discover runs on the copy, with no lock but flushMu.
Discover(p) ==
  /\ pc[p] = "discover"
  /\ Goto(p, IF Reconciling THEN "process" ELSE "sink")
  /\ UNCHANGED <<current, flushMu, mu, at, idx, taken, inVars, outVars, discarded>>

\* The projections the reconciler may find worth showing: the raw view has
\* what the window observed; everything observed or stable is guarded.
UnguardedShown(w) == {shown \in SUBSET Views : "raw" \in shown <=> w.spans # {}}

Shown(w) ==
  {shown \in SUBSET Views :
     /\ "raw" \in shown <=> w.spans # {}
     /\ "raw" \in shown \/ "stable" \in shown => "primary" \in shown}

Process(p) ==
  /\ pc[p] = "process"
  /\ \E shown \in Shown(taken[p].window) :
        taken' = [taken EXCEPT ![p].shown = shown]
  /\ Goto(p, "report")
  /\ UNCHANGED <<current, flushMu, mu, at, idx, inVars, outVars, discarded>>

\* The order in which flushReconciled writes its files.
MutantAfter ==
  [report |-> "raw", summary |-> "stable", raw |-> "summary", stable |-> "guard"]

After ==
  [report |-> "summary", summary |-> "raw", raw |-> "stable", stable |-> "guard"]

\* Where the envelope of a view is in place and its write has not returned:
\* more files are to follow, and then, under mu, the base of the next diff.
InPlace == [keepRaw |-> "raw", keepStable |-> "stable", commit |-> "primary"]

Keep == [raw |-> "keepRaw", stable |-> "keepStable"]

\* What a view is written as: the window, and the window its diff is against.
Envelope(p, view) ==
  [window |-> taken[p].window, base |-> taken[p].base[view]]

WriteReport(p) ==
  /\ pc[p] \in {"report", "summary"}
  /\ files' = [files EXCEPT ![pc[p]] = taken[p].window.end]
  /\ Goto(p, After[pc[p]])
  /\ UNCHANGED <<current, flushMu, mu, at, idx, taken, inVars, previous, emitted,
                 latestReport, lost, torn, discarded>>

\* The base of the next diff of a view: the envelope just written, if any.
MutantRebase(p, view) == previous

Rebase(p, view) == [previous EXCEPT ![view] = taken[p].window.end]

\* A projection is written either with its envelope or as "not available".
WriteView(p) ==
  /\ pc[p] \in {"raw", "stable"}
  /\ files' = [files EXCEPT ![pc[p]] = taken[p].window.end]
  /\ \/ /\ pc[p] \in taken[p].shown
        /\ emitted' = [emitted EXCEPT ![pc[p]] = Append(@, Envelope(p, pc[p]))]
        /\ Goto(p, Keep[pc[p]])
     \/ /\ pc[p] \notin taken[p].shown
        /\ UNCHANGED emitted
        /\ Goto(p, After[pc[p]])
  /\ UNCHANGED <<current, flushMu, mu, at, idx, taken, inVars, previous,
                 latestReport, lost, torn, discarded>>

\* The quality report of the view is written too, and its envelope kept.
KeepView(p) ==
  /\ pc[p] \in {"keepRaw", "keepStable"}
  /\ MuFree
  /\ previous' = Rebase(p, InPlace[pc[p]])
  /\ Goto(p, After[InPlace[pc[p]]])
  /\ UNCHANGED <<current, flushMu, mu, at, idx, taken, inVars, emitted, files,
                 latestReport, lost, torn, discarded>>

\* The report is offered to readers; nothing to guard ends the flush.
OfferReport(p) ==
  /\ pc[p] = "guard"
  /\ MuFree
  /\ latestReport' = taken[p].window.end
  /\ \/ /\ "primary" \in taken[p].shown
        /\ Goto(p, "sink")
        /\ UNCHANGED <<flushMu, taken>>
     \/ /\ "primary" \notin taken[p].shown
        /\ taken' = [taken EXCEPT ![p] = None]
        /\ Finish(p)
  /\ UNCHANGED <<current, mu, at, idx, inVars, previous, emitted, files, lost,
                 torn, discarded>>

\* Sink.Write, its first file: the snapshot of the window.
WriteSink(p) ==
  /\ pc[p] = "sink"
  /\ emitted' = [emitted EXCEPT !["primary"] = Append(@, Envelope(p, "primary"))]
  /\ Goto(p, "commit")
  /\ UNCHANGED <<current, flushMu, mu, at, idx, taken, inVars, previous, files,
                 latestReport, lost, torn, discarded>>

\* The other files of Sink.Write are written, and the envelope is kept.
Commit(p) ==
  /\ pc[p] = "commit"
  /\ MuFree
  /\ previous' = Rebase(p, "primary")
  /\ taken' = [taken EXCEPT ![p] = None]
  /\ Finish(p)
  /\ UNCHANGED <<current, mu, at, idx, inVars, emitted, files, latestReport, lost,
                 torn, discarded>>

\* A call inside the flush returns an error, before it has written anything or
\* after: the window is not put back, and what is in place stays in place.
FlushFails(p) ==
  /\ \/ pc[p] = "discover" /\ taken[p].window.spans # {}
     \/ pc[p] \in {"process", "report", "summary", "raw", "stable", "sink"}
     \/ pc[p] \in DOMAIN InPlace
  /\ lost' = IF pc[p] = "commit" THEN lost ELSE lost \cup taken[p].window.spans
  /\ torn' = IF pc[p] \in DOMAIN InPlace
             THEN torn \cup {<<InPlace[pc[p]], Len(emitted[InPlace[pc[p]]])>>}
             ELSE torn
  /\ taken' = [taken EXCEPT ![p] = None]
  /\ flushMu' = None
  /\ Goto(p, "failed")
  /\ UNCHANGED <<current, mu, at, idx, inVars, previous, emitted, files,
                 latestReport, discarded>>
-----------------------------------------------------------------------------
(* Admission: the second half of IngestWithSource, under mu.               *)

BeginAdmit(r) ==
  /\ pc[r] = "admit"
  /\ MuFree
  /\ mu' = r
  /\ current' = [current EXCEPT !.observed = @ + Len(batch[r])]
  /\ Goto(r, "loop")
  /\ UNCHANGED <<flushMu, at, idx, taken, inVars, outVars, discarded>>

\* One turn of the loop: the span is late, or there is no room, or it joins.
AdmitSpan(r) ==
  /\ pc[r] = "loop"
  /\ idx[r] <= Len(batch[r])
  /\ LET late == Late(EventTime(batch[r][idx[r]], at[r]))
         refused == (late /\ LateDrop) \/ Full
     IN /\ current' = [current EXCEPT
                          !.late = IF late THEN @ + 1 ELSE @,
                          !.dropped = IF refused THEN @ + 1 ELSE @,
                          !.spans = IF refused THEN @ ELSE @ \cup {<<r, idx[r]>>}]
        /\ discarded' = IF refused THEN discarded \cup {<<r, idx[r]>>} ELSE discarded
  /\ idx' = [idx EXCEPT ![r] = @ + 1]
  /\ UNCHANGED <<flushMu, mu, pc, at, taken, inVars, outVars>>

EndAdmit(r) ==
  /\ pc[r] = "loop"
  /\ idx[r] > Len(batch[r])
  /\ mu' = None
  /\ Goto(r, "done")
  /\ UNCHANGED <<current, flushMu, at, idx, taken, inVars, outVars, discarded>>
-----------------------------------------------------------------------------
Flush(p) ==
  \/ LockFlush(p) \/ CheckDue(p) \/ SkipEmpty(p) \/ TakeWindow(p)
  \/ Discover(p) \/ Process(p) \/ WriteReport(p) \/ WriteView(p)
  \/ KeepView(p) \/ OfferReport(p) \/ WriteSink(p) \/ Commit(p) \/ FlushFails(p)

Admit(r) == BeginAdmit(r) \/ AdmitSpan(r) \/ EndAdmit(r)

\* The process ends with Run: no goroutine outlives it.
Step(p) ==
  /\ ~Halted
  /\ Flush(p) \/ (p \in Requests /\ Admit(p))

Terminated == Halted /\ UNCHANGED vars

Next ==
  \/ Advance \/ Stop \/ WakeTicker \/ StopTicker \/ ReportError \/ StartClose \/ Abort
  \/ \E r \in Requests : Receive(r)
  \/ \E p \in Procs : Step(p)
  \/ Terminated

Spec == Init /\ [][Next]_vars

\* The scheduler runs every goroutine, and sync.Mutex starves none.  A select
\* with both channels ready does not choose the ticker for ever.  Nothing says
\* that errCh ever has room for the worker's report; when the report is out,
\* Run returns.
Fairness ==
  /\ \A p \in Procs : SF_vars(Step(p))
  /\ SF_vars(StopTicker)
  /\ WF_vars(StartClose)
  /\ WF_vars(pc[Ticker] = "reported" /\ Abort)

FairSpec == Spec /\ Fairness
-----------------------------------------------------------------------------
\* Where a goroutine has a window of its own, and where it has flushMu.
Working == {"discover", "process", "report", "summary", "raw", "keepRaw",
            "stable", "keepStable", "guard", "sink", "commit"}

Flushing == {"check", "take"} \cup Working

Holders == {p \in Procs : pc[p] \in Working}

Sent(r) == {<<r, i>> : i \in 1 .. Len(batch[r])}

\* Windows that are closed and neither written nor given up.
Closing == {taken[p].window : p \in {q \in Holders : pc[q] # "commit"}}

Published == {emitted["primary"][i].window : i \in DOMAIN emitted["primary"]}

SpansOf(windows) == UNION {w.spans : w \in windows}

Window == [start : Nat, end : Nat, spans : SUBSET Span,
           dropped : Nat, late : Nat, observed : Nat]

TakenWindow == [window : Window, base : [Views -> Nat], shown : SUBSET Views]

Labels == {"idle", "enter", "admit", "loop", "stopped", "reported"} \cup Flushing \cup Final

\* Every variable has its type.
TypeOK ==
  /\ now \in Nat
  /\ current \in Window
  /\ flushMu \in Procs \cup {None}
  /\ mu \in Requests \cup {None}
  /\ pc \in [Procs -> Labels]
  /\ at \in [Procs -> Nat]
  /\ batch \in [Requests -> Batches \cup {<< >>}]
  /\ idx \in [Requests -> Nat \ {0}]
  /\ taken \in [Procs -> {None} \cup TakenWindow]
  /\ \A p \in Holders : taken[p] \in TakenWindow
  /\ previous \in [Views -> Nat]
  /\ emitted \in [Views -> Seq([window : Window, base : Nat])]
  /\ files \in [Files -> Nat]
  /\ latestReport \in Nat
  /\ stopping \in BOOLEAN
  /\ discarded \in SUBSET Span
  /\ lost \in SUBSET Span
  /\ torn \in SUBSET (Views \X Nat)

\* A span of an answered request has exactly one fate: it waits in the open
\* window, or in the one being flushed, or a snapshot has it, or its window was
\* given up without one, or it was dropped.  The lock mu is what keeps a span from falling
\* between the copy flushCurrent takes and the window IngestWithSource fills.
Places == [open |-> current.spans, closing |-> SpansOf(Closing),
           published |-> SpansOf(Published), lost |-> lost,
           discarded |-> discarded]

OneFate ==
  \A r \in Requests : pc[r] = "done" =>
    \A s \in Sent(r) :
      \E home \in DOMAIN Places :
        \A place \in DOMAIN Places : s \in Places[place] <=> place = home

\* What a window says it observed per source is what it retained and what it
\* dropped, whenever nobody is in the loop of IngestWithSource: no window is
\* taken, and none published, with a request half counted.  And what it
\* retained is never more than max_in_memory_spans.
Accounted(w) ==
  /\ w.observed = Cardinality(w.spans) + w.dropped
  /\ Cardinality(w.spans) <= MaxInMemorySpans

Accounting ==
  /\ mu = None => Accounted(current)
  /\ \A w \in Closing \cup Published : Accounted(w)

\* Each view is written in the order of its windows, which never overlap,
\* whichever goroutine flushes them.
InOrder ==
  \A v \in Views : \A i, j \in DOMAIN emitted[v] :
    i < j => emitted[v][i].window.end <= emitted[v][j].window.start

\* Of the first n envelopes of a view, those whose write returned no error.
Whole(v, n) == {i \in 1 .. n : <<v, i>> \notin torn}

\* base is the newest of these envelopes, if there is any.
IsBase(base, envelopes, whole) ==
  \/ whole = {} /\ base = NoWindow
  \/ \E i \in whole : /\ \A j \in whole : j <= i
                      /\ base = envelopes[i].window.end

\* The diff of an envelope is against the newest envelope of its view, of those
\* before it, whose write succeeded; an envelope left in place by a write that
\* failed later is never a base.  The base was captured before the window was
\* discovered and reconciled, and whoever flushes next must see it moved.
DiffBase ==
  \A v \in Views : \A i \in DOMAIN emitted[v] :
    IsBase(emitted[v][i].base, emitted[v], Whole(v, i - 1))

\* A published snapshot is backed by the report, the summary, the projections
\* and the offered report of its window or of a later one, and each of these
\* by the one written before it.
LastPrimary ==
  IF emitted["primary"] = << >> THEN NoWindow
  ELSE emitted["primary"][Len(emitted["primary"])].window.end

Backed ==
  Reconciling =>
    /\ files["report"] >= files["summary"]
    /\ files["summary"] >= files["raw"]
    /\ files["raw"] >= files["stable"]
    /\ files["stable"] >= latestReport
    /\ latestReport >= LastPrimary

\* A retained span arrived before the end of the window it is in; an eBPF
\* span, under the "drop" policy, arrived in that window.
ArrivedInWindow ==
  \A w \in {current} \cup Closing \cup Published : \A s \in w.spans :
    LET r == s[1] IN
    /\ at[r] < w.end
    /\ LateDrop /\ batch[r][s[2]].ebpf => w.start <= at[r]

\* After a Close that returned no error nothing waits in memory.
CleanShutdown ==
  pc[Closer] = "done" => current.spans = {} /\ Holders = {}

\* docs/ebpf-source.md: only the memory limit discards an eBPF span.
EbpfKept ==
  \A s \in discarded' \ discarded : batch[s[1]][s[2]].ebpf => Full

EbpfSpansKept == [][EbpfKept]_vars

\* The runtime keeps the promises of WindowLog: the open window, the window
\* being published and the published log, with the locks hidden.
Bare(w) == [end |-> w.end, spans |-> w.spans]

Retained == current.spans \cup SpansOf(Closing \cup Published) \cup lost

Log == INSTANCE WindowLog WITH
  open <- current.spans,
  horizon <- current.end,
  closing <- {Bare(w) : w \in Closing},
  log <- [i \in DOMAIN emitted["primary"] |-> Bare(emitted["primary"][i].window)],
  seen <- Retained

Refines == Log!Spec

\* Every export is answered, unless the process ends first: a handler waits
\* for two locks and for all flushes that are due, but not for ever.
Answered ==
  \A r \in Requests : pc[r] = "enter" ~> pc[r] \in {"done", "failed"} \/ Halted

\* Once the context is done, Run returns, unless the flush worker is held for
\* ever with an error it cannot report.
Shutdown == stopping ~> Halted \/ [](pc[Ticker] = "failed")
=============================================================================
