# Bering in TLA+

Bering discovers a service topology from traces.  Its runtime (`bering serve`)
receives OTLP and eBPF exports, keeps the spans of the current window in memory,
turns each window into a snapshot of services, edges and endpoints, and writes
the snapshot to files that other programs read.  `bering discover` does the same
once, for a file of traces or an operator-written topology.  This directory
specifies both in TLA+, checks them with TLC on small instances, and proves its main
properties with TLAPS for every instance.

    tlc -config Engine.cfg MCEngine            # one run
    tlapm EngineProofs.tla                     # one proof module

## 1. The system

| part | source | state | operations | calls |
|---|---|---|---|---|
| windowed engine | `internal/runtime/engine.go` | `current` window, `previous`, `previousRaw`, `previousStable` envelopes, `latestReport`; mutexes `flushMu`, `mu` | `IngestWithSource`, `FlushDue`, `Close`, `LatestReconciliationReport` | discovery, reconciler, file writes, sink |
| on_shutdown batch | same file | `current.spans`, `closed`, `closeErr`, `terminalErr` | `ingestShutdownBatch`, `Close` | discovery, sink |
| runtime service | `internal/runtime/service.go`, `ebpf.go` | `errCh`, the wait group, two servers, the context, `ready` | `Run`, the flush worker, the serve workers, `handleOTLP`, `Export`, `handleEBPF` | engine |
| reconciliation | `internal/reconciliation/` | per entity: lifecycle, confidences, miss streak, gap average; versions, topology hashes, volume average; the state file | `New`, `Process`, `compact` | state file |
| sink, atomic files | `internal/runtime/sink.go`, `internal/atomicfile`, `internal/snapshot/io.go`, `internal/quality` (`WriteFile`) | the files, which outlive the process | `FileSink.Write`, `WriteProjectionViewWithQuality`, `WriteFile` | file system |
| discovery | `internal/discovery/` | none | `Discover`, `DiscoverTopology` | model, overlay |
| model, snapshot, diff | `internal/model`, `internal/snapshot` | none | validation, sorting, digest, `ComputeDiff` | - |
| overlays | `internal/overlay`, `applyOverlays` of `internal/discovery` | none; two forms of each entity while they are merged | `LoadFiles`, `FromReplicas`, `applyOverlays` | model validation |
| connectors | `internal/connectors/` | none | decode OTLP, normalise eBPF, load trace and topology files | - |
| quality, evidence, metrics | `internal/quality`, `internal/evidence`, `runtime/metrics.go` | counters | reports | - |
| configuration, CLI, schemas | `internal/config`, `internal/app`, `internal/schema`, `internal/jsoncanon` | none | load, validate, dispatch | engine, discovery |
| release tooling, examples | `cmd/releasectl`, `internal/release`, `examples` | none | packaging | - |

### How the parts interact

`Service.Run` starts a flush worker (not in on_shutdown mode) and one worker per
server.  Each export runs in a goroutine of its server, and calls the engine;
so does the flush worker at each tick; `Run` itself calls `Engine.Close` after
it has drained the servers and waited for the workers.  The engine serialises
flushes with `flushMu` and protects the open window with `mu`; a flush copies
the window under `mu`, lets go of it, calls discovery, the reconciler, the file
writers and the sink, and takes `mu` again to record the envelope that the next
diff is against.  The reconciler is called under `flushMu` only, saves its state
before it returns, and the report and snapshots are written after that.
`bering discover` calls discovery with overlays, and writes a model, a snapshot
and the reports about them.  Discovery, model, overlays and the making of quality
reports are pure; what they make is written file by file.

### What is hard

- **Concurrency.**  Handlers, the worker and `Close` flush; `mu` is released in
  the middle of each flush; `receivedAt` is read before two locks.
- **Failure in the middle.**  A flush takes its window out of memory first, then
  may fail in discovery, in the reconciler, or in any of up to ten file writes.
- **Shutdown.**  Two modes, with and without a deadline; errors of three workers
  race for a channel of capacity one.
- **Memory over many windows.**  The reconciler's lifecycle depends on spells of
  traffic, silence and bad telemetry; a restart forgets the last windows.
- **Files.**  A publication is four to nine files, written one after the other by
  a process that may stop anywhere, and starts again knowing nothing of them.
- **Merges.**  Overlays meet entities under three kinds of id, field by field, by
  different rules, in two forms of each entity that must agree in the end.
- **Limits.**  Spans per window, spans per batch, retired entities per kind and
  overall, windows before retirement.

`PROJECT.json` lists these hazards line by line, each with the properties that
would notice it going wrong.

### What makes each part correct

| part | correctness |
|---|---|
| windowed engine | every admitted span has one fate; windows are published in order, each diffed against the newest one before it that was written without an error; snapshots are backed by their reports; limits hold; nothing is left in memory by a clean shutdown; every export is answered |
| on_shutdown batch | published whole, once or never; an overflow is terminal; every `Close` learns the same outcome, and an error whenever nothing was published |
| runtime service | `Close` runs alone; the exit status tells the truth; nothing is published before the drain; `Run` returns |
| reconciliation | views are nested and change only by what was seen or missed; retirement is slow; what is retired is bounded; published versions count topologies, through failed writes and restarts |
| files | the latest snapshot has a file and a report of its own and never goes back; a diff is against a snapshot that readers have; no report is ahead of what it describes |
| discovery | the order in which exports were appended chooses no link, no receiver and no source; doubtful spans are disclosed; no database call is lost; references are closed |
| topologies, overlays | a result has exactly the entities of a well-formed file; each overlay reaches the entity it means and no other; the last one wins, in the model, the record and the evidence alike; nothing is refused without a cause |

## 2. The modules

| module | models | state and actions against the code |
|---|---|---|
| `WindowLog` | what the windowed engine promises | an open window, the closing ones, a log; admit, close, publish, lose |
| `Engine` | `engine.go`, windowed mode | one action per critical section of `mu`, per call that can fail, and per turn of the admission loop; `pc` is where a goroutine is; `taken` is `flushCurrent`'s local copy |
| `MCEngine` | small instances | two requests, span batches with late, early and eBPF spans |
| `EngineProofs`, `EngineRefinement` | theorems on `Engine` | |
| `AtomicBatch` | what on_shutdown mode promises | one step per call |
| `ShutdownBatch` | `ingestShutdownBatch`, `Close` in on_shutdown mode | as `Engine`, with any number of `Close` calls |
| `ShutdownBatchProofs` | theorems on `ShutdownBatch` | |
| `Service` | `Run`, its workers, the handlers | `run` is where `Run` is in its select and its drains; `worker[w]` a goroutine; `errCh` the channel; the engine is only the set of requests in memory |
| `MCService`, `ServiceProofs` | small instances; theorems | |
| `Reconciler` | `internal/reconciliation` | `Process(w)` is `Reconciler.Process` up to `saveState`, on the window `w`; `Save`, `Publish` the writes after it; `WriteFails`, `Crash`, `Restart` the failures |
| `MCReconciler`, `ReconcilerProofs` | small instances; theorems | |
| `Discovery` | `discovery.go`, `observations.go` | one step per iteration of each loop of `Discover`: `IndexSpan`, `CountSpan`, `LinkSpan`, `ObserveSpan`, then `MergeCalls` |
| `EbpfPeers` | `ebpf.go`, after `Discovery` in one state machine | `PeerSpan`, one step per span of `enrichEBPFPeers` |
| `MCDiscovery`, `DiscoveryProofs` | small windows in every order; theorems on `Discovery` and `EbpfPeers` | |
| `TopologyFile` | `connectors/topology/load.go` | one step per item of the three loops of `Document.Normalize`; `WellFormed` says of a whole document what they are to accept |
| `Overlays` | `internal/overlay`, the second half of `Discover` and `DiscoverTopology`, with the model's validation; after `TopologyFile` in one state machine | `Supply` is `applyReplicaOverlays`, `Build` what is made of a topology before the overlays, `Apply` one item of `applyOverlays`, `Finish` the rest |
| `MCOverlays`, `OverlaysProofs` | small topologies, windows and overlay files; theorems on `Overlays` and `TopologyFile` | |
| `AtomicFile` | `atomicfile.WriteFile` | the temporary file, the rename, and the removal before it on Windows |
| `Publication` | the envelopes and diffs of `engine.go`, `app.go`, `internal/snapshot`; `sink.go`; `AtomicFile` under it | `job` is the list of writes that a flush or a run of discover still has to do; `Prepare`, `MakeRoom`, `Replace` do the first one, `WriteFails` and `Crash` end them all |
| `MCPublication`, `PublicationProofs` | small windows; theorems on `Publication` and `AtomicFile` | |

**Engine.**  A span is a pair of its request and its index: spans differ only by
sender, event time and kind.  `IngestWithSource` is `LockFlush`, `CheckDue`, the
flush actions, `BeginAdmit`, `AdmitSpan`, `EndAdmit`; `FlushDue` and `Close` share
the flush actions.  A `SkipEmpty` is the early return for an empty window, which
reconciliation does not take.  Discovery and the reconciler are calls that may
fail and, for the reconciler, choose which views are worth writing.
The write of a view and of the snapshot is two steps each: its first file, with
which the envelope is in place for readers (`WriteView`, `WriteSink`), and the files
after it with the recording of the envelope under `mu` (`KeepView`, `Commit`).  A
failure between the two returns an error, leaves the file and does not move the base
of the next diff.  An error of the flush worker ends it in two steps as well:
`FlushFails`, and `ReportError` for the send on `errCh`, which may block.
`discarded`, `lost` and `torn` (the envelopes left in place by a write that failed
later) are history variables.  A span is `lost` when its flush failed before the
snapshot was in place; `Publication` has the files one by one.

**ShutdownBatch.**  A call of the batch is one critical section; `Close` releases
`mu` between closing the batch and taking it, which is why it has several steps.
`WriteSink` is the first file of `Sink.Write`, the snapshot; `FinishSink` stands for
its sidecar, the latest file and that one's sidecar.  `FlushFails` may come before
the first, or between the two.

**Service.**  A request is idle, active, answered.  What the engine does to the
spans in memory is one of three outcomes of an answer or a tick: kept, published,
or taken by a flush that fails (`Fail`), which may have published them: an error of
the sink may come after its first file.  `TooLate` is the expired deadline: `http.Shutdown` gives
up, `stopGRPCServer` stops its server by force and still waits for
`GracefulStop`, which waits for the handlers.  `ServeFails` is any error of
`Serve` before the server was told to stop.

**Reconciler.**  `clamp01` rounds to thousandths, so confidences are exact
integers; the gap average, the one value that is not, is rounded down.  `Written` is
the configuration that `serve.go` has validated, `Config` what `WithDefaults` makes of
it: a threshold of 0 is replaced by its default.  A window
is a record of what discovery found in it: entities, the observations of each,
the rest of what is shown of them (`latency`), and whether
`evaluateTelemetryHealth` froze retirement.  A view's topology is its
fingerprint, so it is modelled by what the fingerprint is taken of.

**Discovery.**  The function is pure, but it reads the spans of a window in the
order in which concurrent handlers appended them, so the order is the
nondeterminism: a behaviour is one window, passed over five times.  An
accumulator of the code (a support count, the set of traces, the first and last
time, latencies) is a function of the spans it has counted, so it is modelled by
the set of their positions: `<<x, i>>` in `links` says that the span at `i` counted
for `x`.  A map of spans is a set in which no two have one key.  Attributes are
reduced to what a pass branches on: whether a span has an operation, which
database or peer it names, whether that has a known network scope, and whether
its attributes conflict.  `Signature` is what `spanSignature` compares, `Precedes`
the order of `canonicalSpan`.

**Topologies and overlays.**  An entity is a partial function from fields to
values, in two forms, as in the code: `mdl` for the stable model, `record` for the
snapshot, which also has attributes.  `Merged` has the three rules by which a
field meets a second value; a map (labels, attributes) stands for one of its
keys, so its rule is that of the value at a key.  `Empty` is a pointer to an
object without fields, which the code keeps while it merges and drops when it
normalises; of an identity, `Cloned` makes nothing already when it is merged.
`Invalid` stands for a value of a field that validation refuses (a rate above one,
a negative count, an unknown mode, evidence without its probability).  The id of an edge is the tuple of what it is
made from, so that ids
from before identities are prefixes, as they are in the code.  The index maps of
`applyOverlays` depend on the entities alone, and `Resolve` is a lookup in them.
The replica override is an overlay whose items come in the order of a Go map:
`FromReplicas` gives every order.

**Publication.**  A snapshot is its window, its records, its topology and its
diff; the diff's counts are kept as sets, so that they can be compared.  Each
write of a file is two steps, three on Windows, and each can be the last.  The
engine's part is reduced to what decides on files: which window is flushed, what
it shows, and the envelopes it remembers, which a restart forgets.  A flush that
publishes nothing (an empty window, a failed discovery) has an empty job.  The
single flush of on_shutdown mode writes what a windowed one writes, and is the
behaviour that goes straight to `Close`.  A failed flush of the worker ends the
process, and a handler's does not: `Close` and `FlushDue` are both possible after
`WriteFails`.

## 3. The runs

| run | instance | shows |
|---|---|---|
| `engine` | two requests of one eBPF span or two OTLP ones, worker, closer; windows of 2 ticks, clock to 3, one span of memory, `drop`, reconciliation | one fate per span, accounting within the memory limit, a clean shutdown, order of each view and the base of each diff, files that back a snapshot whatever write fails, and the refinement of `WindowLog` |
| `engine_fair` | one-span requests, two spans of memory, no reconciliation (so that empty windows are skipped), clock to 2, with fairness | every export is answered, `Run` returns unless the worker is held with its error, and one fate per span also without reconciliation |
| `engine_ebpf` | expected violation | a finding, below |
| `shutdown_batch` | three requests of 0 to 2 spans, limit 3, two calls of `Close` | the limit, whole publication, one outcome wherever a write fails, and the refinement of `AtomicBatch` |
| `service` | both modes, chosen in the initial state; two HTTP requests and a gRPC one, both servers, all failures | `Close` alone, exit status, publication after the drain, termination unless the worker holds it |
| `service_hang` | expected violation | a finding, below |
| `reconciler` | two services, an edge, an overlaid endpoint; five windows of three shapes, frozen or not, or silent; failed writes, crashes, restarts | nesting of views under thresholds in order, what enters and leaves them, slow and bounded retirement, published versions |
| `reconciler_retention` | expected violation | a finding, below |
| `discovery` | 9591 windows of up to five spans | links, sources and warnings are what the set of spans says; no database call is lost or guessed; the graph is closed |
| `discovery_receipt` | expected violation | a finding, below |
| `overlays` | 30 topology files and four windows, each under 364 lists of overlay files, alone or after one of two replica overrides | which overlays are applied to what, what every field and the evidence end with, and what is refused |
| `publication` | windowed, reconciled and one-shot publications of three windows of two entities, with and without a rename that replaces; failures, crashes and restarts anywhere | what readers find: the latest snapshot, diffs, times, reports |

Every passing run explores its whole state space.

**Bounds.**  Two requests are what it takes for a handler to overtake another
between two critical sections; the worker and the closer are two more
goroutines.  A window of two ticks lets a span be early, late or on the edge; a
clock of three ends one window in the middle of the run and `Close` ends another,
so a second flush sees the base the first one left.  One span of memory is
exceeded by a two-span request alone and by two requests together.  The two
requests of `engine` are interchangeable, so the run uses symmetry; the fair run,
which checks liveness, does not.  Three batch requests of up to two spans fill a limit of three
exactly, and pass it.  Five windows are enough for an entity to be seen, decay
through both thresholds (`minHardWindows` is 2), be retired, compacted, and
seen again; retirements between two compactions exceed the bounds per kind and
overall, both one; the guardrail threshold is written as 0, so that `WithDefaults`
sets it.  Three windows are enough for a publication, one that
fails, and one against the base that the failure left; the clock runs on while a
process is down or busy, so that several windows are due at once.  Two overlay
files are what it takes for one to win, for one to fail after the other was
applied, and for a legacy id to meet an edge that has an identity by then;
within a file, a service before an edge, or two edges, show that its items too
are applied in turn.  `LastWindow` and `MaxTime` bound counters the code leaves
unbounded.  The windows of `discovery` are subsets, up to a size, of six small
sets of spans, in all their orders: exports of one span that agree, disagree, or
contradict themselves, below a parent that does the same; callers of one
database, seen and not seen to be answered by one or two receivers; a link that
looks like a dependency; a client and a server span of one service; and eBPF
clients of two source domains that name a service, an address or nothing.  Three
exports are what it takes for one to be read between two that disagree; a second
caller with an identity given up makes four.

**Fairness.**  The Go scheduler runs every runnable goroutine, and a Go mutex
hands itself to a waiter that has waited for long: a goroutine that keeps finding
its lock free gets it.  So each goroutine's step has strong fairness; for a local
step, which stays enabled, that is no more than weak fairness.  A
`select` with two ready channels chooses at random, so the
flush worker's does not pass over a done context for ever: strong fairness for
`StopTicker`.  Calls into discovery, the reconciler and the file system return,
with or without an error.  `Service` also assumes that clients finish the
requests they started, which on_shutdown mode needs since it drains without a
deadline.  `Engine`'s fairness makes `Run` go on to
`Close` when the context is done (`StartClose`), and return when the flush worker has
reported an error (`Abort`).  The report itself (`ReportError`) has no fairness: the
channel may be full, and nobody may read it.  `Shutdown` therefore excepts a worker
that stays with its error for ever; `Service` has the channel, and `service_hang`
shows that this happens.  Nothing obliges a request to arrive or an error
to occur, and in `Service` nothing obliges the context to be cancelled.

**Overlays and files.**  The documents of `overlays` are every list of edges that
differs in what the loop decides on (ids written out or made, equal or not,
identities, kinds, dangling ends, bad ranges) between good services and
endpoints, and the same for services and endpoints.

**What stops.**  The service runs switch deadlock checking off, because a hung
`Run` is a state without successors; `Terminates` says which of these exist.
`EbpfPeers` has a stuttering step, `Returned`, for a `Discover` that has returned,
and `Overlays` one, `Ended`, likewise.

## 4. The proofs

All theorems hold for every value of the constants that the named assumptions
allow.  Every property of a passing run is stated by one, the three of liveness
excepted.  Each rests on an inductive invariant; where a property says nothing of
the states in between, the invariant says what has been done so far.

**`EngineProofs`** (`TypeCorrect`, `PublishedInOrder`, `DiffAgainstLast`,
`NothingLeftBehind`, `PublishedIsBacked`).

- `InOrder` is not inductive: what keeps a window from being written late is that
  one goroutine at most is between taking a window and committing it, because it
  has `flushMu` (`Exclusive`); that the taken window ends where the open one
  starts or before, and nothing later is written (`Ordered`); and that the base it
  captured is still the newest envelope of its view whose write has succeeded
  (`Bases`).  `FlushInv` is their
  conjunction.
- `CloserInv`: once `Close` has begun, every handler and the worker are at rest and
  cannot begin again, so the window it opens stays empty.
- `ChainInv` follows the files of a reconciled flush: at each step those already
  written are of the window it holds, and the report is of no window that is still
  open.  A failed write leaves the earlier ones, which is what `Backed` allows for.

**`EngineRefinement`** (`EngineRefinesLog`, `EverySpanOneFate`, `CountsAgree`,
`SpansArriveInWindow`).

- `SpanInv` says that a retained span belongs to a part of its batch that has been
  passed, so that every admission is new to the abstract log; each step of the
  engine is then a step of `WindowLog` or a stutter.  The other invariants use the
  same list of what a step may do to the windows (`WindowMoves`).
- `LoopInv` and `FateInv`: the spans a request has come past are retained or
  discarded, and the open window, the closing ones, the published and the lost
  are disjoint.
- `CountInv`: the counts of the open window lack exactly what the holder of `mu` has
  still to admit.
- `ArrivalInv`: a request that has come past its flush arrived before the end of the
  open window, and others only move that end on.

**`ShutdownBatchProofs`** (`TypeCorrect`, `BatchPublishedWhole`,
`OverflowIsTerminal`, `CloseIsDecided`, `BatchRefines`).  `BatchInv` ties the phase
of the batch (open, closed, taken, published, invalid) to what may still change in
each.  `OutcomeInv`: no call has returned while the batch has an owner, and when it
has none the error of `Close` says what became of it: none for a batch that was
written, one of the sink for a batch that may have been, another for one that was
not.

**`ServiceProofs`** (`CloseRunsAlone`, `DrainedBeforePublished`, `ExitIsHonest`).  A
server that is down has no handler and gets none (`DrainedForGood`); after each
drain on the context's path the server is down (`Phases`); in on_shutdown mode
there is no flush worker (`NoEarlyFlush`).  `ExitInv`: in that mode what is in
memory is all that was acknowledged, until `Close` takes it, and after that it is
what `Close` has.

**`ReconcilerProofs`** (`TypeCorrect`, `VersionsAdvance`, `RetirementIsSlow`,
`StableIsGuarded`, `NestedAsWritten`, `UnionEntersBySight`, `UnionLeavesByMiss`,
`RetiredIsBounded`).
Memory and the file satisfy the same predicates, so that a restart is one more way
to a state that satisfies them.

- `VersionInv` orders what is published, what is on disk and what is in memory:
  each is an earlier value of the next, so that a restart only forgets.
- `AgeInv` says of every remembered entity that it has been unseen for at least its
  misses, and was not retired before `minimum_hard_windows` of them; a threshold is
  at least that whatever the gap average and the strength.
- `SightInv`: the published union shows exactly the entities all of whose parts are
  remembered and belong to it (`Included`), in memory and in the file; so what enters
  or leaves it has a part whose own step to the next window decides it (`Advanced`).
- `StableIsGuarded` needs the thresholds in effect to be in order (`InOrder`), which
  is a hypothesis and no assumption; `OrderKept` shows that it follows from the order
  that `serve.go` validates when the guardrail threshold is not written as 0, and
  `NestedAsWritten` is the theorem for those configurations.
- `CompactInv`: a state whose last compaction is of its own version is within the
  bounds.  The content of the proof is in the lemmas on `Evictions`: what
  is left of each kind, and of all kinds together, after the oldest are dropped.

**`DiscoveryProofs`** (`TypeCorrect`, `LinksAreExact`, `NothingGuessed`,
`DoubtsAreDisclosed`, `CallsAreKept`, `EvidenceIsExact`, `GraphIsConnected`).  The
theorems hold for any set of windows, of any length.

- `IndexInv` says of the spans read so far that an identity is given up exactly
  when its exports disagree, and that any other has one of its exports in the
  index: only which one depends on the order.  Since a link depends on no more
  than the signature of the caller, on which all exports of it agree, the step at
  a span adds the links that its export says (`LinksOfSpan`).
- `ReceiversInv` uses that the index is complete when databases are looked up;
  `ObservedInv` says of the spans that have been looked at that they were warned
  about or linked, and that their calls are kept.
- `CanonicalInv` says which export the index has, the first in canonical order;
  with it `CitedInv` determines the sources that a link cites.
- `GraphInv` and `PeerInv`: both ends of a call are nodes, and a node that is no
  service of the window is the end of a call, also after `EbpfPeers` has gone on from
  what `Discovery` left.

**`OverlaysProofs`** (`OverlaysAreTraceable`, `LastOverlayWins`,
`EveryRefusalHasCause`).

- `TraceInv`: the precedences recorded for an entity are those of the items before
  `next` that are meant for it, in their order.  `ResolveMeant` is the lemma it rests
  on: the lookup of `applyOverlays` finds the entities an item is meant for, also by
  an id from before identities.
- `MergeInv`: the record of an entity is the one merged from the items before `next`
  (`MergedBy`, a definition by what was found and by the first or last item that
  sets a field), and the model is its model form.  Merging one more item moves
  the first or the last giver of its fields only (`MergeGrows`), and merging,
  normalising and taking the model form commute (`ModelOfMerged`).  What an item
  gives is what is left of it when an empty identity is dropped (`ClonedGiven`).
- `ReadInv` and `CauseInv`: the items before `next` are good and are exactly what was
  found, so the item that is refused is itself the cause, and a file that was read
  to the end was well formed.

**`PublicationProofs`** (`LatestIsRecorded`, `LatestNeverGoesBack`,
`DiffsReproducible`, `TimesCarried`, `ReportsFollowFiles`).  The argument is about the
writes still to be done: each comes after what it needs, an earlier write of
the job or a file of the job's own window (`JobInv`, with `Plan`); nothing on the disk is
of a later window (`WindowInv`), and the base of a diff is of an earlier one
(`BaseInv`).  So no write, and no removal to make room for one, takes away a base,
and a crash leaves a disk that satisfies `DiskInv`.  `LatestNeverGoesBack` is a
property of steps, proved from the same `IInv`.

**Assumptions on constants.**  Each is evaluated by TLC in a passing run, and is
what the code has for its inputs:

- sizes, limits and thresholds are numbers in the ranges that validation of the
  configuration accepts (`EngineAssumption`, `BatchAssumption`, `ConfigAssumption`);
- `None`, which stands for an empty string or a nil, is no name of anything else
  (in these and in `ServiceAssumption`);
- a window is a non-empty sequence of spans, whose sources are ordered as integers
  are (`BatchesAssumption`), and the made-up ids of databases and peers, which are
  hashed, are no names of services (`NodesAssumption`, `PeersAssumption`);
- an observed edge has its two ends observed, and entities are finitely many
  (`WindowsAssumption`, `EntitiesAssumption`);
- first and last times of a window are set together and in order, as `observeTime`
  leaves them (`DiscoveredAssumption`);
- files hold finite lists, a count of replicas is an integer, only services have
  one (`DocumentsAssumption`, `OverlaysAssumption`).  That concatenating the items of the
  files gives a sequence is part of the last one: it is recursion over data, which
  the prover cannot treat.

**Only model-checked.**  Liveness (`Answered`, `Shutdown`, `Terminates`), which the
prover cannot treat, and the expected violations.

## 5. Where code and documents disagree

1. **An eBPF export may be late** (`engine_ebpf`).  `docs/ebpf-source.md` says that
   receiver time assigns an eBPF batch to the active window and that only memory
   limits apply to it.  `IngestWithSource` compares the receiver's time with the
   window that is open once it has the lock; if another goroutine has closed the
   window in between, the export is late and, under `drop`, discarded.
2. **`Run` may never return** (`service_hang`).  The flush worker sends its error
   with a blocking send; the serve workers do not.  When a flush and both servers
   fail, `Run` receives one error, another fills the channel, and the worker
   blocks on it while `Run` waits for the worker.  Even alone, an error makes
   `Run` wait for a worker that leaves only when its context is done.
3. **`retired_ttl` starts over** (`reconciler_retention`).  Every further qualified
   miss of a retired entity stamps `RetiredAt` again, so under steady traffic it
   does not expire.
4. **A generic eBPF receiver does not count** (`discovery_receipt`).
   `docs/ebpf-source.md` says that a peer-derived dependency does not replace an
   exact receiver.  `enrichEBPFPeers` notes receivers only of source domains with
   the prefix `ebpf:`; the loader gives `ebpf-otlp:` to a generic source, whose
   calls therefore get a peer dependency beside the link to their receiver.

More came up while modelling.  No run shows these as a violation: either no
document contradicts them, or the property that was worth a run is the one that
holds.

In the reconciler and its files:

- The two views may be out of order.  `serve.go:277` refuses a guardrail threshold
  above that of the stable core, and compares them as they are written;
  `WithDefaults` (`reconciliation/config.go:147`) then takes a guardrail threshold of
  0 for one that is not set and makes it 0.3.  With 0.2 for the stable core, an
  active entity whose belief is between the two, and which a window does not show, is
  in the stable core and not in the guardrail union.  `ViewsNested` says when the
  views are nested, and `NestedAsWritten` which configurations that covers.
- An entity that had decayed below the guardrail threshold and is seen once is in
  the guardrail union of that window and may leave it in the next one without any
  traffic: the second disjunct of `LeavesByMiss`.
- A frozen window can turn a retired entity into a stale one, and so return it to
  the guardrail union unseen, when it is strong or still believed in: the second
  disjunct of `EntersBySight`.
- The version of a view counts changes of anything it shows, observed latencies
  included, and not of its structure alone.
- `Process` clears `loadWarnings` when it makes its report, before `saveState`
  (`reconciliation/engine.go:183`).  When that save fails the report is dropped,
  and the warning that the state file was corrupt is in no report.
- `mandatory_targets` of an endpoint are not filtered when a projection leaves a
  service out.  The view is written as it is; a guardrail publication with such an
  endpoint fails when the envelope is encoded.

In what is published:

- `first_seen` is not carried over under reconciliation: `buildProjectionSnapshot`
  never calls `carryForwardObservationTimes`, which `docs/architecture.md:100`
  describes.  `SeenCarried` says which envelopes do carry it.
- A runtime that is restarted in a window, and sees the same topology in the rest
  of it, overwrites the snapshot that it had published before: the file name is
  made of the window's end and the digest.  `docs/runtime-config.md:95` has one file
  for each emitted snapshot.
- A failed or interrupted write of a sidecar leaves a snapshot without one.
- When a later write of the sink fails, the snapshot, and perhaps the latest file, is
  ahead of the envelope that the next diff is taken against: `DiffBase` says which
  one that is.  The flush returns an error, as `Close` does in on_shutdown mode,
  though readers have the snapshot.  The same holds for a view whose sidecar fails.
- A diff is computed before `SortDeterministic` drops empty metadata objects, so it
  may call an entity changed whose published form is the same.
- An unavailable view removes nothing: the old view's signal-quality sidecar stays
  beside the report that calls the view unavailable (`engine.go:384`).
- `discover` makes four writes; a failure between them leaves a new model beside
  an old snapshot.  On Windows a rename that fails after the removal leaves no
  file at all (`atomicfile.go:55`).

In discovery, topologies and overlays:

- A service that was seen to answer for a database, and calls that database
  itself without a receiver that was seen, gets an edge to itself: `Target` does
  not compare the receiver with the caller.
- A database dependency with the identity of an execution link is an error of
  `Discover`: the whole window fails, and its spans are lost with it.
- `enrichEBPFPeers` gives one `Peer` object to the record of a node and to that of
  the first relation to it.  The record of that relation then also collects the
  sources of later callers of the node, and which relation it is depends on the
  order of the spans.  Peer evidence is not part of the models.
- An overlay for an entity that a window does not show is an error, and a runtime
  with overlays loses the window.  The tests of `internal/discovery` expect the
  error of `Discover`; `README.md` of the repository calls overlays additive.
- An edge keeps the first identity it is given, whatever comes later; an overlay with
  `identity: {}` gives none.  One with `reliability: {}` wipes what was there.
- Percentiles are merged one by one: an overlay that raises `p50` alone can break
  the order of the three, and the result is refused.
- A topology file may write the attribute that is reserved for overlay evidence,
  which an overlay may not.

## 6. Not modelled

- **Formats.**  OTLP, JSON, gzip, schemas, canonical encoding, digests: stateless
  conversions before and after the models.  The loaders of
  `internal/connectors` other than that of topology files are of this kind.
- **Telemetry health.**  The freeze verdict is an input, chosen freely per window.
- **The content of reports.**  The signal-quality dimensions, the summary, metrics
  and the evidence of peers and sources are derived data that nothing reads back.
  Of the quality report the models have the file, and which snapshot it is about;
  of the evidence they have that of replicas.
- **Provenance lists** beyond which overlays have touched an entity
  (`discovery/source_provenance.go`), confidence, and the instances and
  placements of services.
- **Corrupt state files**: `loadState` starts afresh with a warning.
- **Concurrent runtimes on one state file**, which the code does not guard against.
- Configuration loading, the command line other than the writes of `discover`,
  release tooling and examples.

## 7. Plan

Done: the engine in both modes, the service in both, the reconciler with its state
file, the discovery of traces, topology files and overlays, and what is published,
with the abstract specifications `WindowLog` and `AtomicBatch`, and the safety
properties of all of them proved.  Next, in this order:

1. The corrupt state file and its warning, in `Reconciler`, under the theorems it
   has: a restart that starts afresh, with the loss of versions that goes with it.
2. Instances and placements, which `Discovery` leaves out, and the merge of
   provenance lists.
3. Telemetry health, which `Reconciler` takes as given: counts of the window
   against the average of earlier ones.
