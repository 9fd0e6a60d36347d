----------------------------- MODULE Publication -----------------------------
(***************************************************************************)
(* What a flush of the engine and a run of discover leave on the disk:     *)
(* the envelopes of internal/runtime/engine.go and internal/app/app.go,    *)
(* with the diff of internal/snapshot, and the writes of internal/runtime/ *)
(* sink.go and internal/quality, one after the other.  A write may fail;   *)
(* the process may crash and start again at any point.                     *)
(*                                                                         *)
(* What was discovered in a window is a function from entities to records. *)
(* A record has the times of first_seen and last_seen, which stand for     *)
(* their windows, and its metadata: "plain" for none, "rich", or "empty"   *)
(* for an object without fields, which overlays leave.  Topologies and     *)
(* their digests are what these are made of.  Counts of a diff are sets.   *)
(* Engine has what happens to a window before; here its clock is `now'.    *)
(* The paths of the latest snapshot and of the views are configured.       *)
(***************************************************************************)
EXTENDS AtomicFile, Naturals, Sequences, FiniteSetsExt

CONSTANTS
  LastWindow,           \* bound: no window begins after this one
  Discovered,           \* what a window or an input may show, by window
  Projections           \* the raw, stable and union views of a window, by window

VARIABLES
  mode,                 \* "windowed", "reconciled" or "discover"
  up,                   \* does the process run?
  ending,               \* does it end after this flush?
  now,                  \* the window of the clock
  open,                 \* the window that is open, as the engine sees it
  job,                  \* the writes still to be done, each with the view it commits
  previous              \* for each view, the last envelope that was written, or None

runVars == <<mode, up, ending, now, open, job, previous>>
vars == <<fileVars, runVars>>

ASSUME LastWindowAssumption == LastWindow \in Nat \ {0}

Views == {"raw", "stable", "primary"}
-----------------------------------------------------------------------------
(* Envelopes.                                                              *)

Latest == <<"latest">>
Out == <<"out">>
SnapshotOut == <<"snapshot-out">>
View(v) == <<v>>
SidecarPath(path) == <<"signal-quality">> \o path

\* normalizeForOutput of the records and of the model.
Normalized(records) ==
  [x \in DOMAIN records |->
     [records[x] EXCEPT !.metadata = IF @ = "empty" THEN "plain" ELSE @]]

\* TopologyDigest does not depend on what is only in records.
TopologyDigest(records) ==
  {<<x, Normalized(records)[x].metadata>> : x \in DOMAIN records}

\* A missing time gives way to the other.
mergeFirstSeen(old, new) == IF {old, new} = {None} THEN None ELSE Min({old, new} \ {None})
mergeLastSeen(old, new) == IF {old, new} = {None} THEN None ELSE Max({old, new} \ {None})

\* Times that are not carried forward.
MutantCarry(base, records) == records

\* carryForwardObservationTimes
Carry(base, records) ==
  IF base = None THEN records
  ELSE [x \in DOMAIN records |->
          IF x \in DOMAIN base.records
          THEN [records[x] EXCEPT !.first = mergeFirstSeen(base.records[x].first, @),
                                  !.last = mergeLastSeen(base.records[x].last, @)]
          ELSE records[x]]

ComputeDiff(base, records) ==
  IF base = None THEN [added |-> DOMAIN records, removed |-> {}, changed |-> {}]
  ELSE LET old == base.records IN
       [added |-> DOMAIN records \ DOMAIN old,
        removed |-> DOMAIN old \ DOMAIN records,
        changed |-> {x \in DOMAIN old \cap DOMAIN records : old[x] # records[x]}]

\* The name of the sink's file: the end of the window and the snapshot's id,
\* which is the digest of the window and the topology.
Name(env) == <<"snapshot", env.window, env.topology>>

\* buildSnapshotEnvelope, buildProjectionSnapshot and buildBatchSnapshot; the
\* base of the diff is not in the envelope, and is kept here by its name.
Envelope(w, base, found) ==
  LET records == IF mode = "windowed" THEN Carry(base, found) ELSE found IN
  [window |-> w,
   topology |-> TopologyDigest(found),
   records |-> Normalized(records),
   diff |-> ComputeDiff(base, records),
   base |-> IF base = None THEN None ELSE Name(base)]

\* FromSnapshotArtifact says which artifact it describes.
Report(env) == [window |-> env.window, topology |-> env.topology]
Unavailable(w) == [window |-> w]

\* observeTime sets both times of an entity or neither, the first no later
\* than the last; what reconciliation remembers has times of its own.
Record == [first : Nat \cup {None}, last : Nat \cup {None},
           metadata : {"plain", "rich", "empty"}]

Timed(record) ==
  /\ record.first = None <=> record.last = None
  /\ record.first # None => record.first <= record.last

ASSUME DiscoveredAssumption ==
  /\ None \notin Nat
  /\ \A w \in 1..LastWindow :
       /\ \A found \in Discovered[w] : \A x \in DOMAIN found :
            found[x] \in Record /\ Timed(found[x])
       /\ \A p \in Projections[w] : \A x \in DOMAIN p.union : p.union[x] \in Record
       /\ \A found \in Discovered[w] \cup {p.union : p \in Projections[w]} :
            None # <<"snapshot", w, TopologyDigest(found)>>
-----------------------------------------------------------------------------
(* Jobs.  A job of several writes stops at the first that fails.           *)

Write(path, content) == [path |-> path, content |-> content, commits |-> {}, env |-> None]

\* The envelope becomes the base of the next one of its view.
Commit(write, view, env) == [write EXCEPT !.commits = {view}, !.env = env]

\* The latest file first.
MutantSinkWrite(env) ==
  <<Write(Latest, env),
    Write(SidecarPath(Latest), Report(env)),
    Write(Name(env), env),
    Commit(Write(SidecarPath(Name(env)), Report(env)), "primary", env)>>

SinkWrite(env) ==
  <<Write(Name(env), env),
    Write(SidecarPath(Name(env)), Report(env)),
    Write(Latest, env),
    Commit(Write(SidecarPath(Latest), Report(env)), "primary", env)>>

\* The sidecar of a view first.
MutantWriteView(w, v, found) ==
  LET env == Envelope(w, previous[v], found) IN
  <<Write(SidecarPath(View(v)), Report(env)), Commit(Write(View(v), env), v, env)>>

\* WriteProjectionViewWithQuality: a view that is not available is written
\* without a snapshot, and its sidecar not at all.
WriteView(w, v, found) ==
  LET env == Envelope(w, previous[v], found) IN
  IF found = <<>> THEN <<Write(View(v), Unavailable(w))>>
  ELSE <<Write(View(v), env),
         Commit(Write(SidecarPath(View(v)), Report(env)), v, env)>>

\* flushReconciled: the report and its summary come first, then the views,
\* then, unless it is empty, the union.
ReconciledJob(w, p) ==
  <<Write(<<"report">>, Unavailable(w)), Write(<<"summary">>, Unavailable(w))>>
    \o WriteView(w, "raw", p.raw) \o WriteView(w, "stable", p.stable)
    \o (IF p.union = <<>> THEN <<>> ELSE SinkWrite(Envelope(w, previous.primary, p.union)))

\* runDiscover, with and without --snapshot-out.
DiscoverJobs(w, found) ==
  LET env == Envelope(w, None, found)
      mdl == <<Write(Out, env), Write(SidecarPath(Out), Report(env))>>
  IN  {mdl, mdl \o <<Write(SnapshotOut, env), Write(SidecarPath(SnapshotOut), Report(env))>>}

Jobs(w) ==
  CASE mode = "windowed" ->
         {SinkWrite(Envelope(w, previous.primary, found)) : found \in Discovered[w]}
    [] mode = "reconciled" -> {ReconciledJob(w, p) : p \in Projections[w]}
    [] mode = "discover" -> UNION {DiscoverJobs(w, found) : found \in Discovered[w]}
-----------------------------------------------------------------------------
(* The process.                                                            *)

Init ==
  /\ mode \in {"windowed", "reconciled", "discover"}
  /\ replaces \in BOOLEAN
  /\ up = FALSE /\ ending = FALSE
  /\ now = 1 /\ open = 1
  /\ disk = <<>> /\ temp = None
  /\ job = <<>>
  /\ previous = [v \in Views |-> None]

Idle == up /\ job = <<>> /\ ~ending

\* A process that begins with the first window again.
MutantStart ==
  /\ ~up
  /\ up' = TRUE /\ ending' = (mode = "discover")
  /\ open' = 1
  /\ job' \in IF mode = "discover" THEN Jobs(now) ELSE {<<>>}
  /\ UNCHANGED <<mode, now, previous, fileVars>>

\* A process starts with the window that the clock is in, and remembers no
\* envelope.  A run of discover takes its time from the clock.
Start ==
  /\ ~up
  /\ up' = TRUE /\ ending' = (mode = "discover")
  /\ open' = now
  /\ job' \in IF mode = "discover" THEN Jobs(now) ELSE {<<>>}
  /\ UNCHANGED <<mode, now, previous, fileVars>>

Tick ==
  /\ now < LastWindow
  /\ now' = now + 1
  /\ UNCHANGED <<mode, up, ending, open, job, previous, fileVars>>

\* The open window ends: it is flushed, or is empty, or discovery fails and
\* it is lost.
FlushDue ==
  /\ Idle /\ open < now
  /\ open' = open + 1
  /\ job' \in {<<>>} \cup Jobs(open)
  /\ UNCHANGED <<mode, up, ending, now, previous, fileVars>>

\* Close flushes the window that is open before its end.
Close ==
  /\ Idle
  /\ ending' = TRUE
  /\ job' \in {<<>>} \cup Jobs(open)
  /\ UNCHANGED <<mode, up, now, open, previous, fileVars>>

Exit ==
  /\ up /\ ending /\ job = <<>>
  /\ up' = FALSE /\ ending' = FALSE
  /\ previous' = [v \in Views |-> None]
  /\ UNCHANGED <<mode, now, open, job, fileVars>>

Prepare ==
  /\ up /\ job # <<>>
  /\ WriteTemp(job[1].content)
  /\ UNCHANGED runVars

MakeRoom ==
  /\ up /\ job # <<>>
  /\ Remove(job[1].path)
  /\ UNCHANGED runVars

Replace ==
  /\ up /\ job # <<>>
  /\ Rename(job[1].path)
  /\ job' = Tail(job)
  /\ previous' = [v \in Views |-> IF v \in job[1].commits THEN job[1].env ELSE previous[v]]
  /\ UNCHANGED <<mode, up, ending, now, open>>

\* The base moves on before the writes are known to be done.
MutantWriteFails ==
  /\ up /\ job # <<>>
  /\ GiveUp
  /\ job' = <<>>
  /\ previous' = [v \in Views |->
       IF v \in job[Len(job)].commits THEN job[Len(job)].env ELSE previous[v]]
  /\ UNCHANGED <<mode, up, ending, now, open>>

\* The flush ends with an error.  The caller may go on after it.
WriteFails ==
  /\ up /\ job # <<>>
  /\ GiveUp
  /\ job' = <<>>
  /\ UNCHANGED <<mode, up, ending, now, open, previous>>

Crash ==
  /\ up
  /\ GiveUp
  /\ up' = FALSE /\ ending' = FALSE /\ job' = <<>>
  /\ previous' = [v \in Views |-> None]
  /\ UNCHANGED <<mode, now, open>>

Next ==
  \/ Start \/ Tick \/ FlushDue \/ Close \/ Exit
  \/ Prepare \/ MakeRoom \/ Replace \/ WriteFails \/ Crash

Spec == Init /\ [][Next]_vars
-----------------------------------------------------------------------------
On(path) == path \in DOMAIN disk

\* FileSink.Write: what a reader finds at the latest path has a file of its own
\* with a sidecar, whatever write failed and whichever process wrote them.
LatestRecorded ==
  replaces /\ On(Latest) =>
    LET name == Name(disk[Latest]) IN
    /\ On(name) /\ On(SidecarPath(name))
    /\ TopologyDigest(disk[name].records) = disk[Latest].topology

\* The latest snapshot is never of an earlier window than the one before it,
\* also after a restart; and where a rename replaces it is always there.
LatestAdvances ==
  [][/\ On(Latest) /\ replaces => Latest \in DOMAIN disk'
     /\ On(Latest) /\ Latest \in DOMAIN disk' =>
          disk[Latest].window <= disk'[Latest].window]_vars

Snapshots == {path \in DOMAIN disk : path[1] = "snapshot"}

\* The diff of a snapshot can be done again from the files: what it was made
\* against is on the disk, and shows the same entities come and go.  Those that
\* changed are counted, and no more but for objects that overlays left empty.
DiffReproducible ==
  \A path \in Snapshots :
    LET env == disk[path]
        new == env.records
        old == IF env.base = None THEN <<>> ELSE disk[env.base].records
        both == DOMAIN new \cap DOMAIN old
    IN  /\ env.base # None => On(env.base)
        /\ env.diff.added = DOMAIN new \ DOMAIN old
        /\ env.diff.removed = DOMAIN old \ DOMAIN new
        /\ env.diff.changed \subseteq both
        /\ \A x \in both : IF old[x] # new[x] THEN x \in env.diff.changed
                           ELSE x \in env.diff.changed => new[x].metadata = "plain"

\* docs/architecture.md: the previous snapshot carries first_seen and last_seen.
\* An entity of two snapshots in a row was first seen no later, and last seen no
\* earlier, in the second; and it was never seen last before it was seen first.
SeenCarried ==
  mode = "windowed" => \A path \in Snapshots :
    LET new == disk[path].records IN
    /\ \A x \in DOMAIN new : None \notin {new[x].first, new[x].last} => new[x].first <= new[x].last
    /\ disk[path].base # None =>
         LET old == disk[disk[path].base].records IN
         \A x \in DOMAIN new \cap DOMAIN old :
           old[x].first # None => /\ new[x].first <= old[x].first
                                  /\ new[x].last >= old[x].last

\* A signal quality report is never newer than what it is about, nor a snapshot
\* of discover than its model; and none is about a file that was never written.
Follows(second, first) ==
  On(second) => (replaces => On(first)) /\ (On(first) => disk[second].window <= disk[first].window)

ReportsFollow ==
  /\ \A path \in DOMAIN disk : path[1] = "signal-quality" => Follows(path, Tail(path))
  /\ Follows(SnapshotOut, Out)
=============================================================================
