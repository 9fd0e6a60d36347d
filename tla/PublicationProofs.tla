------------------------- MODULE PublicationProofs -------------------------
(***************************************************************************)
(* What Publication promises of the files, for every bound and everything  *)
(* a window may show: the latest snapshot is recorded under a name of its  *)
(* own and never goes back, the diffs can be done again from the files,    *)
(* times are carried forward, and no report is ahead of what it is about.  *)
(*                                                                         *)
(* The argument is about the writes that are still to be done: each comes  *)
(* after what it needs, whether an earlier write of the job or a file of   *)
(* its own window (JobInv).  They belong to a window that nothing on the   *)
(* disk is later than (WindowInv), and the base of a diff is of an earlier *)
(* window (BaseInv, Sound).  So no write, and no removal to make room for  *)
(* one, takes away a base; and a crash leaves whatever was first written.  *)
(***************************************************************************)
EXTENDS Publication, SequenceTheorems, TLAPS

\* A sequence, of whatever it holds.
IsJob(s) == s \in Seq({s[i] : i \in DOMAIN s})

\* What has to be on the disk before a write.
Needs(write) ==
  (IF write.path = Latest
   THEN {Name(write.content), SidecarPath(Name(write.content))} ELSE {})
  \cup (IF write.path[1] = "signal-quality" THEN {Tail(write.path)} ELSE {})
  \cup (IF write.path = SnapshotOut THEN {Out} ELSE {})

\* ... which it is, unless a removal that was not followed by a rename took it.
Ready(path, w, d, r) ==
  (r => path \in DOMAIN d) /\ (path \in DOMAIN d => d[path].window = w)

\* A diff against records, and the times carried forward from them.
Reproduces(env, old) ==
  LET new == env.records
      both == DOMAIN new \cap DOMAIN old
  IN  /\ env.diff.added = DOMAIN new \ DOMAIN old
      /\ env.diff.removed = DOMAIN old \ DOMAIN new
      /\ env.diff.changed \subseteq both
      /\ \A x \in both : IF old[x] # new[x] THEN x \in env.diff.changed
                         ELSE x \in env.diff.changed => new[x].metadata = "plain"

Carries(new, old) ==
  \A x \in DOMAIN new \cap DOMAIN old :
    old[x].first # None => new[x].first <= old[x].first /\ new[x].last >= old[x].last

WellFormed(records, m) ==
  \A x \in DOMAIN records :
    /\ records[x] \in Record /\ records[x].metadata # "empty"
    /\ m = "windowed" => Timed(records[x])

\* A snapshot that is on the disk or about to be: its base is there.
Sound(env, d, m) ==
  /\ env.topology = TopologyDigest(env.records)
  /\ WellFormed(env.records, m)
  /\ env.base = None => Reproduces(env, <<>>)
  /\ env.base # None =>
       /\ env.base \in DOMAIN d /\ env.base[1] = "snapshot"
       /\ env.base[2] < env.window
       /\ Reproduces(env, d[env.base].records)
       /\ m = "windowed" => Carries(env.records, d[env.base].records)

\* The writes still to be done for window w.
Plan(s, w, d, m, r) ==
  /\ IsJob(s)
  /\ \A i \in DOMAIN s :
       /\ s[i].content.window = w
       /\ \A path \in Needs(s[i]) :
            (\E j \in 1..(i - 1) : s[j].path = path) \/ Ready(path, w, d, r)
       /\ s[i].path[1] = "snapshot" =>
            /\ s[i].path = Name(s[i].content) /\ s[i].path # None
            /\ Sound(s[i].content, d, m)
       /\ "primary" \in s[i].commits =>
            /\ i = Len(s) /\ s[i].path[1] # "snapshot"
            /\ \A j \in DOMAIN s : s[j].path[1] = "snapshot" => s[j].content = s[i].env
            /\ \/ \E j \in 1..(i - 1) : s[j].path = Name(s[i].env)
               \/ Name(s[i].env) \in DOMAIN d /\ d[Name(s[i].env)] = s[i].env

ClockInv ==
  /\ mode \in {"windowed", "reconciled", "discover"} /\ replaces \in BOOLEAN
  /\ up \in BOOLEAN /\ ending \in BOOLEAN
  /\ now \in 1..LastWindow /\ open \in 1..now
  /\ DOMAIN previous = Views
  /\ ~up => job = <<>> /\ temp = None /\ \A v \in Views : previous[v] = None
  /\ temp # None => job # <<>> /\ temp = job[1].content

WindowInv ==
  /\ \A p \in DOMAIN disk :
       /\ disk[p].window \in 1..now
       /\ up /\ ~ending => disk[p].window <= open
       /\ \A i \in DOMAIN job : disk[p].window <= job[i].content.window
  /\ \A i \in DOMAIN job :
       /\ job[i].content.window \in 1..now
       /\ ~ending => job[i].content.window < open

JobInv ==
  /\ IsJob(job)
  /\ job # <<>> => Plan(job, job[1].content.window, disk, mode, replaces)

BaseInv ==
  previous["primary"] # None =>
    LET base == previous["primary"] IN
    /\ Name(base) \in Snapshots /\ disk[Name(base)] = base
    /\ \A i \in DOMAIN job : base.window < job[i].content.window
    /\ ~ending => base.window < open

DiskInv ==
  /\ \A p \in Snapshots : p = Name(disk[p]) /\ p # None /\ Sound(disk[p], disk, mode)
  /\ LatestRecorded
  /\ ReportsFollow

IInv == ClockInv /\ WindowInv /\ JobInv /\ BaseInv /\ DiskInv
-----------------------------------------------------------------------------
(* Records, and the envelopes made of them.                                *)

\* The least and the greatest of one time or of two.
LEMMA OneOfTwo ==
  ASSUME NEW a \in Nat, NEW b \in Nat
  PROVE  /\ Min({a, b}) \in {a, b} /\ Min({a, b}) <= a /\ Min({a, b}) <= b
         /\ Max({a, b}) \in {a, b} /\ Max({a, b}) >= a /\ Max({a, b}) >= b
         /\ Min({a}) = a /\ Max({a}) = a
<1>1. \E m \in {a, b} : \A n \in {a, b} : m <= n
  <2>1. CASE a <= b
    BY <2>1
  <2>2. CASE b <= a
    BY <2>2
  <2> QED
    BY <2>1, <2>2
<1>2. \E m \in {a, b} : \A n \in {a, b} : m >= n
  <2>1. CASE a <= b
    BY <2>1
  <2>2. CASE b <= a
    BY <2>2
  <2> QED
    BY <2>1, <2>2
<1>3. Min({a, b}) \in {a, b} /\ \A n \in {a, b} : Min({a, b}) <= n
  BY <1>1 DEF Min
<1>4. Max({a, b}) \in {a, b} /\ \A n \in {a, b} : Max({a, b}) >= n
  BY <1>2 DEF Max
<1>5. Min({a}) \in {a} /\ Max({a}) \in {a}
  BY DEF Min, Max
<1> QED
  BY <1>3, <1>4, <1>5

Time == Nat \cup {None}

\* A time that is missing gives way, and the earlier or the later one is kept.
LEMMA Merged ==
  ASSUME NEW old \in Time, NEW new \in Time
  PROVE  LET first == mergeFirstSeen(old, new)
             last == mergeLastSeen(old, new)
         IN  /\ first \in Time /\ last \in Time
             /\ first = None <=> old = None /\ new = None
             /\ last = None <=> old = None /\ new = None
             /\ old # None => first <= old /\ last >= old
             /\ new # None => first <= new /\ last >= new
<1> USE DiscoveredAssumption DEF Time
<1>1. CASE old = None /\ new = None
  BY <1>1 DEF mergeFirstSeen, mergeLastSeen
<1>2. CASE old # None /\ new = None
  <2>1. {old, new} \ {None} = {old} /\ {old, new} # {None}
    BY <1>2
  <2> QED
    BY <1>2, <2>1, OneOfTwo DEF mergeFirstSeen, mergeLastSeen
<1>3. CASE old = None /\ new # None
  <2>1. {old, new} \ {None} = {new} /\ {old, new} # {None}
    BY <1>3
  <2> QED
    BY <1>3, <2>1, OneOfTwo DEF mergeFirstSeen, mergeLastSeen
<1>4. CASE old # None /\ new # None
  <2>1. {old, new} \ {None} = {old, new} /\ {old, new} # {None}
    BY <1>4
  <2>2. old \in Nat /\ new \in Nat
    BY <1>4
  <2> QED
    BY <1>4, <2>1, <2>2, OneOfTwo DEF mergeFirstSeen, mergeLastSeen
<1> QED
  BY <1>1, <1>2, <1>3, <1>4

\* What a window may show.
Shown(found) ==
  /\ \A x \in DOMAIN found : found[x] \in Record
  /\ mode = "windowed" => \A x \in DOMAIN found : Timed(found[x])

\* normalizeForOutput changes metadata that is empty, and nothing else.
LEMMA NormalizedRecord ==
  ASSUME NEW records, NEW x \in DOMAIN records, records[x] \in Record
  PROVE  LET n == Normalized(records)[x] IN
         /\ DOMAIN Normalized(records) = DOMAIN records
         /\ n \in Record /\ n.metadata # "empty"
         /\ n.first = records[x].first /\ n.last = records[x].last
         /\ records[x].metadata # "empty" => n = records[x]
         /\ records[x].metadata = "empty" => n.metadata = "plain"
BY DEF Normalized, Record

\* The digest is that of the records as they are written.
LEMMA DigestKept ==
  ASSUME NEW f, NEW g, DOMAIN f = DOMAIN g,
         \A x \in DOMAIN f : f[x] \in Record /\ g[x] \in Record,
         \A x \in DOMAIN f : f[x].metadata = g[x].metadata
  PROVE  TopologyDigest(Normalized(f)) = TopologyDigest(g)
<1> DEFINE n == Normalized(f)
<1>0. /\ DOMAIN n = DOMAIN f /\ DOMAIN Normalized(n) = DOMAIN f
      /\ DOMAIN Normalized(g) = DOMAIN f
  BY DEF Normalized
<1>1. ASSUME NEW x \in DOMAIN f
      PROVE  Normalized(n)[x].metadata = Normalized(g)[x].metadata
  <2>1. /\ n[x] \in Record /\ n[x].metadata # "empty"
        /\ f[x].metadata # "empty" => n[x] = f[x]
        /\ f[x].metadata = "empty" => n[x].metadata = "plain"
    BY NormalizedRecord
  <2>2. Normalized(n)[x] = n[x]
    BY <1>0, <2>1, NormalizedRecord
  <2>3. /\ g[x].metadata # "empty" => Normalized(g)[x] = g[x]
        /\ g[x].metadata = "empty" => Normalized(g)[x].metadata = "plain"
    BY NormalizedRecord
  <2> QED
    BY <2>1, <2>2, <2>3
<1> QED
  BY <1>0, <1>1 DEF TopologyDigest

\* carryForwardObservationTimes: each entity was first seen no later, and last
\* no earlier, than in the base, and the times stay in order.
LEMMA Carried ==
  ASSUME NEW base, NEW found, base # None, Shown(found),
         WellFormed(base.records, mode), mode = "windowed"
  PROVE  LET r == Carry(base, found) IN
         /\ DOMAIN r = DOMAIN found
         /\ \A x \in DOMAIN found :
              r[x] \in Record /\ Timed(r[x]) /\ r[x].metadata = found[x].metadata
         /\ Carries(r, base.records)
<1> DEFINE r == Carry(base, found)
           old == base.records
<1>1. r = [x \in DOMAIN found |->
             IF x \in DOMAIN old
             THEN [found[x] EXCEPT !.first = mergeFirstSeen(old[x].first, @),
                                   !.last = mergeLastSeen(old[x].last, @)]
             ELSE found[x]]
  BY DEF Carry
<1>2. ASSUME NEW x \in DOMAIN found
      PROVE  /\ r[x] \in Record /\ Timed(r[x]) /\ r[x].metadata = found[x].metadata
             /\ x \in DOMAIN old /\ old[x].first # None =>
                  r[x].first <= old[x].first /\ r[x].last >= old[x].last
  <2>1. found[x] \in Record /\ Timed(found[x])
    BY DEF Shown
  <2>2. CASE x \notin DOMAIN old
    BY <1>1, <2>1, <2>2
  <2>3. CASE x \in DOMAIN old
    <3> DEFINE a == old[x]
               b == found[x]
               first == mergeFirstSeen(a.first, b.first)
               last == mergeLastSeen(a.last, b.last)
    <3>1. a \in Record /\ Timed(a)
      BY <2>3 DEF WellFormed
    <3>2. a.first \in Time /\ a.last \in Time /\ b.first \in Time /\ b.last \in Time
      BY <2>1, <3>1 DEF Record, Time
    <3>3. r[x] = [b EXCEPT !.first = first, !.last = last]
      BY <1>1, <2>3
    <3>4. /\ first \in Time /\ last \in Time
          /\ first = None <=> a.first = None /\ b.first = None
          /\ last = None <=> a.last = None /\ b.last = None
          /\ a.first # None => first <= a.first
          /\ b.first # None => first <= b.first
          /\ a.last # None => last >= a.last
          /\ b.last # None => last >= b.last
      BY <3>2, Merged
    <3> HIDE DEF a, b, first, last
    <3>5. r[x].first = first /\ r[x].last = last /\ r[x].metadata = b.metadata
          /\ r[x] \in Record
      BY <2>1, <3>3, <3>4 DEF Record, Time, b
    <3>6. Timed(r[x])
      BY <2>1, <3>1, <3>2, <3>4, <3>5, DiscoveredAssumption DEF Timed, Time, b
    <3> QED
      BY <3>1, <3>4, <3>5, <3>6 DEF Timed, a, b
  <2> QED
    BY <2>2, <2>3
<1>3. DOMAIN r = DOMAIN found
  BY <1>1
<1> QED
  BY <1>2, <1>3 DEF Carries

\* The base of an envelope that is to be made.
Base(base, w) ==
  base # None =>
    /\ Name(base) \in Snapshots /\ Name(base) # None /\ disk[Name(base)] = base
    /\ base.window < w /\ WellFormed(base.records, mode)

\* Envelopes are sound as they are made, if what they are compared with is there.
LEMMA EnvelopeSound ==
  ASSUME NEW w \in 1..LastWindow, NEW base, NEW found, Base(base, w), Shown(found),
         None # <<"snapshot", w, TopologyDigest(found)>>
  PROVE  LET env == Envelope(w, base, found) IN
         /\ env.window = w /\ Sound(env, disk, mode)
         /\ env.base # None => base # None /\ env.base = Name(base)
         /\ Name(env) = <<"snapshot", w, TopologyDigest(found)>>
<1> DEFINE r == IF mode = "windowed" THEN Carry(base, found) ELSE found
           env == Envelope(w, base, found)
<1>1. /\ env.window = w /\ env.topology = TopologyDigest(found)
      /\ env.records = Normalized(r) /\ env.diff = ComputeDiff(base, r)
      /\ env.base = IF base = None THEN None ELSE Name(base)
      /\ Name(env) = <<"snapshot", w, TopologyDigest(found)>>
  BY DEF Envelope, Name
<1>2. /\ DOMAIN r = DOMAIN found
      /\ \A x \in DOMAIN found : r[x] \in Record /\ r[x].metadata = found[x].metadata
      /\ mode = "windowed" => \A x \in DOMAIN found : Timed(r[x])
      /\ mode = "windowed" /\ base # None => Carries(r, base.records)
  <2>1. CASE mode = "windowed" /\ base # None
    BY <2>1, Carried DEF Base
  <2>2. CASE ~(mode = "windowed" /\ base # None)
    <3>1. r = found
      BY <2>2 DEF Carry
    <3> QED
      BY <2>2, <3>1 DEF Shown
  <2> QED
    BY <2>1, <2>2
<1> HIDE DEF r, env
<1>3. /\ DOMAIN env.records = DOMAIN r
      /\ \A x \in DOMAIN r :
           /\ env.records[x] \in Record /\ env.records[x].metadata # "empty"
           /\ env.records[x].first = r[x].first /\ env.records[x].last = r[x].last
           /\ r[x].metadata # "empty" => env.records[x] = r[x]
           /\ r[x].metadata = "empty" => env.records[x].metadata = "plain"
  BY <1>1, <1>2, NormalizedRecord DEF Normalized
<1>4. env.topology = TopologyDigest(env.records)
  BY <1>1, <1>2, DigestKept DEF Shown
<1>5. WellFormed(env.records, mode)
  BY <1>2, <1>3 DEF WellFormed, Timed
<1>6. CASE base = None
  <2>1. Reproduces(env, <<>>)
    BY <1>1, <1>3, <1>6 DEF Reproduces, ComputeDiff
  <2> QED
    BY <1>1, <1>4, <1>5, <1>6, <2>1 DEF Sound, env
<1>7. CASE base # None
  <2> DEFINE old == base.records
  <2>1. /\ env.base = Name(base) /\ Name(base) \in Snapshots /\ env.base # None
        /\ disk[env.base].records = old /\ WellFormed(old, mode)
        /\ env.base[2] < env.window
        /\ env.base \in DOMAIN disk /\ env.base[1] = "snapshot"
    BY <1>1, <1>7 DEF Base, Name, Snapshots
  <2>2. env.diff = [added |-> DOMAIN r \ DOMAIN old,
                    removed |-> DOMAIN old \ DOMAIN r,
                    changed |-> {x \in DOMAIN old \cap DOMAIN r : old[x] # r[x]}]
    BY <1>1, <1>7 DEF ComputeDiff
  <2>3. \A x \in DOMAIN old : old[x].metadata # "empty"
    BY <2>1 DEF WellFormed
  <2>4. Reproduces(env, old)
    BY <1>3, <2>2, <2>3 DEF Reproduces
  <2>5. mode = "windowed" => Carries(env.records, old)
    BY <1>2, <1>3, <1>7 DEF Carries
  <2>6. Sound(env, disk, mode)
    BY <1>4, <1>5, <2>1, <2>4, <2>5 DEF Sound
  <2> QED
    BY <1>1, <1>7, <2>1, <2>6 DEF env
<1> QED
  BY <1>6, <1>7

-----------------------------------------------------------------------------
(* Jobs as they are made: every write comes after what it needs.           *)

\* Jobs of one, two and four writes.
LEMMA One ==
  ASSUME NEW a
  PROVE  IsJob(<<a>>) /\ DOMAIN <<a>> = {1} /\ <<a>>[1] = a
BY DEF IsJob

\* A pair is a job of two writes.
LEMMA Two ==
  ASSUME NEW a, NEW b
  PROVE  /\ IsJob(<<a, b>>) /\ DOMAIN <<a, b>> = {1, 2} /\ Len(<<a, b>>) = 2
         /\ <<a, b>>[1] = a /\ <<a, b>>[2] = b
BY DEF IsJob

\* A quadruple is a job of four writes.
LEMMA Four ==
  ASSUME NEW a, NEW b, NEW c, NEW d
  PROVE  /\ IsJob(<<a, b, c, d>>) /\ DOMAIN <<a, b, c, d>> = {1, 2, 3, 4}
         /\ Len(<<a, b, c, d>>) = 4
         /\ <<a, b, c, d>>[1] = a /\ <<a, b, c, d>>[2] = b
         /\ <<a, b, c, d>>[3] = c /\ <<a, b, c, d>>[4] = d
BY DEF IsJob

\* What a sidecar's path tells of the file it belongs to.
LEMMA SidecarOf ==
  ASSUME NEW S, NEW p \in Seq(S)
  PROVE  SidecarPath(p)[1] = "signal-quality" /\ Tail(SidecarPath(p)) = p
<1> DEFINE T == S \cup {"signal-quality"}
           q == SidecarPath(p)
<1>1. p \in Seq(T) /\ <<"signal-quality">> \in Seq(T) /\ Len(<<"signal-quality">>) = 1
  BY SeqMonotonic
<1>2. Len(p) \in Nat
  BY LenProperties
<1>3. /\ q \in Seq(T) /\ Len(q) = 1 + Len(p)
      /\ \A i \in 1 .. 1 + Len(p) :
           q[i] = IF i <= 1 THEN <<"signal-quality">>[i] ELSE p[i - 1]
  BY <1>1, ConcatProperties DEF SidecarPath
<1> HIDE DEF q, T
<1>4. q[1] = "signal-quality" /\ q # << >>
  BY <1>2, <1>3
<1>5. /\ Tail(q) \in Seq(T) /\ Len(Tail(q)) = Len(p)
      /\ \A i \in 1 .. Len(p) : Tail(q)[i] = q[i + 1]
  BY <1>2, <1>3, <1>4, HeadTailProperties
<1>6. \A i \in 1 .. Len(p) : Tail(q)[i] = p[i]
  BY <1>2, <1>3, <1>5
<1>7. Tail(q) = p
  BY <1>1, <1>5, <1>6, SeqEqual
<1> QED
  BY <1>4, <1>7 DEF q

\* The paths of the files, by their first part.
LEMMA Paths ==
  /\ Latest[1] = "latest" /\ Out[1] = "out" /\ SnapshotOut[1] = "snapshot-out"
  /\ \A v : View(v)[1] = v
  /\ \A env : Name(env)[1] = "snapshot" /\ Name(env)[2] = env.window
  /\ SidecarPath(Latest)[1] = "signal-quality" /\ Tail(SidecarPath(Latest)) = Latest
  /\ SidecarPath(Out)[1] = "signal-quality" /\ Tail(SidecarPath(Out)) = Out
  /\ SidecarPath(SnapshotOut)[1] = "signal-quality"
  /\ Tail(SidecarPath(SnapshotOut)) = SnapshotOut
  /\ \A v : SidecarPath(View(v))[1] = "signal-quality" /\ Tail(SidecarPath(View(v))) = View(v)
  /\ \A env : /\ SidecarPath(Name(env))[1] = "signal-quality"
              /\ Tail(SidecarPath(Name(env))) = Name(env)
<1>1. /\ Latest \in Seq({"latest"}) /\ Out \in Seq({"out"})
      /\ SnapshotOut \in Seq({"snapshot-out"})
      /\ \A v : View(v) \in Seq({v})
  BY DEF Latest, Out, SnapshotOut, View
<1>2. \A env : Name(env) \in Seq({"snapshot", env.window, env.topology})
  BY DEF Name
<1> QED
  BY <1>1, <1>2, SidecarOf DEF Latest, Out, SnapshotOut, View, Name

\* What a write needs, by the kind of its path.
LEMMA NeedsOf ==
  ASSUME NEW write
  PROVE  /\ write.path[1] \notin {"latest", "signal-quality", "snapshot-out"} =>
              Needs(write) = {}
         /\ write.path[1] = "signal-quality" => Needs(write) = {Tail(write.path)}
         /\ write.path = Latest =>
              Needs(write) = {Name(write.content), SidecarPath(Name(write.content))}
         /\ write.path = SnapshotOut => Needs(write) = {Out}
BY Paths DEF Needs

\* Jobs, or the first parts of them, in which no snapshot is written.
Silent(s) == \A i \in DOMAIN s : "primary" \notin s[i].commits /\ s[i].path[1] # "snapshot"

\* FileSink.Write records the snapshot under its own name before the latest path.
LEMMA SinkPlanned ==
  ASSUME NEW env, Sound(env, disk, mode), Name(env) # None
  PROVE  Plan(SinkWrite(env), env.window, disk, mode, replaces)
<1> DEFINE a == Write(Name(env), env)
           b == Write(SidecarPath(Name(env)), Report(env))
           c == Write(Latest, env)
           d == Commit(Write(SidecarPath(Latest), Report(env)), "primary", env)
           s == SinkWrite(env)
<1>1. /\ a.path = Name(env) /\ a.content = env /\ a.commits = {}
      /\ b.path = SidecarPath(Name(env)) /\ b.content.window = env.window /\ b.commits = {}
      /\ c.path = Latest /\ c.content = env /\ c.commits = {}
      /\ d.path = SidecarPath(Latest) /\ d.content.window = env.window
      /\ d.commits = {"primary"} /\ d.env = env
  BY DEF Write, Commit, Report
<1>2. s = <<a, b, c, d>>
  BY DEF SinkWrite
<1> HIDE DEF a, b, c, d, s
<1>3. /\ IsJob(s) /\ DOMAIN s = {1, 2, 3, 4} /\ Len(s) = 4
      /\ s[1] = a /\ s[2] = b /\ s[3] = c /\ s[4] = d
  BY <1>2, Four
<1>4. /\ a.path[1] = "snapshot" /\ b.path[1] = "signal-quality"
      /\ c.path[1] = "latest" /\ d.path[1] = "signal-quality"
  BY <1>1, Paths
<1>5. /\ Needs(a) = {} /\ Needs(b) = {Name(env)}
      /\ Needs(c) = {Name(env), SidecarPath(Name(env))} /\ Needs(d) = {Latest}
  <2>1. Needs(a) = {}
    BY <1>4, NeedsOf
  <2>2. Needs(b) = {Tail(b.path)} /\ Needs(d) = {Tail(d.path)}
    BY <1>4, NeedsOf
  <2>3. Tail(b.path) = Name(env) /\ Tail(d.path) = Latest
    <3>1. /\ Tail(SidecarPath(Name(env))) = Name(env)
          /\ Tail(SidecarPath(Latest)) = Latest
      BY Paths
    <3> QED
      BY <1>1, <3>1
  <2>4. Needs(c) = {Name(c.content), SidecarPath(Name(c.content))}
    BY <1>1, NeedsOf
  <2> QED
    BY <1>1, <2>1, <2>2, <2>3, <2>4
<1>6. \A i \in DOMAIN s : \A n \in Needs(s[i]) : \E j \in 1..(i - 1) : s[j].path = n
  <2>1. \A n \in Needs(s[1]) : FALSE
    BY <1>3, <1>5
  <2>2. \A n \in Needs(s[2]) : s[1].path = n
    BY <1>1, <1>3, <1>5
  <2>3. \A n \in Needs(s[3]) : s[1].path = n \/ s[2].path = n
    BY <1>1, <1>3, <1>5
  <2>4. \A n \in Needs(s[4]) : s[3].path = n
    BY <1>1, <1>3, <1>5
  <2>5. 1 \in 1..(2 - 1) /\ 1 \in 1..(3 - 1) /\ 2 \in 1..(3 - 1) /\ 3 \in 1..(4 - 1)
    OBVIOUS
  <2> QED
    BY <1>3, <2>1, <2>2, <2>3, <2>4, <2>5
<1>7. \E j \in 1..(4 - 1) : s[j].path = Name(env)
  <2>1. 1 \in 1..(4 - 1) /\ s[1].path = Name(env)
    BY <1>1, <1>3
  <2> QED
    BY <2>1
<1>8. \A i \in DOMAIN s :
        /\ s[i].content.window = env.window
        /\ s[i].path[1] = "snapshot" =>
             /\ s[i].path = Name(s[i].content) /\ s[i].path # None
             /\ Sound(s[i].content, disk, mode)
        /\ s[i].path[1] = "snapshot" => s[i].content = env
        /\ "primary" \in s[i].commits => i = 4 /\ s[i].path[1] # "snapshot" /\ s[i].env = env
  BY <1>1, <1>3, <1>4
<1>9. Plan(s, env.window, disk, mode, replaces)
  BY <1>3, <1>6, <1>7, <1>8 DEF Plan
<1> QED
  BY <1>9 DEF s

\* WriteProjectionViewWithQuality writes the view before its sidecar.
LEMMA ViewPlanned ==
  ASSUME NEW w, NEW v \in {"raw", "stable"}, NEW found
  PROVE  /\ Plan(WriteView(w, v, found), w, disk, mode, replaces)
         /\ Silent(WriteView(w, v, found))
<1> DEFINE env == Envelope(w, previous[v], found)
           u == Write(View(v), Unavailable(w))
           a == Write(View(v), env)
           b == Commit(Write(SidecarPath(View(v)), Report(env)), v, env)
<1>1. /\ u.path = View(v) /\ u.content.window = w /\ u.commits = {}
      /\ a.path = View(v) /\ a.content.window = w /\ a.commits = {}
      /\ b.path = SidecarPath(View(v)) /\ b.content.window = w /\ b.commits = {v}
  BY DEF Write, Commit, Report, Unavailable, Envelope
<1>2. WriteView(w, v, found) = IF found = <<>> THEN <<u>> ELSE <<a, b>>
  BY DEF WriteView
<1> HIDE DEF env, u, a, b
<1>3. u.path[1] = v /\ a.path[1] = v /\ b.path[1] = "signal-quality"
  BY <1>1, Paths
<1>4. Needs(u) = {} /\ Needs(a) = {} /\ Needs(b) = {View(v)}
  <2>1. Needs(u) = {} /\ Needs(a) = {}
    BY <1>3, NeedsOf
  <2>2. Needs(b) = {Tail(b.path)}
    BY <1>3, NeedsOf
  <2>3. Tail(b.path) = View(v)
    BY <1>1, Paths
  <2> QED
    BY <2>1, <2>2, <2>3
<1>5. CASE found = <<>>
  <2> DEFINE s == WriteView(w, v, found)
  <2>1. IsJob(s) /\ DOMAIN s = {1} /\ s[1] = u
    BY <1>2, <1>5, One
  <2> HIDE DEF s
  <2>2. Plan(s, w, disk, mode, replaces) /\ Silent(s)
    BY <1>1, <1>3, <1>4, <2>1 DEF Plan, Silent
  <2> QED
    BY <2>2 DEF s
<1>6. CASE found # <<>>
  <2> DEFINE s == WriteView(w, v, found)
  <2>1. IsJob(s) /\ DOMAIN s = {1, 2} /\ s[1] = a /\ s[2] = b
    BY <1>2, <1>6, Two
  <2> HIDE DEF s
  <2>2. \A n \in Needs(s[2]) : \E j \in 1..(2 - 1) : s[j].path = n
    <3>1. 1 \in 1..(2 - 1) /\ s[1].path = View(v)
      BY <1>1, <2>1
    <3> QED
      BY <1>4, <2>1, <3>1
  <2>3. Plan(s, w, disk, mode, replaces) /\ Silent(s)
    BY <1>1, <1>3, <1>4, <2>1, <2>2 DEF Plan, Silent
  <2> QED
    BY <2>3 DEF s
<1> QED
  BY <1>5, <1>6

\* The reports of reconciliation need nothing.
LEMMA ReportsPlanned ==
  ASSUME NEW w
  PROVE  LET s == <<Write(<<"report">>, Unavailable(w)), Write(<<"summary">>, Unavailable(w))>>
         IN  Plan(s, w, disk, mode, replaces) /\ Silent(s)
<1> DEFINE a == Write(<<"report">>, Unavailable(w))
           b == Write(<<"summary">>, Unavailable(w))
<1>1. /\ a.path[1] = "report" /\ a.content.window = w /\ a.commits = {}
      /\ b.path[1] = "summary" /\ b.content.window = w /\ b.commits = {}
  BY DEF Write, Unavailable
<1> HIDE DEF a, b
<1>2. Needs(a) = {} /\ Needs(b) = {}
  BY <1>1, NeedsOf
<1> DEFINE s == <<a, b>>
<1>3. IsJob(s) /\ DOMAIN s = {1, 2} /\ s[1] = a /\ s[2] = b
  BY Two
<1> HIDE DEF s
<1>4. Plan(s, w, disk, mode, replaces) /\ Silent(s)
  BY <1>1, <1>2, <1>3 DEF Plan, Silent
<1> QED
  BY <1>4 DEF s, a, b

\* The model of discover, and what describes it.
LEMMA ModelPlanned ==
  ASSUME NEW env
  PROVE  LET s == <<Write(Out, env), Write(SidecarPath(Out), Report(env))>>
         IN  Plan(s, env.window, disk, mode, replaces)
<1> DEFINE a == Write(Out, env)
           b == Write(SidecarPath(Out), Report(env))
           s == <<a, b>>
<1>1. /\ a.path = Out /\ a.content.window = env.window /\ a.commits = {}
      /\ b.path = SidecarPath(Out) /\ b.content.window = env.window /\ b.commits = {}
  BY DEF Write, Report
<1> HIDE DEF a, b
<1>2. a.path[1] = "out" /\ b.path[1] = "signal-quality"
  BY <1>1, Paths
<1>3. Needs(b) = {Out} /\ Needs(a) = {}
  <2>1. Needs(b) = {Tail(b.path)} /\ Tail(b.path) = Out
    BY <1>1, <1>2, NeedsOf, Paths
  <2>2. Needs(a) = {}
    BY <1>2, NeedsOf
  <2> QED
    BY <2>1, <2>2
<1>4. IsJob(s) /\ DOMAIN s = {1, 2} /\ s[1] = a /\ s[2] = b
  BY Two
<1> HIDE DEF s
<1>5. \A n \in Needs(s[2]) : \E j \in 1..(2 - 1) : s[j].path = n
  <2>1. 1 \in 1..(2 - 1) /\ s[1].path = Out
    BY <1>1, <1>4
  <2> QED
    BY <1>3, <1>4, <2>1
<1>6. Plan(s, env.window, disk, mode, replaces)
  BY <1>1, <1>2, <1>3, <1>4, <1>5 DEF Plan
<1> QED
  BY <1>6 DEF s, a, b

\* One job after another.
LEMMA Concat ==
  ASSUME NEW s, NEW t, IsJob(s), IsJob(t)
  PROVE  /\ IsJob(s \o t)
         /\ Len(s) \in Nat /\ DOMAIN s = 1..Len(s)
         /\ Len(t) \in Nat /\ DOMAIN t = 1..Len(t)
         /\ Len(s \o t) = Len(s) + Len(t) /\ DOMAIN (s \o t) = 1..(Len(s) + Len(t))
         /\ \A i \in 1..Len(s) : (s \o t)[i] = s[i]
         /\ \A i \in 1..Len(t) : (s \o t)[Len(s) + i] = t[i]
<1> DEFINE u == s \o t
           S == {s[i] : i \in DOMAIN s} \cup {t[i] : i \in DOMAIN t}
<1>1. s \in Seq(S) /\ t \in Seq(S)
  BY SeqMonotonic DEF IsJob
<1>2. /\ Len(s) \in Nat /\ DOMAIN s = 1..Len(s)
      /\ Len(t) \in Nat /\ DOMAIN t = 1..Len(t)
  BY <1>1, LenProperties
<1>3. /\ u \in Seq(S) /\ Len(u) = Len(s) + Len(t)
      /\ \A i \in 1 .. Len(s) + Len(t) : u[i] = IF i <= Len(s) THEN s[i] ELSE t[i - Len(s)]
  BY <1>1, ConcatProperties
<1> HIDE DEF u
<1>4. DOMAIN u = 1..(Len(s) + Len(t))
  BY <1>3, LenProperties
<1>5. \A i \in 1..Len(s) : u[i] = s[i]
  BY <1>2, <1>3
<1>6. ASSUME NEW i \in 1..Len(t) PROVE u[Len(s) + i] = t[i]
  BY <1>2, <1>3
<1> HIDE DEF S
<1>7. IsJob(u)
  <2>1. u \in [1..Len(u) -> S] /\ Len(u) \in Nat
    BY <1>3, LenProperties
  <2>2. u \in [1..Len(u) -> {u[i] : i \in DOMAIN u}]
    BY <2>1
  <2> QED
    BY <2>1, <2>2 DEF IsJob
<1> QED
  BY <1>2, <1>3, <1>4, <1>5, <1>6, <1>7 DEF u

\* A plan after one that commits nothing is a plan.
LEMMA ConcatPlanned ==
  ASSUME NEW w, NEW s, NEW t, Silent(s),
         Plan(s, w, disk, mode, replaces), Plan(t, w, disk, mode, replaces)
  PROVE  Plan(s \o t, w, disk, mode, replaces) /\ (Silent(t) => Silent(s \o t))
<1> DEFINE u == s \o t
           n == Len(s)
           m == Len(t)
<1>1. /\ IsJob(u) /\ n \in Nat /\ m \in Nat
      /\ DOMAIN s = 1..n /\ DOMAIN t = 1..m
      /\ Len(u) = n + m /\ DOMAIN u = 1..(n + m)
      /\ \A i \in 1..n : u[i] = s[i]
      /\ \A i \in 1..m : u[n + i] = t[i]
  BY Concat DEF Plan
<1> HIDE DEF u, n, m
<1>2. \A i \in DOMAIN u : (i \in 1..n /\ u[i] = s[i])
                       \/ (\E k \in 1..m : i = n + k /\ u[i] = t[k])
  <2> TAKE i \in DOMAIN u
  <2>1. CASE i <= n
    BY <1>1, <2>1
  <2>2. CASE ~(i <= n)
    <3>1. i - n \in 1..m /\ i = n + (i - n)
      BY <1>1, <2>2
    <3>2. u[n + (i - n)] = t[i - n]
      BY <1>1, <3>1
    <3> QED
      BY <3>1, <3>2
  <2> QED
    BY <2>1, <2>2
<1>3. ASSUME NEW i \in DOMAIN u, i \in 1..n, u[i] = s[i]
      PROVE  /\ u[i].content.window = w
             /\ \A d \in Needs(u[i]) :
                  (\E j \in 1..(i - 1) : u[j].path = d) \/ Ready(d, w, disk, replaces)
             /\ u[i].path[1] # "snapshot" /\ "primary" \notin u[i].commits
  <2>1. i \in DOMAIN s
    BY <1>1, <1>3
  <2>2. \A j \in 1..(i - 1) : u[j] = s[j]
    BY <1>1, <1>3
  <2> QED
    BY <1>3, <2>1, <2>2 DEF Plan, Silent
<1>4. ASSUME NEW k \in 1..m, NEW i \in DOMAIN u, i = n + k, u[i] = t[k]
      PROVE  /\ u[i].content.window = w
             /\ \A d \in Needs(u[i]) :
                  (\E j \in 1..(i - 1) : u[j].path = d) \/ Ready(d, w, disk, replaces)
             /\ u[i].path[1] = "snapshot" =>
                  /\ u[i].path = Name(u[i].content) /\ u[i].path # None
                  /\ Sound(u[i].content, disk, mode)
             /\ "primary" \in u[i].commits =>
                  /\ i = Len(u) /\ u[i].path[1] # "snapshot"
                  /\ \A j \in DOMAIN u : u[j].path[1] = "snapshot" => u[j].content = u[i].env
                  /\ \/ \E j \in 1..(i - 1) : u[j].path = Name(u[i].env)
                     \/ Name(u[i].env) \in DOMAIN disk /\ disk[Name(u[i].env)] = u[i].env
  <2>1. k \in DOMAIN t
    BY <1>1
  <2>2. \A j \in 1..(k - 1) : n + j \in 1..(i - 1) /\ u[n + j] = t[j]
    BY <1>1, <1>4
  <2>3. \A d : (\E j \in 1..(k - 1) : t[j].path = d) => \E j \in 1..(i - 1) : u[j].path = d
    BY <2>2
  <2>4. /\ t[k].content.window = w
        /\ \A d \in Needs(t[k]) :
             (\E j \in 1..(k - 1) : t[j].path = d) \/ Ready(d, w, disk, replaces)
        /\ t[k].path[1] = "snapshot" =>
             /\ t[k].path = Name(t[k].content) /\ t[k].path # None
             /\ Sound(t[k].content, disk, mode)
        /\ "primary" \in t[k].commits =>
             /\ k = m /\ t[k].path[1] # "snapshot"
             /\ \A j \in DOMAIN t : t[j].path[1] = "snapshot" => t[j].content = t[k].env
             /\ \/ \E j \in 1..(k - 1) : t[j].path = Name(t[k].env)
                \/ Name(t[k].env) \in DOMAIN disk /\ disk[Name(t[k].env)] = t[k].env
    BY <2>1 DEF Plan, m
  <2>5. ASSUME "primary" \in t[k].commits, NEW j \in DOMAIN u, u[j].path[1] = "snapshot"
        PROVE  u[j].content = t[k].env
    <3>1. ~(j \in 1..n /\ u[j] = s[j])
      BY <1>3, <2>5
    <3>2. PICK l \in 1..m : j = n + l /\ u[j] = t[l]
      BY <1>2, <3>1
    <3> QED
      BY <1>1, <2>4, <2>5, <3>2
  <2>6. /\ u[i].content.window = w
        /\ \A d \in Needs(u[i]) :
             (\E j \in 1..(i - 1) : u[j].path = d) \/ Ready(d, w, disk, replaces)
    BY <1>4, <2>3, <2>4
  <2>7. u[i].path[1] = "snapshot" =>
          /\ u[i].path = Name(u[i].content) /\ u[i].path # None
          /\ Sound(u[i].content, disk, mode)
    BY <1>4, <2>4
  <2>8. ASSUME "primary" \in u[i].commits
        PROVE  /\ i = Len(u) /\ u[i].path[1] # "snapshot"
               /\ \A j \in DOMAIN u : u[j].path[1] = "snapshot" => u[j].content = u[i].env
               /\ \/ \E j \in 1..(i - 1) : u[j].path = Name(u[i].env)
                  \/ Name(u[i].env) \in DOMAIN disk /\ disk[Name(u[i].env)] = u[i].env
    <3>1. "primary" \in t[k].commits
      BY <1>4, <2>8
    <3>2. i = Len(u) /\ u[i].path[1] # "snapshot"
      BY <1>1, <1>4, <2>4, <3>1
    <3>3. \A j \in DOMAIN u : u[j].path[1] = "snapshot" => u[j].content = u[i].env
      BY <1>4, <2>5, <3>1
    <3>4. \/ \E j \in 1..(i - 1) : u[j].path = Name(u[i].env)
          \/ Name(u[i].env) \in DOMAIN disk /\ disk[Name(u[i].env)] = u[i].env
      BY <1>4, <2>3, <2>4, <3>1
    <3> QED
      BY <3>2, <3>3, <3>4
  <2> QED
    BY <2>6, <2>7, <2>8
<1>5. Plan(u, w, disk, mode, replaces)
  <2> SUFFICES ASSUME NEW i \in DOMAIN u
               PROVE  /\ u[i].content.window = w
                      /\ \A d \in Needs(u[i]) :
                           (\E j \in 1..(i - 1) : u[j].path = d) \/ Ready(d, w, disk, replaces)
                      /\ u[i].path[1] = "snapshot" =>
                           /\ u[i].path = Name(u[i].content) /\ u[i].path # None
                           /\ Sound(u[i].content, disk, mode)
                      /\ "primary" \in u[i].commits =>
                           /\ i = Len(u) /\ u[i].path[1] # "snapshot"
                           /\ \A j \in DOMAIN u :
                                u[j].path[1] = "snapshot" => u[j].content = u[i].env
                           /\ \/ \E j \in 1..(i - 1) : u[j].path = Name(u[i].env)
                              \/ Name(u[i].env) \in DOMAIN disk /\ disk[Name(u[i].env)] = u[i].env
    BY <1>1 DEF Plan
  <2>1. CASE i \in 1..n /\ u[i] = s[i]
    BY <1>3, <2>1
  <2>2. CASE \E k \in 1..m : i = n + k /\ u[i] = t[k]
    BY <1>4, <2>2
  <2> QED
    BY <1>2, <2>1, <2>2
<1>6. ASSUME Silent(t) PROVE Silent(u)
  BY <1>1, <1>2, <1>3, <1>6 DEF Silent
<1> QED
  BY <1>5, <1>6 DEF u

\* A flush or a run of discover begins with every write in its place.
LEMMA JobsPlanned ==
  ASSUME mode \in {"windowed", "reconciled", "discover"},
         NEW w \in 1..LastWindow, Base(previous["primary"], w), NEW s \in Jobs(w)
  PROVE  Plan(s, w, disk, mode, replaces)
<1> DEFINE b == previous["primary"]
<1>0. b = previous.primary
  OBVIOUS
<1>1. CASE mode = "windowed"
  <2>1. PICK found \in Discovered[w] : s = SinkWrite(Envelope(w, b, found))
    BY <1>1 DEF Jobs
  <2>2. Shown(found) /\ None # <<"snapshot", w, TopologyDigest(found)>>
    BY DiscoveredAssumption DEF Shown
  <2> DEFINE env == Envelope(w, b, found)
  <2>3. /\ env.window = w /\ Sound(env, disk, mode) /\ Name(env) # None
    BY <2>2, EnvelopeSound
  <2> HIDE DEF env
  <2>4. Plan(SinkWrite(env), w, disk, mode, replaces)
    BY <2>3, SinkPlanned
  <2> QED
    BY <2>1, <2>4 DEF env
<1>2. CASE mode = "reconciled"
  <2>1. PICK p \in Projections[w] : s = ReconciledJob(w, p)
    BY <1>2 DEF Jobs
  <2> DEFINE env == Envelope(w, b, p.union)
             reports == <<Write(<<"report">>, Unavailable(w)), Write(<<"summary">>, Unavailable(w))>>
             raw == WriteView(w, "raw", p.raw)
             stable == WriteView(w, "stable", p.stable)
             union == IF p.union = <<>> THEN <<>> ELSE SinkWrite(env)
  <2>2. Shown(p.union) /\ None # <<"snapshot", w, TopologyDigest(p.union)>>
    BY <1>2, DiscoveredAssumption DEF Shown
  <2>3. /\ env.window = w /\ Sound(env, disk, mode) /\ Name(env) # None
    BY <2>2, EnvelopeSound
  <2>4. s = reports \o raw \o stable \o union
    BY <2>1 DEF ReconciledJob
  <2>5. Plan(<< >>, w, disk, mode, replaces)
    BY DEF Plan, IsJob
  <2>6. Plan(union, w, disk, mode, replaces)
    <3> HIDE DEF env
    <3>1. Plan(SinkWrite(env), w, disk, mode, replaces)
      BY <2>3, SinkPlanned
    <3> QED
      BY <2>5, <3>1
  <2>7. Plan(reports, w, disk, mode, replaces) /\ Silent(reports)
    BY ReportsPlanned
  <2>8. /\ Plan(raw, w, disk, mode, replaces) /\ Silent(raw)
        /\ Plan(stable, w, disk, mode, replaces) /\ Silent(stable)
    BY ViewPlanned
  <2> HIDE DEF reports, raw, stable, union
  <2>9. Plan(reports \o raw, w, disk, mode, replaces) /\ Silent(reports \o raw)
    BY <2>7, <2>8, ConcatPlanned
  <2>10. /\ Plan(reports \o raw \o stable, w, disk, mode, replaces)
         /\ Silent(reports \o raw \o stable)
    BY <2>8, <2>9, ConcatPlanned
  <2>11. Plan(reports \o raw \o stable \o union, w, disk, mode, replaces)
    BY <2>6, <2>10, ConcatPlanned
  <2> QED
    BY <2>4, <2>11
<1>3. CASE mode = "discover"
  <2>1. PICK found \in Discovered[w] : s \in DiscoverJobs(w, found)
    BY <1>3 DEF Jobs
  <2> DEFINE env == Envelope(w, None, found)
             a == Write(Out, env)
             b2 == Write(SidecarPath(Out), Report(env))
             c == Write(SnapshotOut, env)
             d == Write(SidecarPath(SnapshotOut), Report(env))
  <2>2. s = <<a, b2>> \/ s = <<a, b2>> \o <<c, d>>
    BY <2>1 DEF DiscoverJobs
  <2>3. env.window = w
    BY DEF Envelope
  <2> HIDE DEF env
  <2>4. Plan(<<a, b2>>, w, disk, mode, replaces)
    BY <2>3, ModelPlanned
  <2>5. /\ a.content.window = w /\ b2.content.window = w
        /\ c.content.window = w /\ d.content.window = w
        /\ a.path = Out /\ b2.path = SidecarPath(Out)
        /\ c.path = SnapshotOut /\ d.path = SidecarPath(SnapshotOut)
        /\ \A x \in {a, b2, c, d} : x.commits = {}
    BY <2>3 DEF Write, Report
  <2> HIDE DEF a, b2, c, d
  <2>6. /\ a.path[1] = "out" /\ b2.path[1] = "signal-quality"
        /\ c.path[1] = "snapshot-out" /\ d.path[1] = "signal-quality"
    BY <2>5, Paths
  <2>7. Needs(a) = {} /\ Needs(b2) = {Out} /\ Needs(c) = {Out} /\ Needs(d) = {SnapshotOut}
    <3>1. Needs(b2) = {Tail(b2.path)} /\ Needs(d) = {Tail(d.path)}
      BY <2>6, NeedsOf
    <3>2. Tail(b2.path) = Out /\ Tail(d.path) = SnapshotOut
      BY <2>5, Paths
    <3>3. Needs(c) = {Out}
      BY <2>5, NeedsOf
    <3>4. Needs(a) = {}
      BY <2>6, NeedsOf
    <3> QED
      BY <3>1, <3>2, <3>3, <3>4
  <2> DEFINE first == <<a, b2>>
             second == <<c, d>>
             t == first \o second
  <2>8. /\ IsJob(first) /\ Len(first) = 2 /\ first[1] = a /\ first[2] = b2
        /\ IsJob(second) /\ Len(second) = 2 /\ second[1] = c /\ second[2] = d
    BY Two
  <2>9. IsJob(t) /\ DOMAIN t = {1, 2, 3, 4} /\ t[1] = a /\ t[2] = b2 /\ t[3] = c /\ t[4] = d
    <3> HIDE DEF first, second
    <3>0. /\ IsJob(t) /\ DOMAIN t = 1..(Len(first) + Len(second))
          /\ \A i \in 1..Len(first) : t[i] = first[i]
          /\ \A i \in 1..Len(second) : t[Len(first) + i] = second[i]
      <4>1. IsJob(first) /\ IsJob(second)
        BY <2>8
      <4> QED
        BY <4>1, Concat
    <3>1. /\ IsJob(t) /\ DOMAIN t = 1..(2 + 2)
          /\ \A i \in 1..2 : t[i] = first[i]
          /\ \A i \in 1..2 : t[2 + i] = second[i]
      BY <2>8, <3>0
    <3>2. 1 \in 1..2 /\ 2 \in 1..2 /\ 2 + 1 = 3 /\ 2 + 2 = 4
      OBVIOUS
    <3>3. t[1] = a /\ t[2] = b2
      BY <2>8, <3>1, <3>2
    <3>4. t[3] = c /\ t[4] = d
      BY <2>8, <3>1, <3>2
    <3> QED
      BY <3>1, <3>3, <3>4
  <2> HIDE DEF t
  <2>10. \A i \in DOMAIN t : \A n \in Needs(t[i]) : \E j \in 1..(i - 1) : t[j].path = n
    <3>1. /\ \A n \in Needs(t[1]) : FALSE
          /\ \A n \in Needs(t[2]) : t[1].path = n
          /\ \A n \in Needs(t[3]) : t[1].path = n
          /\ \A n \in Needs(t[4]) : t[3].path = n
      BY <2>5, <2>7, <2>9
    <3>2. 1 \in 1..(2 - 1) /\ 1 \in 1..(3 - 1) /\ 3 \in 1..(4 - 1)
      OBVIOUS
    <3> QED
      BY <2>9, <3>1, <3>2
  <2>11. Plan(t, w, disk, mode, replaces)
    BY <2>5, <2>6, <2>9, <2>10 DEF Plan
  <2> QED
    BY <2>2, <2>4, <2>11 DEF t
<1> QED
  BY <1>1, <1>2, <1>3

-----------------------------------------------------------------------------
(* What a change of one file leaves alone.                                 *)

\* Files d and e differ at most at q, which belongs to window w if it is a snapshot.
Touched(d, e, q, w) ==
  /\ DOMAIN e \ {q} = DOMAIN d \ {q}
  /\ \A p \in DOMAIN d \ {q} : e[p] = d[p]
  /\ q[1] = "snapshot" => q[2] = w

\* No window overwrites the base of an earlier or of its own snapshot.
LEMMA SoundKept ==
  ASSUME NEW env, NEW d, NEW e, NEW m, NEW q, NEW w \in Nat, Touched(d, e, q, w),
         Sound(env, d, m), env.window \in Nat, env.window <= w
  PROVE  Sound(env, e, m)
<1>1. CASE env.base = None
  BY <1>1 DEF Sound
<1>2. CASE env.base # None
  <2>1. env.base \in DOMAIN d /\ env.base[1] = "snapshot" /\ env.base[2] < env.window
    BY <1>2 DEF Sound
  <2>2. env.base # q
    <3>1. SUFFICES ASSUME env.base = q PROVE FALSE
      OBVIOUS
    <3>2. env.base[2] = w
      BY <2>1, <3>1 DEF Touched
    <3> QED
      BY <2>1, <3>2
  <2>3. env.base \in DOMAIN e /\ e[env.base] = d[env.base]
    BY <2>1, <2>2 DEF Touched
  <2> QED
    BY <1>2, <2>1, <2>3 DEF Sound
<1> QED
  BY <1>1, <1>2

\* A rename changes one path.
LEMMA PutTouches ==
  ASSUME NEW d, NEW q, NEW content
  PROVE  LET e == Put(d, q, content) IN
         /\ DOMAIN e = DOMAIN d \cup {q} /\ e[q] = content
         /\ \A p \in DOMAIN d \ {q} : e[p] = d[p]
         /\ DOMAIN e \ {q} = DOMAIN d \ {q}
BY DEF Put

\* The first write of a plan is done: what is left is a plan.
LEMMA PlanRest ==
  ASSUME NEW s, NEW w \in Nat, NEW d, NEW m, NEW r, Plan(s, w, d, m, r), s # << >>
  PROVE  Plan(Tail(s), w, Put(d, s[1].path, s[1].content), m, r)
<1> DEFINE S == {s[i] : i \in DOMAIN s}
           t == Tail(s)
           q == s[1].path
           e == Put(d, q, s[1].content)
<1>1. s \in Seq(S) /\ s # << >>
  BY DEF Plan, IsJob
<1>2. Len(s) \in Nat /\ DOMAIN s = 1..Len(s)
  BY <1>1, LenProperties
<1>3. Len(s) > 0 /\ 1 \in DOMAIN s
  <2>1. Len(s) # 0
    BY <1>1, EmptySeq
  <2> QED
    BY <1>2, <2>1
<1>4. t \in Seq(S) /\ Len(t) = Len(s) - 1 /\ \A i \in 1..Len(t) : t[i] = s[i + 1]
  BY <1>1, HeadTailProperties
<1> HIDE DEF t, S
<1>5. DOMAIN t = 1..(Len(s) - 1) /\ IsJob(t)
  <2>1. t \in [1..Len(t) -> S] /\ Len(t) \in Nat
    BY <1>4, LenProperties
  <2>2. t \in [1..Len(t) -> {t[i] : i \in DOMAIN t}]
    BY <2>1
  <2> QED
    BY <1>4, <2>1, <2>2 DEF IsJob
<1>6. \A i \in DOMAIN t : t[i] = s[i + 1] /\ i + 1 \in DOMAIN s /\ i \in Nat /\ i >= 1
  BY <1>2, <1>4, <1>5
<1>7. /\ DOMAIN e = DOMAIN d \cup {q} /\ e[q] = s[1].content
      /\ \A p \in DOMAIN d \ {q} : e[p] = d[p]
      /\ DOMAIN e \ {q} = DOMAIN d \ {q}
  BY PutTouches
<1> HIDE DEF e, q
<1>8. /\ s[1].content.window = w
      /\ q[1] = "snapshot" => q = Name(s[1].content)
  BY <1>3 DEF Plan, q
<1>9. Touched(d, e, q, w)
  BY <1>7, <1>8, Paths DEF Touched
<1>10. \A p : Ready(p, w, d, r) \/ p = q => Ready(p, w, e, r)
  BY <1>7, <1>8 DEF Ready
<1>11. ASSUME NEW i \in DOMAIN t
       PROVE  /\ t[i].content.window = w
              /\ \A p \in Needs(t[i]) :
                   (\E j \in 1..(i - 1) : t[j].path = p) \/ Ready(p, w, e, r)
  <2>1. s[i + 1].content.window = w /\ \A p \in Needs(s[i + 1]) :
          (\E j \in 1..((i + 1) - 1) : s[j].path = p) \/ Ready(p, w, d, r)
    BY <1>6 DEF Plan
  <2>2. ASSUME NEW j \in 1..((i + 1) - 1), j # 1
        PROVE  j - 1 \in 1..(i - 1) /\ t[j - 1] = s[j]
    <3>1. j - 1 \in 1..(i - 1) /\ j - 1 \in DOMAIN t /\ (j - 1) + 1 = j
      BY <1>2, <1>5, <1>6, <2>2
    <3> QED
      BY <1>6, <3>1
  <2>3. ASSUME NEW p \in Needs(t[i])
        PROVE  (\E j \in 1..(i - 1) : t[j].path = p) \/ Ready(p, w, e, r)
    <3>1. (\E j \in 1..((i + 1) - 1) : s[j].path = p) \/ Ready(p, w, d, r)
      BY <1>6, <2>1
    <3>2. CASE Ready(p, w, d, r)
      BY <1>10, <3>2
    <3>3. CASE \E j \in 1..((i + 1) - 1) : s[j].path = p
      <4>1. PICK j \in 1..((i + 1) - 1) : s[j].path = p
        BY <3>3
      <4>2. CASE j = 1
        BY <1>10, <4>1, <4>2 DEF q
      <4>3. CASE j # 1
        BY <2>2, <4>1, <4>3
      <4> QED
        BY <4>2, <4>3
    <3> QED
      BY <3>1, <3>2, <3>3
  <2> QED
    BY <1>6, <2>1, <2>3
<1>12. ASSUME NEW i \in DOMAIN t, t[i].path[1] = "snapshot"
       PROVE  t[i].path = Name(t[i].content) /\ t[i].path # None /\ Sound(t[i].content, e, m)
  <2>1. /\ t[i].path = Name(t[i].content) /\ t[i].path # None /\ Sound(t[i].content, d, m)
        /\ t[i].content.window = w
    BY <1>6, <1>12 DEF Plan
  <2>2. Sound(t[i].content, e, m)
    BY <1>9, <2>1, SoundKept
  <2> QED
    BY <2>1, <2>2
<1>13. ASSUME NEW i \in DOMAIN t, "primary" \in t[i].commits
       PROVE  /\ i = Len(t) /\ t[i].path[1] # "snapshot"
              /\ \A j \in DOMAIN t : t[j].path[1] = "snapshot" => t[j].content = t[i].env
              /\ \/ \E j \in 1..(i - 1) : t[j].path = Name(t[i].env)
                 \/ Name(t[i].env) \in DOMAIN e /\ e[Name(t[i].env)] = t[i].env
  <2> DEFINE n == Name(t[i].env)
  <2>1. /\ i + 1 = Len(s) /\ t[i].path[1] # "snapshot"
        /\ \A j \in DOMAIN s : s[j].path[1] = "snapshot" => s[j].content = t[i].env
        /\ \/ \E j \in 1..((i + 1) - 1) : s[j].path = n
           \/ n \in DOMAIN d /\ d[n] = t[i].env
    BY <1>6, <1>13 DEF Plan
  <2>2. n[1] = "snapshot"
    BY Paths
  <2> HIDE DEF n
  <2>3. q = n => n \in DOMAIN e /\ e[n] = t[i].env
    BY <1>3, <1>7, <2>1, <2>2 DEF q
  <2>4. (\E j \in 1..(i - 1) : t[j].path = n) \/ (n \in DOMAIN e /\ e[n] = t[i].env)
    <3>1. CASE n \in DOMAIN d /\ d[n] = t[i].env
      BY <1>7, <2>3, <3>1
    <3>2. CASE \E j \in 1..((i + 1) - 1) : s[j].path = n
      <4>1. PICK j \in 1..((i + 1) - 1) : s[j].path = n
        BY <3>2
      <4>2. CASE j = 1
        BY <2>3, <4>1, <4>2 DEF q
      <4>3. CASE j # 1
        <5>1. j - 1 \in 1..(i - 1) /\ j - 1 \in DOMAIN t /\ (j - 1) + 1 = j
          BY <1>2, <1>5, <1>6, <4>3
        <5>2. t[j - 1].path = n
          BY <1>6, <4>1, <5>1
        <5> QED
          BY <5>1, <5>2
      <4> QED
        BY <4>2, <4>3
    <3> QED
      BY <2>1, <3>1, <3>2
  <2>5. \A j \in DOMAIN t : t[j].path[1] = "snapshot" => t[j].content = t[i].env
    BY <1>6, <2>1
  <2>6. i = Len(t)
    BY <1>2, <1>4, <1>6, <2>1
  <2> QED
    BY <2>1, <2>4, <2>5, <2>6 DEF n
<1>14. Plan(t, w, e, m, r)
  BY <1>5, <1>11, <1>12, <1>13 DEF Plan
<1> QED
  BY <1>14 DEF t, e, q

\* The file of the first write makes room, where a rename does not replace it.
LEMMA PlanRoom ==
  ASSUME NEW s, NEW w \in Nat, NEW d, NEW m, Plan(s, w, d, m, FALSE), s # << >>
  PROVE  Plan(s, w, [p \in DOMAIN d \ {s[1].path} |-> d[p]], m, FALSE)
<1> DEFINE q == s[1].path
           e == [p \in DOMAIN d \ {q} |-> d[p]]
<1>1. Len(s) \in Nat /\ DOMAIN s = 1..Len(s) /\ 1 \in DOMAIN s
  <2> DEFINE S == {s[i] : i \in DOMAIN s}
  <2>1. s \in Seq(S) /\ s # << >>
    BY DEF Plan, IsJob
  <2>2. Len(s) \in Nat /\ DOMAIN s = 1..Len(s) /\ Len(s) # 0
    BY <2>1, LenProperties, EmptySeq
  <2> QED
    BY <2>2
<1>2. DOMAIN e = DOMAIN d \ {q} /\ \A p \in DOMAIN e : e[p] = d[p]
  OBVIOUS
<1> HIDE DEF e, q
<1>3. q[1] = "snapshot" => q[2] = w
  <2>1. /\ s[1].content.window = w
        /\ q[1] = "snapshot" => q = Name(s[1].content)
    BY <1>1 DEF Plan, q
  <2> QED
    BY <2>1, Paths
<1>4. Touched(d, e, q, w)
  BY <1>2, <1>3 DEF Touched
<1>5. \A p : Ready(p, w, d, FALSE) => Ready(p, w, e, FALSE)
  BY <1>2 DEF Ready
<1>6. ASSUME NEW i \in DOMAIN s
      PROVE  /\ s[i].content.window = w
             /\ \A p \in Needs(s[i]) :
                  (\E j \in 1..(i - 1) : s[j].path = p) \/ Ready(p, w, e, FALSE)
  BY <1>5 DEF Plan
<1>7. ASSUME NEW i \in DOMAIN s, s[i].path[1] = "snapshot"
      PROVE  s[i].path = Name(s[i].content) /\ s[i].path # None /\ Sound(s[i].content, e, m)
  <2>1. /\ s[i].path = Name(s[i].content) /\ s[i].path # None /\ Sound(s[i].content, d, m)
        /\ s[i].content.window = w
    BY <1>7 DEF Plan
  <2>2. Sound(s[i].content, e, m)
    BY <1>4, <2>1, SoundKept
  <2> QED
    BY <2>1, <2>2
<1>8. ASSUME NEW i \in DOMAIN s, "primary" \in s[i].commits
      PROVE  /\ i = Len(s) /\ s[i].path[1] # "snapshot"
             /\ \A j \in DOMAIN s : s[j].path[1] = "snapshot" => s[j].content = s[i].env
             /\ \/ \E j \in 1..(i - 1) : s[j].path = Name(s[i].env)
                \/ Name(s[i].env) \in DOMAIN e /\ e[Name(s[i].env)] = s[i].env
  <2> DEFINE n == Name(s[i].env)
  <2>1. /\ i = Len(s) /\ s[i].path[1] # "snapshot"
        /\ \A j \in DOMAIN s : s[j].path[1] = "snapshot" => s[j].content = s[i].env
        /\ (\E j \in 1..(i - 1) : s[j].path = n) \/ (n \in DOMAIN d /\ d[n] = s[i].env)
    BY <1>8 DEF Plan
  <2>2. n[1] = "snapshot"
    BY Paths
  <2> HIDE DEF n
  <2>3. CASE q = n
    <3>1. i # 1
      BY <2>1, <2>2, <2>3 DEF q
    <3>2. 1 \in 1..(i - 1) /\ s[1].path = n
      BY <1>1, <2>3, <3>1 DEF q
    <3> QED
      BY <2>1, <3>2 DEF n
  <2>4. CASE q # n
    <3>1. n \in DOMAIN d /\ d[n] = s[i].env => n \in DOMAIN e /\ e[n] = s[i].env
      BY <1>2, <2>4
    <3> QED
      BY <2>1, <3>1 DEF n
  <2> QED
    BY <2>3, <2>4
<1>9. IsJob(s)
  BY DEF Plan
<1>10. Plan(s, w, e, m, FALSE)
  BY <1>6, <1>7, <1>8, <1>9 DEF Plan
<1> QED
  BY <1>10 DEF e, q

-----------------------------------------------------------------------------
(* The invariant.                                                          *)

\* The disk is empty at first.
THEOREM InitInv == Init => IInv
<1> SUFFICES ASSUME Init PROVE IInv
  OBVIOUS
<1> USE DEF Init
<1>1. ClockInv
  <2>1. now \in 1..LastWindow /\ open \in 1..now
    BY LastWindowAssumption
  <2>2. DOMAIN previous = Views /\ \A v \in Views : previous[v] = None
    OBVIOUS
  <2> QED
    BY <2>1, <2>2 DEF ClockInv
<1>2. WindowInv /\ BaseInv
  BY DEF WindowInv, BaseInv, Views
<1>3. JobInv
  BY DEF JobInv, IsJob
<1>4. DiskInv
  BY DEF DiskInv, LatestRecorded, ReportsFollow, Follows, On, Snapshots
<1> QED
  BY <1>1, <1>2, <1>3, <1>4 DEF IInv

\* What BaseInv says of the envelope that the next one is compared with.
LEMMA PreviousIsBase ==
  ASSUME IInv, NEW w \in Nat,
         previous["primary"] # None => previous["primary"].window < w
  PROVE  Base(previous["primary"], w)
<1> SUFFICES ASSUME previous["primary"] # None PROVE Base(previous["primary"], w)
  BY DEF Base
<1> DEFINE base == previous["primary"]
<1>1. Name(base) \in Snapshots /\ disk[Name(base)] = base
  BY DEF IInv, BaseInv
<1>2. Name(base) # None /\ Sound(disk[Name(base)], disk, mode)
  BY <1>1 DEF IInv, DiskInv
<1> QED
  BY <1>1, <1>2 DEF Base, Sound

\* A job as it is made, with nothing on the disk after its window.
LEMMA JobMade ==
  ASSUME IInv, job = << >>, NEW w \in 1..LastWindow,
         previous["primary"] # None => previous["primary"].window < w,
         NEW s \in {<< >>} \cup Jobs(w)
  PROVE  /\ IsJob(s) /\ \A i \in DOMAIN s : s[i].content.window = w
         /\ s # << >> => Plan(s, s[1].content.window, disk, mode, replaces)
<1>1. CASE s = << >>
  BY <1>1 DEF IsJob
<1>2. CASE s # << >>
  <2>1. mode \in {"windowed", "reconciled", "discover"}
    BY DEF IInv, ClockInv
  <2>2. Plan(s, w, disk, mode, replaces)
    BY <1>2, <2>1, PreviousIsBase, JobsPlanned
  <2>3. IsJob(s) /\ \A i \in DOMAIN s : s[i].content.window = w
    BY <2>2 DEF Plan
  <2>4. 1 \in DOMAIN s
    BY <1>2, <2>3, LenProperties, EmptySeq DEF IsJob
  <2> QED
    BY <2>2, <2>3, <2>4
<1> QED
  BY <1>1, <1>2

\* A step that changes no file keeps what DiskInv says.
LEMMA DiskStays ==
  ASSUME DiskInv, UNCHANGED <<disk, mode, replaces>>
  PROVE  DiskInv'
BY DEF DiskInv, LatestRecorded, ReportsFollow, Follows, On, Snapshots

\* A process starts without a base; discover has its job at once.
LEMMA StartKeeps == ASSUME IInv, Start PROVE IInv'
<1> USE DEF Start, fileVars
<1>0. LastWindow \in Nat /\ now \in 1..LastWindow /\ job = << >> /\ temp = None
      /\ previous["primary"] = None
  BY LastWindowAssumption DEF IInv, ClockInv, Views
<1>1. /\ IsJob(job') /\ \A i \in DOMAIN job' : job'[i].content.window = now
      /\ job' # << >> => Plan(job', job'[1].content.window, disk, mode, replaces)
      /\ ~ending' => job' = << >>
  <2>1. job' \in {<< >>} \cup Jobs(now)
    OBVIOUS
  <2>2. ~ending' => job' = << >>
    OBVIOUS
  <2> QED
    BY <1>0, <2>1, <2>2, JobMade
<1>2. ClockInv'
  BY <1>0 DEF IInv, ClockInv
<1>3. WindowInv'
  BY <1>0, <1>1 DEF IInv, WindowInv
<1>4. JobInv'
  BY <1>1 DEF JobInv
<1>5. BaseInv'
  BY <1>0 DEF BaseInv
<1>6. DiskInv'
  BY DiskStays DEF IInv
<1> QED
  BY <1>2, <1>3, <1>4, <1>5, <1>6 DEF IInv

\* The open window is flushed: nothing on the disk is later.
LEMMA FlushDueKeeps == ASSUME IInv, FlushDue PROVE IInv'
<1> USE DEF FlushDue, Idle, fileVars
<1>0. /\ LastWindow \in Nat /\ now \in 1..LastWindow
      /\ open \in 1..now /\ open \in 1..LastWindow
      /\ job = << >> /\ up /\ ~ending
      /\ previous["primary"] # None => previous["primary"].window < open
  BY LastWindowAssumption DEF IInv, ClockInv, BaseInv
<1>1. /\ IsJob(job') /\ \A i \in DOMAIN job' : job'[i].content.window = open
      /\ job' # << >> => Plan(job', job'[1].content.window, disk, mode, replaces)
  BY <1>0, JobMade
<1>2. ClockInv'
  BY <1>0 DEF IInv, ClockInv
<1>3. WindowInv'
  BY <1>0, <1>1 DEF IInv, WindowInv
<1>4. JobInv'
  BY <1>1 DEF JobInv
<1>5. BaseInv'
  <2> SUFFICES ASSUME previous["primary"] # None
               PROVE  /\ Name(previous["primary"]) \in Snapshots
                      /\ disk[Name(previous["primary"])] = previous["primary"]
                      /\ \A i \in DOMAIN job' : previous["primary"].window < job'[i].content.window
                      /\ previous["primary"].window < open + 1
    BY DEF BaseInv, Snapshots
  <2>1. /\ Name(previous["primary"]) \in Snapshots
        /\ disk[Name(previous["primary"])] = previous["primary"]
    BY DEF IInv, BaseInv
  <2>2. previous["primary"].window \in Nat
    BY <2>1, <1>0 DEF IInv, WindowInv, Snapshots
  <2> QED
    BY <1>0, <1>1, <2>1, <2>2
<1>6. DiskInv'
  BY DiskStays DEF IInv
<1> QED
  BY <1>2, <1>3, <1>4, <1>5, <1>6 DEF IInv

\* The last flush, of the window that is still open.
LEMMA CloseKeeps == ASSUME IInv, Close PROVE IInv'
<1> USE DEF Close, Idle, fileVars
<1>0. /\ LastWindow \in Nat /\ now \in 1..LastWindow
      /\ open \in 1..now /\ open \in 1..LastWindow
      /\ job = << >> /\ up /\ ~ending
      /\ previous["primary"] # None => previous["primary"].window < open
  BY LastWindowAssumption DEF IInv, ClockInv, BaseInv
<1>1. /\ IsJob(job') /\ \A i \in DOMAIN job' : job'[i].content.window = open
      /\ job' # << >> => Plan(job', job'[1].content.window, disk, mode, replaces)
  BY <1>0, JobMade
<1>2. ClockInv'
  BY <1>0 DEF IInv, ClockInv
<1>3. WindowInv'
  BY <1>0, <1>1 DEF IInv, WindowInv
<1>4. JobInv'
  BY <1>1 DEF JobInv
<1>5. BaseInv'
  BY <1>0, <1>1 DEF IInv, BaseInv, Snapshots
<1>6. DiskInv'
  BY DiskStays DEF IInv
<1> QED
  BY <1>2, <1>3, <1>4, <1>5, <1>6 DEF IInv

\* The process ends, crashes, or gives a flush up: files stay as they are.
LEMMA StopKeeps ==
  ASSUME IInv, UNCHANGED <<mode, now, open, disk, replaces>>,
         temp' = None, job' = << >>,
         up' \in BOOLEAN, ending' \in BOOLEAN, up' => up /\ (~ending' => ~ending),
         \/ previous' = previous /\ up'
         \/ previous' = [v \in Views |-> None]
  PROVE  IInv'
<1>1. ClockInv'
  BY DEF IInv, ClockInv
<1>2. WindowInv'
  BY DEF IInv, WindowInv
<1>3. JobInv'
  BY DEF JobInv, IsJob
<1>4. BaseInv'
  BY DEF IInv, BaseInv, Snapshots, Views
<1>5. DiskInv'
  BY DiskStays DEF IInv
<1> QED
  BY <1>1, <1>2, <1>3, <1>4, <1>5 DEF IInv

\* The clock goes on.
LEMMA TickKeeps == ASSUME IInv, Tick PROVE IInv'
<1> USE DEF Tick, fileVars
<1>0. LastWindow \in Nat /\ now \in 1..LastWindow /\ open \in 1..now
  BY LastWindowAssumption DEF IInv, ClockInv
<1>1. ClockInv'
  BY <1>0 DEF IInv, ClockInv
<1>2. WindowInv'
  <2>1. 1..now \subseteq 1..now'
    BY <1>0
  <2> QED
    BY <2>1 DEF IInv, WindowInv
<1>3. JobInv'
  BY DEF IInv, JobInv
<1>4. BaseInv'
  BY DEF IInv, BaseInv, Snapshots
<1>5. DiskInv'
  BY DiskStays DEF IInv
<1> QED
  BY <1>1, <1>2, <1>3, <1>4, <1>5 DEF IInv

\* The temporary file holds what the next write will leave.
LEMMA PrepareKeeps == ASSUME IInv, Prepare PROVE IInv'
<1> USE DEF Prepare, WriteTemp, runVars
<1>1. ClockInv'
  BY DEF IInv, ClockInv
<1>2. WindowInv'
  BY DEF IInv, WindowInv
<1>3. JobInv'
  BY DEF IInv, JobInv
<1>4. BaseInv'
  BY DEF IInv, BaseInv, Snapshots
<1>5. DiskInv'
  BY DiskStays DEF IInv
<1> QED
  BY <1>1, <1>2, <1>3, <1>4, <1>5 DEF IInv

\* What is known of the write that comes next.
LEMMA NextWrite ==
  ASSUME IInv, job # << >>
  PROVE  LET w == job[1].content.window IN
         /\ 1 \in DOMAIN job /\ w \in Nat /\ w \in 1..now /\ now \in Nat
         /\ ~ending => w < open
         /\ Plan(job, w, disk, mode, replaces)
         /\ \A i \in DOMAIN job : job[i].content.window = w
         /\ \A p \in DOMAIN disk : disk[p].window \in 1..w
         /\ \A p \in Needs(job[1]) : Ready(p, w, disk, replaces)
         /\ job[1].path[1] = "snapshot" =>
              /\ job[1].path = Name(job[1].content) /\ job[1].path # None
              /\ job[1].path[2] = w /\ Sound(job[1].content, disk, mode)
         /\ previous["primary"] # None => previous["primary"].window < w
<1> DEFINE w == job[1].content.window
<1>1. Plan(job, w, disk, mode, replaces) /\ IsJob(job)
  BY DEF IInv, JobInv
<1>2. 1 \in DOMAIN job
  BY <1>1, LenProperties, EmptySeq DEF IsJob
<1>3. w \in 1..now /\ now \in Nat /\ w \in Nat /\ (~ending => w < open)
  BY <1>2, LastWindowAssumption DEF IInv, WindowInv, ClockInv
<1>4. \A p \in DOMAIN disk : disk[p].window \in 1..w
  BY <1>2, <1>3 DEF IInv, WindowInv
<1>5. \A i \in DOMAIN job : job[i].content.window = w
  BY <1>1 DEF Plan
<1>6. \A p \in Needs(job[1]) : Ready(p, w, disk, replaces)
  <2>1. \A p \in Needs(job[1]) :
          (\E j \in 1..(1 - 1) : job[j].path = p) \/ Ready(p, w, disk, replaces)
    BY <1>1, <1>2 DEF Plan
  <2> QED
    BY <2>1
<1>7. job[1].path[1] = "snapshot" =>
        /\ job[1].path = Name(job[1].content) /\ job[1].path # None
        /\ Sound(job[1].content, disk, mode)
  BY <1>1, <1>2 DEF Plan
<1>8. job[1].path[1] = "snapshot" => job[1].path[2] = w
  BY <1>7, Paths
<1>9. previous["primary"] # None => previous["primary"].window < w
  BY <1>2 DEF IInv, BaseInv
<1> QED
  BY <1>1, <1>2, <1>3, <1>4, <1>5, <1>6, <1>7, <1>8, <1>9

\* A removal takes no file that a snapshot, a report or the base relies on, but
\* the one that is about to be replaced.
LEMMA MakeRoomKeeps == ASSUME IInv, MakeRoom PROVE IInv'
<1> USE DEF MakeRoom, Remove, runVars
<1> DEFINE q == job[1].path
           w == job[1].content.window
<1>0. /\ DOMAIN disk' = DOMAIN disk \ {q} /\ \A p \in DOMAIN disk' : disk'[p] = disk[p]
      /\ UNCHANGED <<temp, replaces, mode, up, ending, now, open, job, previous>>
      /\ job # << >> /\ ~replaces /\ replaces = FALSE
  BY DEF IInv, ClockInv
<1>1. /\ w \in Nat /\ \A p \in DOMAIN disk : disk[p].window \in 1..w
      /\ q[1] = "snapshot" => q[2] = w
      /\ previous["primary"] # None => previous["primary"].window < w
      /\ Plan(job, w, disk, mode, replaces)
  BY <1>0, NextWrite
<1>2. Touched(disk, disk', q, w)
  BY <1>0, <1>1 DEF Touched
<1>3. ClockInv'
  BY <1>0 DEF IInv, ClockInv
<1>4. WindowInv'
  BY <1>0 DEF IInv, WindowInv
<1>5. JobInv'
  <2>1. Plan(job, w, [p \in DOMAIN disk \ {q} |-> disk[p]], mode, FALSE)
    BY <1>0, <1>1, PlanRoom
  <2>2. disk' = [p \in DOMAIN disk \ {q} |-> disk[p]]
    OBVIOUS
  <2> QED
    BY <1>0, <2>1, <2>2 DEF IInv, JobInv
<1>6. BaseInv'
  <2> SUFFICES ASSUME previous["primary"] # None
               PROVE  Name(previous["primary"]) \in DOMAIN disk'
    BY <1>0 DEF IInv, BaseInv, Snapshots
  <2>1. Name(previous["primary"]) \in DOMAIN disk /\ previous["primary"].window \in Nat
    BY <1>1 DEF IInv, BaseInv, Snapshots
  <2>2. /\ Name(previous["primary"])[1] = "snapshot"
        /\ Name(previous["primary"])[2] = previous["primary"].window
    BY Paths
  <2>3. Name(previous["primary"]) # q
    BY <1>1, <2>1, <2>2
  <2> QED
    BY <1>0, <2>1, <2>3
<1>7. ASSUME NEW p \in Snapshots'
      PROVE  p = Name(disk'[p]) /\ p # None /\ Sound(disk'[p], disk', mode)
  <2>1. p \in DOMAIN disk /\ p[1] = "snapshot" /\ disk'[p] = disk[p]
    BY <1>0, <1>7 DEF Snapshots
  <2>2. p = Name(disk[p]) /\ p # None /\ Sound(disk[p], disk, mode)
    BY <2>1 DEF IInv, DiskInv, Snapshots
  <2>3. disk[p].window \in Nat /\ disk[p].window <= w
    BY <1>1, <2>1
  <2>4. Sound(disk[p], disk', mode)
    BY <1>1, <1>2, <2>2, <2>3, SoundKept
  <2> QED
    BY <2>1, <2>2, <2>4
<1>8. LatestRecorded'
  BY <1>0 DEF LatestRecorded
<1>9. ReportsFollow'
  <2>1. ASSUME NEW a, NEW b, Follows(a, b) PROVE Follows(a, b)'
    BY <1>0, <2>1 DEF Follows, On
  <2> QED
    BY <1>0, <2>1 DEF IInv, DiskInv, ReportsFollow
<1> QED
  BY <1>0, <1>3, <1>4, <1>5, <1>6, <1>7, <1>8, <1>9 DEF IInv, DiskInv

\* A write is done.  The last one of a snapshot makes it the base of the next.
LEMMA ReplaceKeeps == ASSUME IInv, Replace PROVE IInv'
<1> USE DEF Replace, Rename
<1> DEFINE q == job[1].path
           c == job[1].content
           w == c.window
<1>0. /\ DOMAIN disk' = DOMAIN disk \cup {q} /\ disk'[q] = c
      /\ \A p \in DOMAIN disk \ {q} : disk'[p] = disk[p]
      /\ disk' = Put(disk, q, c)
      /\ temp' = None /\ job' = Tail(job)
      /\ UNCHANGED <<replaces, mode, up, ending, now, open>>
      /\ job # << >>
  <2>1. temp = c /\ job # << >>
    BY DEF IInv, ClockInv
  <2>2. disk' = Put(disk, q, c)
    BY <2>1
  <2>3. /\ temp' = None /\ job' = Tail(job)
        /\ UNCHANGED <<replaces, mode, up, ending, now, open>>
    OBVIOUS
  <2> HIDE DEF Replace, Rename, q, c
  <2>4. /\ DOMAIN disk' = DOMAIN disk \cup {q} /\ disk'[q] = c
        /\ \A p \in DOMAIN disk \ {q} : disk'[p] = disk[p]
    BY <2>2, PutTouches
  <2> QED
    BY <2>1, <2>2, <2>3, <2>4
<1>1. /\ 1 \in DOMAIN job /\ w \in Nat /\ w \in 1..now /\ now \in Nat
      /\ ~ending => w < open
      /\ Plan(job, w, disk, mode, replaces)
      /\ \A p \in DOMAIN disk : disk[p].window \in 1..w
      /\ \A p \in Needs(job[1]) : Ready(p, w, disk, replaces)
      /\ q[1] = "snapshot" =>
           q = Name(c) /\ q # None /\ q[2] = w /\ Sound(c, disk, mode)
      /\ previous["primary"] # None => previous["primary"].window < w
  BY <1>0, NextWrite
<1>2. Touched(disk, disk', q, w)
  BY <1>0, <1>1 DEF Touched
<1>3. Plan(job', w, disk', mode, replaces)
  BY <1>0, <1>1, PlanRest
<1>4. /\ IsJob(job') /\ \A i \in DOMAIN job' : job'[i].content.window = w
      /\ job' # << >> => job'[1].content.window = w
  <2>1. IsJob(job') /\ \A i \in DOMAIN job' : job'[i].content.window = w
    BY <1>3 DEF Plan
  <2>2. job' # << >> => 1 \in DOMAIN job'
    BY <2>1, LenProperties, EmptySeq DEF IsJob
  <2> QED
    BY <2>1, <2>2
<1>5. ClockInv'
  BY <1>0 DEF IInv, ClockInv
<1>6. WindowInv'
  <2>1. ASSUME NEW p \in DOMAIN disk'
        PROVE  disk'[p].window \in 1..w
    BY <1>0, <1>1
  <2>2. \A p \in DOMAIN disk' :
          /\ disk'[p].window \in 1..now
          /\ up /\ ~ending => disk'[p].window <= open
          /\ \A i \in DOMAIN job' : disk'[p].window <= job'[i].content.window
    <3>1. open \in Nat
      BY <1>1 DEF IInv, ClockInv
    <3> QED
      BY <1>1, <1>4, <2>1, <3>1
  <2> QED
    BY <1>0, <1>1, <1>4, <2>2 DEF WindowInv
<1>7. JobInv'
  BY <1>0, <1>3, <1>4 DEF JobInv
<1> DEFINE base == previous["primary"]
<1>8. BaseInv'
  <2>1. CASE "primary" \in job[1].commits
    <3>1. /\ job' = << >> \/ DOMAIN job' = {}
          /\ q[1] # "snapshot"
          /\ Name(job[1].env) \in DOMAIN disk /\ disk[Name(job[1].env)] = job[1].env
      <4>1. /\ 1 = Len(job) /\ q[1] # "snapshot"
            /\ \/ \E j \in 1..(1 - 1) : job[j].path = Name(job[1].env)
               \/ Name(job[1].env) \in DOMAIN disk /\ disk[Name(job[1].env)] = job[1].env
        BY <1>1, <2>1 DEF Plan
      <4>2. DOMAIN Tail(job) = {}
        <5>1. job \in Seq({job[i] : i \in DOMAIN job}) /\ job # << >>
          BY <1>0, <1>1 DEF Plan, IsJob
        <5>2. Len(Tail(job)) = Len(job) - 1
          BY <5>1, HeadTailProperties
        <5>3. DOMAIN Tail(job) = 1..Len(Tail(job))
          BY <1>0, <1>4, LenProperties DEF IsJob
        <5> QED
          BY <4>1, <5>2, <5>3
      <4> QED
        BY <1>0, <4>1, <4>2
    <3>2. Name(job[1].env)[1] = "snapshot"
      BY Paths
    <3>3. disk'[Name(job[1].env)] = job[1].env /\ Name(job[1].env) \in DOMAIN disk'
      BY <1>0, <3>1, <3>2
    <3>4. job[1].env.window \in 1..w
      BY <1>1, <3>1
    <3>5. previous'["primary"] = job[1].env
      BY <2>1 DEF Views
    <3>6. ~ending => job[1].env.window < open
      <4>1. open \in Nat
        BY <1>1 DEF IInv, ClockInv
      <4> QED
        BY <1>1, <3>4, <4>1
    <3>7. \A i \in DOMAIN job' : FALSE
      BY <3>1
    <3> QED
      BY <1>0, <3>2, <3>3, <3>5, <3>6, <3>7 DEF BaseInv, Snapshots
  <2>2. CASE "primary" \notin job[1].commits
    <3>1. previous'["primary"] = base
      BY <2>2 DEF Views
    <3> SUFFICES ASSUME base # None
                 PROVE  /\ Name(base) \in DOMAIN disk' /\ Name(base)[1] = "snapshot"
                        /\ disk'[Name(base)] = base
                        /\ \A i \in DOMAIN job' : base.window < job'[i].content.window
                        /\ ~ending => base.window < open
      BY <1>0, <3>1 DEF BaseInv, Snapshots
    <3>2. /\ Name(base) \in DOMAIN disk /\ disk[Name(base)] = base
          /\ ~ending => base.window < open
      BY DEF IInv, BaseInv, Snapshots
    <3>3. Name(base)[1] = "snapshot" /\ Name(base)[2] = base.window
      BY Paths
    <3>4. base.window \in Nat /\ base.window < w
      BY <1>1, <3>2
    <3>5. Name(base) # q
      BY <1>1, <3>3, <3>4
    <3> QED
      BY <1>0, <1>4, <3>2, <3>3, <3>4, <3>5
  <2> QED
    BY <2>1, <2>2
<1>9. ASSUME NEW p \in Snapshots'
      PROVE  p = Name(disk'[p]) /\ p # None /\ Sound(disk'[p], disk', mode)
  <2>1. p[1] = "snapshot" /\ p \in DOMAIN disk'
    BY <1>9 DEF Snapshots
  <2>2. CASE p = q
    <3>1. disk'[p] = c /\ p = Name(c) /\ p # None /\ Sound(c, disk, mode)
      BY <1>0, <1>1, <2>1, <2>2
    <3>2. Sound(c, disk', mode)
      BY <1>1, <1>2, <3>1, SoundKept
    <3> QED
      BY <3>1, <3>2
  <2>3. CASE p # q
    <3>1. p \in DOMAIN disk /\ disk'[p] = disk[p]
      BY <1>0, <2>1, <2>3
    <3>2. p = Name(disk[p]) /\ p # None /\ Sound(disk[p], disk, mode)
      BY <2>1, <3>1 DEF IInv, DiskInv, Snapshots
    <3>3. disk[p].window \in Nat /\ disk[p].window <= w
      BY <1>1, <3>1
    <3>4. Sound(disk[p], disk', mode)
      BY <1>1, <1>2, <3>2, <3>3, SoundKept
    <3> QED
      BY <3>1, <3>2, <3>4
  <2> QED
    BY <2>2, <2>3
<1>10. LatestRecorded'
  <2> SUFFICES ASSUME replaces, Latest \in DOMAIN disk'
               PROVE  LET name == Name(disk'[Latest]) IN
                      /\ name \in DOMAIN disk' /\ SidecarPath(name) \in DOMAIN disk'
                      /\ TopologyDigest(disk'[name].records) = disk'[Latest].topology
    BY <1>0 DEF LatestRecorded, On
  <2> DEFINE name == Name(disk'[Latest])
  <2>1. name[1] = "snapshot" /\ name[3] = disk'[Latest].topology
    BY DEF Name
  <2>2. name \in DOMAIN disk' /\ SidecarPath(name) \in DOMAIN disk'
    <3>1. CASE q = Latest
      <4>1. Needs(job[1]) = {name, SidecarPath(name)}
        BY <1>0, <3>1, NeedsOf
      <4> QED
        BY <1>0, <1>1, <4>1 DEF Ready
    <3>2. CASE q # Latest
      <4>1. disk'[Latest] = disk[Latest] /\ Latest \in DOMAIN disk
        BY <1>0, <3>2
      <4> QED
        BY <1>0, <4>1 DEF IInv, DiskInv, LatestRecorded, On
    <3> QED
      BY <3>1, <3>2
  <2>3. name \in Snapshots'
    BY <2>1, <2>2 DEF Snapshots
  <2>4. name = Name(disk'[name]) /\ Sound(disk'[name], disk', mode)
    BY <1>9, <2>3
  <2>5. name[3] = disk'[name].topology
    BY <2>4 DEF Name
  <2>6. disk'[name].topology = TopologyDigest(disk'[name].records)
    BY <2>4 DEF Sound
  <2> QED
    BY <2>1, <2>2, <2>5, <2>6
<1>11. ASSUME NEW a, NEW b, Follows(a, b), a = q => b \in Needs(job[1])
       PROVE  Follows(a, b)'
  <2> SUFFICES ASSUME a \in DOMAIN disk'
               PROVE  /\ replaces => b \in DOMAIN disk'
                      /\ b \in DOMAIN disk' => disk'[a].window <= disk'[b].window
    BY <1>0 DEF Follows, On
  <2>1. \A p \in DOMAIN disk' : disk'[p].window \in 1..w
    BY <1>0, <1>1
  <2>2. CASE a = q
    <3>1. Ready(b, w, disk, replaces)
      BY <1>1, <1>11, <2>2
    <3> QED
      BY <1>0, <1>1, <2>2, <3>1 DEF Ready
  <2>3. CASE a # q
    <3>1. a \in DOMAIN disk /\ disk'[a] = disk[a]
      BY <1>0, <2>3
    <3>2. CASE b = q
      <4>1. disk'[b].window = w /\ b \in DOMAIN disk'
        BY <1>0, <3>2
      <4> QED
        BY <1>1, <2>1, <4>1
    <3>3. CASE b # q
      BY <1>0, <1>11, <3>1, <3>3 DEF Follows, On
    <3> QED
      BY <3>2, <3>3
  <2> QED
    BY <2>2, <2>3
<1>12. ReportsFollow'
  <2>1. ASSUME NEW p \in DOMAIN disk', p[1] = "signal-quality"
        PROVE  Follows(p, Tail(p))'
    <3>1. Follows(p, Tail(p))
      <4>1. CASE p \in DOMAIN disk
        BY <2>1, <4>1 DEF IInv, DiskInv, ReportsFollow
      <4>2. CASE p \notin DOMAIN disk
        BY <4>2 DEF Follows, On
      <4> QED
        BY <4>1, <4>2
    <3>2. p = q => Tail(p) \in Needs(job[1])
      BY <2>1 DEF Needs
    <3> QED
      BY <1>11, <3>1, <3>2
  <2>2. Follows(SnapshotOut, Out)'
    <3>1. SnapshotOut = q => Out \in Needs(job[1])
      BY DEF Needs
    <3>2. Follows(SnapshotOut, Out)
      BY DEF IInv, DiskInv, ReportsFollow
    <3> QED
      BY <1>11, <3>1, <3>2
  <2> QED
    BY <2>1, <2>2 DEF ReportsFollow, SnapshotOut, Out
<1>13. DiskInv'
  BY <1>0, <1>9, <1>10, <1>12 DEF DiskInv
<1> QED
  BY <1>5, <1>6, <1>7, <1>8, <1>13 DEF IInv

\* Every step keeps the invariant.
THEOREM NextInv == IInv /\ [Next]_vars => IInv'
<1> SUFFICES ASSUME IInv, [Next]_vars PROVE IInv'
  OBVIOUS
<1>1. CASE Start
  BY <1>1, StartKeeps
<1>2. CASE Tick
  BY <1>2, TickKeeps
<1>3. CASE FlushDue
  BY <1>3, FlushDueKeeps
<1>4. CASE Close
  BY <1>4, CloseKeeps
<1>5. CASE Exit
  BY <1>5, StopKeeps DEF IInv, ClockInv, Exit, fileVars
<1>6. CASE Prepare
  BY <1>6, PrepareKeeps
<1>7. CASE MakeRoom
  BY <1>7, MakeRoomKeeps
<1>8. CASE Replace
  BY <1>8, ReplaceKeeps
<1>9. CASE WriteFails
  BY <1>9, StopKeeps DEF IInv, ClockInv, WriteFails, GiveUp
<1>10. CASE Crash
  BY <1>10, StopKeeps DEF IInv, ClockInv, Crash, GiveUp
<1>11. CASE UNCHANGED vars
  <2> USE <1>11 DEF vars, fileVars, runVars
  <2>1. ClockInv' /\ WindowInv' /\ JobInv' /\ BaseInv'
    BY DEF IInv, ClockInv, WindowInv, JobInv, BaseInv, Snapshots
  <2>2. DiskInv'
    BY DiskStays DEF IInv
  <2> QED
    BY <2>1, <2>2 DEF IInv
<1> QED
  BY <1>1, <1>2, <1>3, <1>4, <1>5, <1>6, <1>7, <1>8, <1>9, <1>10, <1>11 DEF Next

\* The invariant holds of every run, with its crashes, restarts and failing writes.
THEOREM Always == Spec => []IInv
BY InitInv, NextInv, PTL DEF Spec

\* What FileSink.Write left at the latest path has a file of its own with a
\* sidecar and the same topology, after any crash between the writes.
THEOREM LatestIsRecorded == Spec => []LatestRecorded
<1>1. IInv => LatestRecorded
  BY DEF IInv, DiskInv
<1> QED
  BY <1>1, Always, PTL

\* No signal quality report is newer than its file, and no snapshot of discover
\* than its model.
THEOREM ReportsFollowFiles == Spec => []ReportsFollow
<1>1. IInv => ReportsFollow
  BY DEF IInv, DiskInv
<1> QED
  BY <1>1, Always, PTL

\* The base of every diff is still on the disk, and the diff is what comparing
\* the two files gives.
THEOREM DiffsReproducible == Spec => []DiffReproducible
<1>1. IInv => DiffReproducible
  <2> SUFFICES ASSUME IInv, NEW path \in Snapshots
               PROVE  LET env == disk[path]
                          old == IF env.base = None THEN << >> ELSE disk[env.base].records
                      IN  (env.base # None => On(env.base)) /\ Reproduces(env, old)
    BY DEF DiffReproducible, Reproduces
  <2>1. Sound(disk[path], disk, mode)
    BY DEF IInv, DiskInv
  <2> QED
    BY <2>1 DEF Sound, On
<1> QED
  BY <1>1, Always, PTL

\* first_seen never rises and last_seen never falls from a snapshot to the next,
\* as docs/architecture.md has it.
THEOREM TimesCarried == Spec => []SeenCarried
<1>1. IInv => SeenCarried
  <2> SUFFICES ASSUME IInv, mode = "windowed", NEW path \in Snapshots
               PROVE  /\ \A x \in DOMAIN disk[path].records :
                           None \notin {disk[path].records[x].first, disk[path].records[x].last}
                             => disk[path].records[x].first <= disk[path].records[x].last
                      /\ disk[path].base # None =>
                           Carries(disk[path].records, disk[disk[path].base].records)
    BY DEF SeenCarried, Carries
  <2>1. Sound(disk[path], disk, mode)
    BY DEF IInv, DiskInv
  <2> QED
    BY <2>1 DEF Sound, WellFormed, Timed
<1> QED
  BY <1>1, Always, PTL

\* No step puts a snapshot of an earlier window at the latest path, or takes the
\* file away where a rename replaces it.
THEOREM LatestNeverGoesBack == Spec => LatestAdvances
<1> DEFINE A == /\ On(Latest) /\ replaces => Latest \in DOMAIN disk'
                /\ On(Latest) /\ Latest \in DOMAIN disk' =>
                     disk[Latest].window <= disk'[Latest].window
<1>1. ASSUME IInv, [Next]_vars PROVE A \/ UNCHANGED vars
  <2> SUFFICES ASSUME On(Latest), ~UNCHANGED vars PROVE A
    OBVIOUS
  <2>0. Latest \in DOMAIN disk /\ disk[Latest].window \in Nat /\ now \in Nat
    BY <1>1, LastWindowAssumption DEF IInv, WindowInv, ClockInv, On
  <2>1. CASE UNCHANGED disk
    BY <2>0, <2>1
  <2>2. CASE MakeRoom
    BY <2>0, <2>2 DEF MakeRoom, Remove
  <2>3. CASE Replace
    <3>1. /\ job # << >> /\ temp = job[1].content
      BY <1>1, <2>3 DEF Replace, Rename, IInv, ClockInv
    <3>2. disk[Latest].window <= job[1].content.window
      BY <1>1, <2>0, <3>1, NextWrite
    <3>3. disk' = Put(disk, job[1].path, job[1].content)
      BY <2>3, <3>1 DEF Replace, Rename
    <3> DEFINE q == job[1].path
               c == job[1].content
    <3> HIDE DEF q, c
    <3>4. /\ DOMAIN disk' = DOMAIN disk \cup {q} /\ disk'[q] = c
          /\ \A p \in DOMAIN disk \ {q} : disk'[p] = disk[p]
      <4>1. disk' = Put(disk, q, c)
        BY <3>3 DEF q, c
      <4> QED
        BY <4>1 DEF Put
    <3>5. Latest \in DOMAIN disk' /\ disk[Latest].window <= disk'[Latest].window
      <4>1. CASE Latest = q
        BY <3>2, <3>4, <4>1 DEF c
      <4>2. CASE Latest # q
        BY <2>0, <3>4, <4>2
      <4> QED
        BY <4>1, <4>2
    <3> QED
      BY <3>5
  <2> QED
    BY <1>1, <2>1, <2>2, <2>3
    DEF Next, Start, Tick, FlushDue, Close, Exit, Prepare, WriteTemp, WriteFails,
        Crash, GiveUp, fileVars
<1>2. IInv /\ [Next]_vars => [A]_vars
  BY <1>1
<1> QED
  BY <1>2, Always, PTL DEF Spec, LatestAdvances
=============================================================================
