---------------------------- MODULE EngineProofs ----------------------------
(***************************************************************************)
(* Theorems about Engine, for any number of requests, any batches and      *)
(* sizes: its types, the order in which it publishes, and that it          *)
(* implements WindowLog.                                                   *)
(***************************************************************************)
EXTENDS Engine, TLAPS

\* The actions of one goroutine that Next quantifies over, as Next's cases.
LEMMA NextCases ==
  ASSUME [Next]_vars
  PROVE  \/ UNCHANGED vars
         \/ Advance \/ Stop \/ WakeTicker \/ StopTicker \/ ReportError \/ StartClose \/ Abort
         \/ \E r \in Requests : Receive(r) \/ BeginAdmit(r) \/ AdmitSpan(r) \/ EndAdmit(r)
         \/ \E p \in Procs : Flush(p)
BY DEF Next, Step, Admit, Terminated

\* Records and sequences of the right type stay so.
LEMMA WindowUpdate ==
  ASSUME NEW w \in Window, NEW d \in Nat, NEW l \in Nat, NEW o \in Nat,
         NEW s \in SUBSET Span
  PROVE  /\ [w EXCEPT !.observed = o] \in Window
         /\ [w EXCEPT !.late = l, !.dropped = d, !.spans = s] \in Window
BY DEF Window

\* A new window is a window, without spans.
LEMMA NewWindowType ==
  ASSUME NEW start \in Nat
  PROVE  /\ NewWindow(start) \in Window
         /\ NewWindow(start).start = start
         /\ NewWindow(start).end > start
         /\ NewWindow(start).spans = {}
BY EngineAssumption DEF NewWindow, Window

\* The remainder of a number below the divisor is the number.
LEMMA ModSmall ==
  ASSUME NEW m \in Nat \ {0}, NEW n \in 0 .. m - 1
  PROVE  n % m = n
OBVIOUS

\* What Append makes of a sequence over S and an element of S.
LEMMA AppendType ==
  ASSUME NEW S, NEW s \in Seq(S), NEW e \in S
  PROVE  Append(s, e) \in Seq(S)
OBVIOUS

-----------------------------------------------------------------------------
\* Every variable keeps its type.
LEMMA TypeInit == Init => TypeOK
<1> SUFFICES ASSUME Init PROVE TypeOK
  OBVIOUS
<1> USE DEF Init
<1>1. now \in Nat /\ now % WindowSize \in 0 .. WindowSize - 1
  BY EngineAssumption, SMT
<1>2. now - (now % WindowSize) \in Nat
  BY <1>1, ModSmall, EngineAssumption
<1>3. current \in Window
  BY <1>1, <1>2, NewWindowType DEF AlignWindow
<1>4. \A p \in Procs : pc[p] = "idle"
  OBVIOUS
<1>5. Holders = {}
  BY <1>4 DEF Holders, Working
<1>6. emitted \in [Views -> Seq([window : Window, base : Nat])]
  OBVIOUS
<1>7. pc \in [Procs -> Labels]
  BY DEF Labels
<1> HIDE DEF Init
<1>8. now \in Nat /\ flushMu = None /\ mu = None
      /\ stopping \in BOOLEAN /\ discarded = {} /\ lost = {} /\ torn = {}
  BY <1>1 DEF Init
<1>9. /\ at \in [Procs -> Nat]
      /\ batch \in [Requests -> {<< >>}] /\ idx \in [Requests -> Nat \ {0}]
      /\ taken \in [Procs -> {None}] /\ previous \in [Views -> Nat]
      /\ files \in [Files -> Nat] /\ latestReport \in Nat
  BY DEF Init, NoWindow
<1> QED
  BY <1>3, <1>5, <1>6, <1>7, <1>8, <1>9 DEF TypeOK

\* The span that AdmitSpan looks at is one of the spans requests may carry.
LEMMA AdmittedSpan ==
  ASSUME TypeOK, NEW r \in Requests, idx[r] <= Len(batch[r])
  PROVE  <<r, idx[r]>> \in Span
<1>1. idx[r] \in Nat \ {0} /\ batch[r] \in Batches \cup {<< >>}
  BY DEF TypeOK
<1>2. batch[r] \in Batches /\ idx[r] \in DOMAIN batch[r]
  BY <1>1, EngineAssumption
<1> QED
  BY <1>2 DEF Span

\* Every step keeps the types.
LEMMA TypeStep == TypeOK /\ [Next]_vars => TypeOK'
<1> SUFFICES ASSUME TypeOK, [Next]_vars PROVE TypeOK'
  OBVIOUS
<1> USE DEF TypeOK, Procs
<1>1. CASE UNCHANGED vars
  BY <1>1 DEF vars, Holders, Window
<1>2. CASE Advance
  <2>1. now' \in Nat
    BY <1>2 DEF Advance
  <2>2. UNCHANGED <<current, flushMu, mu, pc, at, batch, idx, taken, previous, emitted,
                    files, latestReport, lost, torn, stopping, discarded>>
    BY <1>2 DEF Advance, outVars
  <2> QED
    BY <2>1, <2>2 DEF Holders
<1>3. CASE Stop
  BY <1>3 DEF Stop, outVars, Holders
<1>4. CASE WakeTicker
  BY <1>4 DEF WakeTicker, Goto, inVars, outVars, Holders, Labels, Working
<1>5. CASE StopTicker
  BY <1>5 DEF StopTicker, Goto, inVars, outVars, Holders, Labels, Working
<1>24. CASE ReportError
  BY <1>24 DEF ReportError, Goto, inVars, outVars, Holders, Labels, Working
<1>6. CASE StartClose
  BY <1>6 DEF StartClose, Goto, inVars, outVars, Holders, Labels, Working
<1>7. CASE Abort
  BY <1>7 DEF Abort, Goto, inVars, outVars, Holders, Labels, Working, Final
<1>8. ASSUME NEW r \in Requests, Receive(r) PROVE TypeOK'
  BY <1>8 DEF Receive, Goto, outVars, Holders, Labels, Working
<1>9. ASSUME NEW r \in Requests, BeginAdmit(r) PROVE TypeOK'
  <2>1. batch[r] \in Batches \cup {<< >>}
    OBVIOUS
  <2>2. Len(batch[r]) \in Nat
    BY <2>1, EngineAssumption
  <2>3. current.observed + Len(batch[r]) \in Nat
    BY <2>2 DEF Window
  <2>4. current' \in Window
    BY <1>9, <2>3, WindowUpdate DEF BeginAdmit
  <2> QED
    BY <1>9, <2>4 DEF BeginAdmit, Goto, inVars, outVars, Holders, Labels, Working
<1>10. ASSUME NEW r \in Requests, AdmitSpan(r) PROVE TypeOK'
  <2>1. <<r, idx[r]>> \in Span
    BY <1>10, AdmittedSpan DEF AdmitSpan
  <2>2. current.dropped \in Nat /\ current.late \in Nat /\ current.spans \in SUBSET Span
    BY DEF Window
  <2> DEFINE late == Late(EventTime(batch[r][idx[r]], at[r]))
             refused == (late /\ LateDrop) \/ Full
             l == IF late THEN current.late + 1 ELSE current.late
             d == IF refused THEN current.dropped + 1 ELSE current.dropped
             s == IF refused THEN current.spans ELSE current.spans \cup {<<r, idx[r]>>}
  <2>3. current' \in Window
    <3>1. current' = [current EXCEPT !.late = l, !.dropped = d, !.spans = s]
      BY <1>10 DEF AdmitSpan
    <3> HIDE DEF late, refused
    <3>2. l \in Nat /\ d \in Nat
      BY <2>2
    <3>3. s \in SUBSET Span
      BY <2>1, <2>2
    <3> HIDE DEF l, d, s
    <3> QED
      BY <3>1, <3>2, <3>3, WindowUpdate
  <2>4. discarded' \in SUBSET Span
    BY <1>10, <2>1 DEF AdmitSpan
  <2>5. idx' \in [Requests -> Nat \ {0}]
    BY <1>10 DEF AdmitSpan
  <2>6. UNCHANGED <<flushMu, mu, pc, at, taken, now, batch, stopping, previous,
                    emitted, files, latestReport, lost, torn>>
    BY <1>10 DEF AdmitSpan, inVars, outVars
  <2> QED
    BY <2>3, <2>4, <2>5, <2>6 DEF Holders
<1>11. ASSUME NEW r \in Requests, EndAdmit(r) PROVE TypeOK'
  BY <1>11 DEF EndAdmit, Goto, inVars, outVars, Holders, Labels, Working, Final
<1>12. ASSUME NEW p \in Procs, LockFlush(p) PROVE TypeOK'
  BY <1>12 DEF LockFlush, Goto, inVars, outVars, Holders, Labels, Flushing, Working
<1>13. ASSUME NEW p \in Procs, CheckDue(p) PROVE TypeOK'
  BY <1>13 DEF CheckDue, Goto, inVars, outVars, Holders, Labels, Flushing, Working
<1>14. ASSUME NEW p \in Procs, SkipEmpty(p) PROVE TypeOK'
  <2>1. current' \in Window
    BY <1>14, NewWindowType DEF SkipEmpty, Window
  <2> QED
    BY <1>14, <2>1 DEF SkipEmpty, Finish, Goto, inVars, outVars, Holders, Labels,
                       Flushing, Working, Final
<1>15. ASSUME NEW p \in Procs, TakeWindow(p) PROVE TypeOK'
  <2>1. current' \in Window
    BY <1>15, NewWindowType DEF TakeWindow, Window
  <2>2. [window |-> current, base |-> previous, shown |-> {"primary"}] \in TakenWindow
    BY DEF TakenWindow, Views
  <2>3. \A q \in Holders' : q # p => q \in Holders
    BY <1>15 DEF TakeWindow, Goto, Holders
  <2>4. taken' \in [Procs -> {None} \cup TakenWindow]
        /\ \A q \in Holders' : taken'[q] \in TakenWindow
    BY <1>15, <2>2, <2>3 DEF TakeWindow, Holders
  <2>5. pc' \in [Procs -> Labels]
    BY <1>15 DEF TakeWindow, Goto, Labels, Flushing, Working
  <2>6. UNCHANGED <<flushMu, mu, at, idx, now, batch, stopping, previous, emitted,
                    files, latestReport, lost, torn, discarded>>
    BY <1>15 DEF TakeWindow, inVars, outVars
  <2> QED
    BY <2>1, <2>4, <2>5, <2>6
<1>16. ASSUME NEW p \in Procs, Discover(p) PROVE TypeOK'
  BY <1>16 DEF Discover, Goto, inVars, outVars, Holders, Labels, Flushing, Working
<1>17. ASSUME NEW p \in Procs, Process(p) PROVE TypeOK'
  <2>1. p \in Holders
    BY <1>17 DEF Process, Holders, Working
  <2>2. PICK shown \in SUBSET Views : taken' = [taken EXCEPT ![p].shown = shown]
    BY <1>17 DEF Process, Shown
  <2>3. [taken[p] EXCEPT !.shown = shown] \in TakenWindow
    BY <2>1 DEF TakenWindow
  <2>4. taken' \in [Procs -> {None} \cup TakenWindow] /\ taken'[p] \in TakenWindow
    BY <2>2, <2>3
  <2>5. \A q \in Holders' : q # p => q \in Holders /\ taken'[q] = taken[q]
    BY <1>17, <2>2 DEF Process, Goto, Holders
  <2> QED
    BY <1>17, <2>4, <2>5 DEF Process, Goto, inVars, outVars, Labels, Flushing, Working
<1>18. ASSUME NEW p \in Procs, WriteReport(p) PROVE TypeOK'
  <2>1. p \in Holders
    BY <1>18 DEF WriteReport, Holders, Working
  <2>2. taken[p].window.end \in Nat
    BY <2>1 DEF TakenWindow, Window
  <2>3. files' \in [Files -> Nat]
    BY <1>18, <2>2 DEF WriteReport, Files
  <2>4. pc' \in [Procs -> Labels] /\ Holders' = Holders
    BY <1>18 DEF WriteReport, Goto, After, Labels, Flushing, Working, Holders
  <2> QED
    BY <1>18, <2>3, <2>4 DEF WriteReport, inVars
<1>19. ASSUME NEW p \in Procs, WriteView(p) PROVE TypeOK'
  <2>1. p \in Holders
    BY <1>19 DEF WriteView, Holders, Working
  <2>2. taken[p].window \in Window /\ taken[p].window.end \in Nat
        /\ taken[p].base \in [Views -> Nat]
    BY <2>1 DEF TakenWindow, Window
  <2>3. files' \in [Files -> Nat] /\ pc[p] \in Views
    BY <1>19, <2>2 DEF WriteView, Files, Views
  <2>4. pc' \in [Procs -> Labels] /\ Holders' = Holders
    <3>1. PICK l \in Working : pc' = [pc EXCEPT ![p] = l]
      BY <1>19 DEF WriteView, Goto, After, Keep, Working
    <3> QED
      BY <2>1, <3>1 DEF Labels, Flushing, Holders
  <2>6. Envelope(p, pc[p]) \in [window : Window, base : Nat]
    BY <2>2, <2>3 DEF Envelope
  <2>7. emitted' \in [Views -> Seq([window : Window, base : Nat])]
    <3>1. \A v \in Views : emitted[v] \in Seq([window : Window, base : Nat])
      OBVIOUS
    <3>2. Append(emitted[pc[p]], Envelope(p, pc[p])) \in Seq([window : Window, base : Nat])
      BY <2>3, <2>6, <3>1, AppendType
    <3>3. \/ UNCHANGED emitted
          \/ emitted' = [emitted EXCEPT ![pc[p]] = Append(@, Envelope(p, pc[p]))]
      BY <1>19 DEF WriteView
    <3> QED
      BY <3>2, <3>3
  <2> QED
    BY <1>19, <2>3, <2>4, <2>7 DEF WriteView, inVars
<1>25. ASSUME NEW p \in Procs, KeepView(p) PROVE TypeOK'
  <2>1. p \in Holders
    BY <1>25 DEF KeepView, Holders, Working
  <2>2. taken[p].window.end \in Nat
    BY <2>1 DEF TakenWindow, Window
  <2>3. previous' \in [Views -> Nat]
    BY <1>25, <2>2 DEF KeepView, Rebase, InPlace, Views
  <2>4. pc' \in [Procs -> Labels] /\ Holders' = Holders
    BY <1>25 DEF KeepView, Goto, After, InPlace, Labels, Flushing, Working, Holders
  <2> QED
    BY <1>25, <2>3, <2>4 DEF KeepView, inVars
<1>20. ASSUME NEW p \in Procs, OfferReport(p) PROVE TypeOK'
  <2>1. p \in Holders
    BY <1>20 DEF OfferReport, Holders, Working
  <2>2. taken[p].window.end \in Nat
    BY <2>1 DEF TakenWindow, Window
  <2>3. pc' \in [Procs -> Labels] /\ flushMu' \in Procs \cup {None}
    BY <1>20 DEF OfferReport, Goto, Finish, Labels, Flushing, Working, Final
  <2>4. taken' \in [Procs -> {None} \cup TakenWindow]
        /\ \A q \in Holders' : q \in Holders /\ taken'[q] = taken[q]
    BY <1>20 DEF OfferReport, Goto, Finish, Holders, Working
  <2> QED
    BY <1>20, <2>2, <2>3, <2>4 DEF OfferReport, inVars
<1>21. ASSUME NEW p \in Procs, WriteSink(p) PROVE TypeOK'
  <2>1. p \in Holders
    BY <1>21 DEF WriteSink, Holders, Working
  <2>2. Envelope(p, "primary") \in [window : Window, base : Nat]
    BY <2>1 DEF Envelope, TakenWindow, Views
  <2>3. emitted' \in [Views -> Seq([window : Window, base : Nat])]
    BY <1>21, <2>2, AppendType DEF WriteSink, Views
  <2>4. pc' \in [Procs -> Labels] /\ Holders' = Holders
    BY <1>21 DEF WriteSink, Goto, Labels, Flushing, Working, Holders
  <2> QED
    BY <1>21, <2>3, <2>4 DEF WriteSink, inVars
<1>22. ASSUME NEW p \in Procs, Commit(p) PROVE TypeOK'
  <2>1. p \in Holders
    BY <1>22 DEF Commit, Holders, Working
  <2>2. previous' \in [Views -> Nat]
    BY <1>22, <2>1 DEF Commit, Rebase, TakenWindow, Window, Views
  <2>3. pc' \in [Procs -> Labels] /\ flushMu' \in Procs \cup {None}
    BY <1>22 DEF Commit, Goto, Finish, Labels, Flushing, Final
  <2>4. taken' \in [Procs -> {None} \cup TakenWindow]
        /\ \A q \in Holders' : q \in Holders /\ taken'[q] = taken[q]
    BY <1>22 DEF Commit, Goto, Finish, Holders, Working
  <2> QED
    BY <1>22, <2>2, <2>3, <2>4 DEF Commit, inVars
<1>23. ASSUME NEW p \in Procs, FlushFails(p) PROVE TypeOK'
  <2>1. p \in Holders
    BY <1>23 DEF FlushFails, Holders, Working, InPlace
  <2>2. lost' \in SUBSET Span
    BY <1>23, <2>1 DEF FlushFails, TakenWindow, Window
  <2>5. torn' \in SUBSET (Views \X Nat)
    <3>1. ASSUME NEW v \in Views PROVE <<v, Len(emitted[v])>> \in Views \X Nat
      <4>1. emitted[v] \in Seq([window : Window, base : Nat])
        BY <3>1
      <4> QED
        BY <3>1, <4>1
    <3>2. pc[p] \in DOMAIN InPlace => InPlace[pc[p]] \in Views
      BY DEF InPlace, Views
    <3> QED
      BY <1>23, <3>1, <3>2 DEF FlushFails
  <2>3. pc' \in [Procs -> Labels]
    BY <1>23 DEF FlushFails, Goto, Labels, Final
  <2>4. taken' \in [Procs -> {None} \cup TakenWindow]
        /\ \A q \in Holders' : q \in Holders /\ taken'[q] = taken[q]
    BY <1>23 DEF FlushFails, Goto, Holders, Working
  <2> QED
    BY <1>23, <2>2, <2>3, <2>4, <2>5 DEF FlushFails, inVars
<1> QED
  BY <1>1, <1>2, <1>3, <1>4, <1>5, <1>6, <1>7, <1>8, <1>9, <1>10, <1>11, <1>12,
     <1>13, <1>14, <1>15, <1>16, <1>17, <1>18, <1>19, <1>20, <1>21, <1>22, <1>23, <1>24, <1>25,
     NextCases DEF Flush

\* The variables of the runtime always have their types.
THEOREM TypeCorrect == Spec => []TypeOK
<1> QED
  BY TypeInit, TypeStep, PTL DEF Spec
-----------------------------------------------------------------------------
(* A flush holds flushMu from the moment it looks at the open window until  *)
(* it has settled the one it took.  Everything below rests on it.           *)

Exclusive == \A p \in Procs : pc[p] \in Flushing <=> flushMu = p

\* At the start nobody flushes and flushMu is free.
LEMMA ExclusiveInit == Init => Exclusive
BY EngineAssumption DEF Init, Exclusive, Flushing, Working, Procs

\* flushMu is taken on the way into a flush and let go of on the way out.
LEMMA ExclusiveStep == TypeOK /\ Exclusive /\ [Next]_vars => Exclusive'
<1> SUFFICES ASSUME TypeOK, Exclusive, [Next]_vars PROVE Exclusive'
  OBVIOUS
<1> USE DEF Exclusive, Goto, Flushing, Working
<1>1. pc \in [Procs -> Labels]
  BY DEF TypeOK
<1>2. None \notin Procs /\ Ticker \in Procs /\ Closer \in Procs /\ Requests \subseteq Procs
  BY EngineAssumption DEF Procs
<1>3. CASE UNCHANGED vars
  BY <1>3 DEF vars
<1>4. CASE Advance \/ Stop
  BY <1>4 DEF Advance, Stop
<1>5. CASE WakeTicker \/ StopTicker \/ ReportError \/ StartClose \/ Abort
  BY <1>1, <1>2, <1>5 DEF WakeTicker, StopTicker, ReportError, StartClose, Abort
<1>6. ASSUME NEW r \in Requests, Receive(r) \/ BeginAdmit(r) \/ AdmitSpan(r) \/ EndAdmit(r)
      PROVE  Exclusive'
  BY <1>1, <1>2, <1>6 DEF Receive, BeginAdmit, AdmitSpan, EndAdmit
<1>7. ASSUME NEW p \in Procs, LockFlush(p) \/ CheckDue(p) PROVE Exclusive'
  BY <1>1, <1>2, <1>7 DEF LockFlush, CheckDue, FlushMuFree
<1>8. ASSUME NEW p \in Procs, SkipEmpty(p) \/ TakeWindow(p) \/ Discover(p) PROVE Exclusive'
  BY <1>1, <1>2, <1>8 DEF SkipEmpty, TakeWindow, Discover, Finish
<1>9. ASSUME NEW p \in Procs, Process(p) \/ WriteReport(p) \/ WriteView(p) \/ KeepView(p)
      PROVE  Exclusive'
  BY <1>1, <1>2, <1>9 DEF Process, WriteReport, WriteView, KeepView, After, Keep, InPlace
<1>10. ASSUME NEW p \in Procs, OfferReport(p) \/ WriteSink(p) \/ Commit(p) \/ FlushFails(p)
       PROVE  Exclusive'
  BY <1>1, <1>2, <1>10 DEF OfferReport, WriteSink, Commit, FlushFails, Finish, InPlace
<1> QED
  BY <1>3, <1>4, <1>5, <1>6, <1>7, <1>8, <1>9, <1>10, NextCases DEF Flush

-----------------------------------------------------------------------------
(* The order of publication.  The windows written so far ended before the   *)
(* window being flushed began, and that one before the open window began;   *)
(* the base of a view is the newest envelope of it that is not torn, and the  *)
(* bases a flush captured are still those.                                   *)

\* Where a flush has yet to write a view.
Unwritten ==
  [raw |-> {"discover", "process", "report", "summary", "raw"},
   stable |-> {"discover", "process", "report", "summary", "raw", "keepRaw", "stable"},
   primary |-> {"discover", "process", "report", "summary", "raw", "keepRaw",
                "stable", "keepStable", "guard", "sink"}]

\* ... and where it has written it but does not know that all is well.
Held(v) == {p \in Holders : pc[p] \in DOMAIN InPlace /\ InPlace[pc[p]] = v}

Ordered ==
  /\ current.start < current.end
  /\ \A p \in Holders : /\ taken[p].window.start < taken[p].window.end
                        /\ taken[p].window.end <= current.start
  /\ \A v \in Views : \A i \in DOMAIN emitted[v] :
       /\ emitted[v][i].window.end <= current.start
       /\ \A p \in Holders : pc[p] \in Unwritten[v] =>
            emitted[v][i].window.end <= taken[p].window.start

LastEnd(v) ==
  IF emitted[v] = << >> THEN NoWindow ELSE emitted[v][Len(emitted[v])].window.end

\* With one envelope in place and its write under way, the base is as before.
Bases ==
  /\ \A p \in Holders : \A v \in Views :
       pc[p] \in Unwritten[v] => IsBase(taken[p].base[v], emitted[v], Whole(v, Len(emitted[v])))
  /\ \A v \in Views :
       IF Held(v) = {} THEN IsBase(previous[v], emitted[v], Whole(v, Len(emitted[v])))
       ELSE /\ emitted[v] # << >>
            /\ IsBase(previous[v], emitted[v], Whole(v, Len(emitted[v]) - 1))
            /\ <<v, Len(emitted[v])>> \notin torn
            /\ \A p \in Held(v) : taken[p].window.end = LastEnd(v)
  /\ \A v \in Views : \A i \in Nat : <<v, i>> \in torn => i <= Len(emitted[v])

FlushInv == Ordered /\ InOrder /\ Bases /\ DiffBase

\* The same envelopes give the same base.
LEMMA SameBase ==
  ASSUME NEW b, NEW s, NEW t, NEW W, \A i \in W : t[i] = s[i], IsBase(b, s, W)
  PROVE  IsBase(b, t, W)
BY DEF IsBase

\* The last envelope, if it is whole, is the base.
LEMMA NewestBase ==
  ASSUME NEW s, NEW n \in Nat, NEW W \in SUBSET (1 .. n), n \in W
  PROVE  IsBase(s[n].window.end, s, W)
BY DEF IsBase

\* At the start nothing is written and there is no base.
LEMMA FlushInvInit == Init => FlushInv
<1> SUFFICES ASSUME Init PROVE FlushInv
  OBVIOUS
<1>1. Holders = {}
  BY DEF Init, Holders, Working
<1>2. \A v \in Views : emitted[v] = << >> /\ previous[v] = NoWindow
  BY DEF Init
<1>3. current.start < current.end
  <2>1. now \in 0 .. WindowSize - 1 /\ now \in Nat
    BY EngineAssumption DEF Init
  <2>2. now - (now % WindowSize) \in Nat
    BY <2>1, ModSmall, EngineAssumption
  <2> QED
    BY <2>2, NewWindowType DEF Init, AlignWindow
<1>4. Bases
  <2>1. \A v \in Views : Len(emitted[v]) = 0
    BY <1>2
  <2>2. \A v \in Views : Held(v) = {} /\ Whole(v, Len(emitted[v])) = {}
    BY <1>1, <2>1 DEF Held, Whole
  <2>3. torn = {}
    BY DEF Init
  <2> QED
    BY <1>1, <1>2, <2>2, <2>3 DEF Bases, IsBase
<1> QED
  BY <1>1, <1>2, <1>3, <1>4 DEF FlushInv, Ordered, InOrder, DiffBase

\* There is one flush at a time.
LEMMA OneFlush ==
  ASSUME Exclusive, NEW p \in Procs, pc[p] \in Flushing
  PROVE  \A q \in Procs : pc[q] \in Flushing => q = p
BY DEF Exclusive

\* Steps that move no window, write no envelope and settle none.
LEMMA FlushFrame ==
  ASSUME FlushInv, UNCHANGED <<current.start, current.end, emitted, previous, torn>>,
         \A p \in Holders' :
           /\ p \in Holders
           /\ taken'[p].window = taken[p].window
           /\ taken'[p].base = taken[p].base
           /\ pc'[p] \in DOMAIN InPlace => pc'[p] = pc[p]
           /\ \A v \in Views : pc'[p] \in Unwritten[v] => pc[p] \in Unwritten[v],
         \A p \in Holders : pc[p] \in DOMAIN InPlace => p \in Holders' /\ pc'[p] = pc[p]
  PROVE  FlushInv'
<1> USE DEF FlushInv
<1>1. Ordered'
  BY DEF Ordered
<1>2. \A v \in Views : \A n \in Int : Whole(v, n)' = Whole(v, n)
  BY DEF Whole
<1>3. InOrder' /\ DiffBase'
  BY DEF InOrder, DiffBase, Whole
<1>4. \A v \in Views : LastEnd(v)' = LastEnd(v) /\ Held(v)' = Held(v)
  BY DEF LastEnd, Held
<1>5. Bases'
  <2>1. \A p \in Holders' : \A v \in Views :
          pc'[p] \in Unwritten[v] =>
            IsBase(taken'[p].base[v], emitted'[v], Whole(v, Len(emitted[v]))')
    BY DEF Bases, Whole
  <2>2. \A v \in Views :
          IF Held(v)' = {} THEN IsBase(previous'[v], emitted'[v], Whole(v, Len(emitted[v]))')
          ELSE /\ emitted'[v] # << >>
               /\ IsBase(previous'[v], emitted'[v], Whole(v, Len(emitted[v]) - 1)')
               /\ <<v, Len(emitted'[v])>> \notin torn'
               /\ \A p \in Held(v)' : taken'[p].window.end = LastEnd(v)'
    <3> TAKE v \in Views
    <3>1. \A p \in Held(v)' : taken'[p].window = taken[p].window
      BY DEF Held
    <3>2. CASE Held(v) = {}
      BY <1>4, <3>2 DEF Bases, Whole
    <3>3. CASE Held(v) # {}
      <4>1. /\ emitted[v] # << >>
            /\ IsBase(previous[v], emitted[v], Whole(v, Len(emitted[v]) - 1))
            /\ <<v, Len(emitted[v])>> \notin torn
            /\ \A p \in Held(v) : taken[p].window.end = LastEnd(v)
        BY <3>3 DEF Bases
      <4> QED
        BY <1>4, <3>1, <3>3, <4>1 DEF Whole
    <3> QED
      BY <3>2, <3>3
  <2>3. \A v \in Views : \A i \in Nat : <<v, i>> \in torn' => i <= Len(emitted'[v])
    BY DEF Bases
  <2> QED
    BY <2>1, <2>2, <2>3 DEF Bases
<1> QED
  BY <1>1, <1>3, <1>5

\* An element of a sequence over S is in S.
LEMMA ElementType ==
  ASSUME NEW S, NEW s \in Seq(S), NEW i \in DOMAIN s
  PROVE  s[i] \in S
OBVIOUS

\* Ends of emitted windows are numbers.
LEMMA EmittedEnds ==
  ASSUME TypeOK
  PROVE  \A v \in Views : \A i \in DOMAIN emitted[v] :
           emitted[v][i].window \in Window /\ emitted[v][i].window.end \in Nat
<1> TAKE v \in Views
<1>1. emitted[v] \in Seq([window : Window, base : Nat])
  BY DEF TypeOK
<1> TAKE i \in DOMAIN emitted[v]
<1>2. emitted[v][i] \in [window : Window, base : Nat]
  BY <1>1, ElementType
<1> QED
  BY <1>2 DEF Window

\* With no flush under way the open window may move on.
LEMMA WindowsAdvance ==
  ASSUME TypeOK, FlushInv, Holders = {}, Holders' = {},
         UNCHANGED <<emitted, previous, torn>>, current'.start \in Nat,
         current.start <= current'.start, current'.start < current'.end
  PROVE  FlushInv'
<1>1. \A v \in Views : \A i \in DOMAIN emitted[v] :
        emitted[v][i].window.end \in Nat /\ emitted[v][i].window.end <= current.start
  BY EmittedEnds DEF FlushInv, Ordered
<1>2. current.start \in Nat
  BY DEF TypeOK, Window
<1>3. Ordered'
  BY <1>1, <1>2 DEF Ordered
<1>4. \A v \in Views : Held(v) = {} /\ Held(v)' = {}
  BY DEF Held
<1>5. Bases'
  BY <1>4 DEF FlushInv, Bases, Whole
<1> QED
  BY <1>3, <1>5 DEF FlushInv, InOrder, DiffBase, Whole

\* The length, the domain and the elements of a sequence with one more element.
LEMMA AppendFacts ==
  ASSUME NEW S, NEW s \in Seq(S), NEW e \in S
  PROVE  /\ Len(s) \in Nat /\ DOMAIN s = 1 .. Len(s)
         /\ Len(Append(s, e)) = Len(s) + 1
         /\ DOMAIN Append(s, e) = 1 .. Len(s) + 1
         /\ Append(s, e) # << >>
         /\ Append(s, e)[Len(s) + 1] = e
         /\ \A i \in 1 .. Len(s) : Append(s, e)[i] = s[i]
         /\ s = << >> <=> Len(s) = 0
OBVIOUS

\* A flush writes one envelope of one view.
LEMMA Emit ==
  ASSUME TypeOK, FlushInv, NEW v \in Views, NEW p \in Holders,
         pc[p] \in Unwritten[v],
         emitted' = [emitted EXCEPT ![v] = Append(@, Envelope(p, v))],
         UNCHANGED torn
  PROVE  /\ InOrder' /\ DiffBase'
         /\ LastEnd(v)' = taken[p].window.end
         /\ emitted'[v] # << >> /\ Len(emitted'[v]) = Len(emitted[v]) + 1
         /\ Len(emitted[v]) \in Nat
         /\ \A i \in 1 .. Len(emitted[v]) : emitted'[v][i] = emitted[v][i]
         /\ <<v, Len(emitted'[v])>> \notin torn
         /\ \A u \in Views : u # v => emitted'[u] = emitted[u] /\ LastEnd(u)' = LastEnd(u)
         /\ \A i \in DOMAIN emitted'[v] : emitted'[v][i].window.end <= current.start
<1> DEFINE e == Envelope(p, v)
           n == Len(emitted[v])
<1>1. /\ emitted[v] \in Seq([window : Window, base : Nat])
      /\ e \in [window : Window, base : Nat]
      /\ taken[p].window \in Window
  BY DEF TypeOK, Envelope, TakenWindow
<1>14. emitted'[v] = Append(emitted[v], e)
  BY DEF TypeOK
<1>2. /\ n \in Nat /\ DOMAIN emitted[v] = 1 .. n
      /\ DOMAIN emitted'[v] = 1 .. n + 1
      /\ emitted'[v] = Append(emitted[v], e)
      /\ emitted'[v] # << >> /\ Len(emitted'[v]) = n + 1
      /\ emitted'[v][n + 1] = e
      /\ \A i \in 1 .. n : emitted'[v][i] = emitted[v][i]
      /\ emitted[v] = << >> <=> n = 0
  BY <1>1, <1>14, AppendFacts
<1>3. \A u \in Views : u # v => emitted'[u] = emitted[u]
  BY DEF TypeOK
<1>4. e.window = taken[p].window /\ e.base = taken[p].base[v]
  BY DEF Envelope
<1> HIDE DEF e, n
<1>5. LastEnd(v)' = taken[p].window.end
  BY <1>2, <1>4 DEF LastEnd
<1>6. \A u \in Views : u # v => LastEnd(u)' = LastEnd(u)
  BY <1>3 DEF LastEnd
<1>7. \A i \in 1 .. n : emitted[v][i].window.end <= taken[p].window.start
  BY <1>2 DEF FlushInv, Ordered
<1>8. \A i \in 1 .. n : emitted[v][i].window.end <= current.start
  BY <1>2 DEF FlushInv, Ordered
<1>9. taken[p].window.end <= current.start
  BY DEF FlushInv, Ordered
<1>10. InOrder'
  <2> SUFFICES ASSUME NEW u \in Views, NEW i \in DOMAIN emitted'[u],
                      NEW j \in DOMAIN emitted'[u], i < j
               PROVE  emitted'[u][i].window.end <= emitted'[u][j].window.start
    BY DEF InOrder
  <2>1. CASE u # v
    BY <1>3, <2>1 DEF FlushInv, InOrder
  <2>2. CASE u = v /\ j = n + 1
    <3>1. i \in 1 .. n
      BY <1>2, <2>2
    <3> QED
      BY <1>2, <1>4, <1>7, <2>2, <3>1
  <2>3. CASE u = v /\ j # n + 1
    <3>1. i \in 1 .. n /\ j \in 1 .. n
      BY <1>2, <2>3
    <3> QED
      BY <1>2, <2>3, <3>1 DEF FlushInv, InOrder
  <2> QED
    BY <2>1, <2>2, <2>3
<1>11. DiffBase'
  <2> SUFFICES ASSUME NEW u \in Views, NEW i \in DOMAIN emitted'[u]
               PROVE  IsBase(emitted'[u][i].base, emitted'[u], Whole(u, i - 1))
    BY DEF DiffBase, Whole
  <2>1. CASE u # v
    BY <1>3, <2>1 DEF FlushInv, DiffBase
  <2>2. CASE u = v /\ i = n + 1
    <3>1. IsBase(e.base, emitted[v], Whole(v, n))
      BY <1>4 DEF FlushInv, Bases, n
    <3>2. \A j \in Whole(v, n) : emitted'[v][j] = emitted[v][j]
      BY <1>2 DEF Whole
    <3>3. IsBase(e.base, emitted'[v], Whole(v, n))
      BY <3>1, <3>2, SameBase
    <3>4. i - 1 = n
      BY <1>2, <2>2
    <3> QED
      BY <1>2, <2>2, <3>3, <3>4
  <2>3. CASE u = v /\ i # n + 1
    <3>1. i \in 1 .. n /\ i - 1 \in Nat /\ 1 .. i - 1 \subseteq 1 .. n
      BY <1>2, <2>3
    <3>2. IsBase(emitted[v][i].base, emitted[v], Whole(v, i - 1))
      BY <1>2, <3>1 DEF FlushInv, DiffBase
    <3>3. \A j \in Whole(v, i - 1) : emitted'[v][j] = emitted[v][j]
      BY <1>2, <3>1 DEF Whole
    <3>4. IsBase(emitted[v][i].base, emitted'[v], Whole(v, i - 1))
      BY <3>2, <3>3, SameBase
    <3> QED
      BY <1>2, <2>3, <3>1, <3>4
  <2> QED
    BY <2>1, <2>2, <2>3
<1>12. \A i \in DOMAIN emitted'[v] : emitted'[v][i].window.end <= current.start
  <2> SUFFICES ASSUME NEW i \in 1 .. n + 1
               PROVE  emitted'[v][i].window.end <= current.start
    BY <1>2
  <2>1. CASE i = n + 1
    BY <1>2, <1>4, <1>9, <2>1
  <2>2. CASE i # n + 1
    <3>1. i \in 1 .. n
      BY <1>2, <2>2
    <3> QED
      BY <1>2, <1>8, <3>1
  <2> QED
    BY <2>1, <2>2
<1>13. <<v, n + 1>> \notin torn
  <2>1. n + 1 \in Nat /\ ~(n + 1 <= n)
    BY <1>2
  <2> QED
    BY <2>1 DEF FlushInv, Bases, n
<1> QED
  BY <1>2, <1>3, <1>5, <1>6, <1>10, <1>11, <1>12, <1>13 DEF n

\* An envelope is put in place: the base of its view is still the old one.
LEMMA EmitKeeps ==
  ASSUME TypeOK, FlushInv, NEW v \in Views, NEW p \in Procs,
         Holders = {p}, Holders' = {p}, pc[p] \in Unwritten[v], pc[p] \notin DOMAIN InPlace,
         pc'[p] \in DOMAIN InPlace, InPlace[pc'[p]] = v, pc'[p] \notin Unwritten[v],
         \A u \in Views : pc'[p] \in Unwritten[u] => pc[p] \in Unwritten[u],
         emitted' = [emitted EXCEPT ![v] = Append(@, Envelope(p, v))],
         UNCHANGED <<current, taken, previous, torn>>
  PROVE  FlushInv'
<1> DEFINE n == Len(emitted[v])
<1>1. /\ InOrder' /\ DiffBase'
      /\ LastEnd(v)' = taken[p].window.end
      /\ emitted'[v] # << >> /\ Len(emitted'[v]) = n + 1 /\ n \in Nat
      /\ \A i \in 1 .. n : emitted'[v][i] = emitted[v][i]
      /\ <<v, Len(emitted'[v])>> \notin torn
      /\ \A u \in Views : u # v => emitted'[u] = emitted[u] /\ LastEnd(u)' = LastEnd(u)
      /\ \A i \in DOMAIN emitted'[v] : emitted'[v][i].window.end <= current.start
  BY Emit
<1>2. Ordered'
  <2>1. \A u \in Views : \A i \in DOMAIN emitted'[u] :
           /\ emitted'[u][i].window.end <= current.start
           /\ pc'[p] \in Unwritten[u] => emitted'[u][i].window.end <= taken[p].window.start
    BY <1>1 DEF FlushInv, Ordered
  <2> QED
    BY <2>1 DEF FlushInv, Ordered
<1>3. /\ \A u \in Views : Held(u) = {}
      /\ Held(v)' = {p} /\ \A u \in Views : u # v => Held(u)' = {}
  BY DEF Held
<1>4. IsBase(previous[v], emitted'[v], Whole(v, n))
  <2>1. IsBase(previous[v], emitted[v], Whole(v, n))
    BY <1>3 DEF FlushInv, Bases
  <2>2. \A i \in Whole(v, n) : emitted'[v][i] = emitted[v][i]
    BY <1>1 DEF Whole
  <2> HIDE DEF n
  <2> QED
    BY <2>1, <2>2 DEF IsBase
<1>5. Len(emitted'[v]) - 1 = n
  BY <1>1
<1> HIDE DEF n
<1>6. ASSUME NEW u \in Views, u # v
      PROVE  /\ emitted'[u] = emitted[u]
             /\ IsBase(previous[u], emitted[u], Whole(u, Len(emitted[u])))
             /\ pc'[p] \in Unwritten[u] =>
                  IsBase(taken[p].base[u], emitted[u], Whole(u, Len(emitted[u])))
  BY <1>1, <1>3, <1>6 DEF FlushInv, Bases
<1>7. \A u \in Views : \A i \in Nat : <<u, i>> \in torn => i <= Len(emitted'[u])
  <2>1. \A i \in Nat : i <= n => i <= n + 1
    BY <1>1
  <2>2. \A u \in Views : \A i \in Nat : <<u, i>> \in torn => i <= Len(emitted[u])
    BY DEF FlushInv, Bases
  <2> QED
    BY <1>1, <2>1, <2>2 DEF n
<1>8. Bases'
  <2>1. \A u \in Views : u # v => (IsBase(previous[u], emitted[u], Whole(u, Len(emitted[u]))))'
    BY <1>6 DEF Whole
  <2>2. \A u \in Views : pc'[p] \in Unwritten[u] =>
            (IsBase(taken[p].base[u], emitted[u], Whole(u, Len(emitted[u]))))'
    BY <1>6 DEF Whole
  <2>3. (IsBase(previous[v], emitted[v], Whole(v, Len(emitted[v]) - 1)))'
    BY <1>4, <1>5 DEF Whole
  <2>4. \A u \in Views : u # v => (Held(u) = {})'
    BY <1>3
  <2>5. (\A q \in Holders : \A u \in Views : pc[q] \in Unwritten[u] =>
            IsBase(taken[q].base[u], emitted[u], Whole(u, Len(emitted[u]))))'
    BY <2>2
  <2>6. \A u \in Views : u # v =>
            (IF Held(u) = {} THEN IsBase(previous[u], emitted[u], Whole(u, Len(emitted[u])))
             ELSE /\ emitted[u] # << >>
                  /\ IsBase(previous[u], emitted[u], Whole(u, Len(emitted[u]) - 1))
                  /\ <<u, Len(emitted[u])>> \notin torn
                  /\ \A q \in Held(u) : taken[q].window.end = LastEnd(u))'
    BY <2>1, <2>4
  <2>7. (/\ emitted[v] # << >>
         /\ IsBase(previous[v], emitted[v], Whole(v, Len(emitted[v]) - 1))
         /\ <<v, Len(emitted[v])>> \notin torn
         /\ \A q \in Held(v) : taken[q].window.end = LastEnd(v))'
    BY <1>1, <1>3, <2>3
  <2>8. (Held(v) # {})'
    BY <1>3
  <2>9. (\A u \in Views : \A i \in Nat : <<u, i>> \in torn => i <= Len(emitted[u]))'
    BY <1>7
  <2> QED
    BY <2>5, <2>6, <2>7, <2>8, <2>9 DEF Bases
<1> QED
  BY <1>1, <1>2, <1>8 DEF FlushInv

\* The write of an envelope in place succeeds: it is the base from now on.
LEMMA KeepRebases ==
  ASSUME TypeOK, FlushInv, NEW v \in Views, NEW p \in Procs,
         Holders = {p}, Holders' \subseteq {p}, pc[p] \in DOMAIN InPlace, InPlace[pc[p]] = v,
         UNCHANGED <<current, emitted, torn>>,
         previous' = [previous EXCEPT ![v] = taken[p].window.end],
         p \in Holders' =>
           /\ taken'[p] = taken[p] /\ pc'[p] \notin DOMAIN InPlace
           /\ \A u \in Views : pc'[p] \in Unwritten[u] => pc[p] \in Unwritten[u]
  PROVE  FlushInv'
<1> DEFINE n == Len(emitted[v])
<1>00. emitted[v] \in Seq([window : Window, base : Nat]) /\ previous \in [Views -> Nat]
  BY DEF TypeOK
<1>0. previous \in [Views -> Nat] /\ n \in Nat /\ (n = 0 => emitted[v] = << >>)
  BY <1>00
<1>1. Held(v) = {p} /\ \A u \in Views : (u # v => Held(u) = {}) /\ Held(u)' = {}
  BY DEF Held
<1>2. /\ emitted[v] # << >> /\ <<v, n>> \notin torn
      /\ taken[p].window.end = emitted[v][n].window.end
  BY <1>1 DEF FlushInv, Bases, LastEnd
<1>3. n # 0
  BY <1>0, <1>2
<1>4. n \in Whole(v, n) /\ Whole(v, n) \in SUBSET (1 .. n)
  <2>1. n \in 1 .. n /\ <<v, n>> \notin torn
    BY <1>0, <1>2, <1>3
  <2> HIDE DEF n
  <2> QED
    BY <2>1 DEF Whole
<1>5. IsBase(emitted[v][n].window.end, emitted[v], Whole(v, n))
  BY <1>0, <1>4, NewestBase
<1>6. \A u \in Views : (IsBase(previous[u], emitted[u], Whole(u, Len(emitted[u]))))'
  BY <1>0, <1>1, <1>2, <1>5 DEF FlushInv, Bases, Whole
<1>7. Ordered' /\ InOrder' /\ DiffBase'
  BY DEF FlushInv, Ordered, InOrder, DiffBase, Whole
<1>8. Bases'
  <2>1. \A q \in Holders' : \A u \in Views : pc'[q] \in Unwritten[u] =>
            (IsBase(taken[q].base[u], emitted[u], Whole(u, Len(emitted[u]))))'
    BY DEF FlushInv, Bases, Whole
  <2>2. \A u \in Views : \A i \in Nat : <<u, i>> \in torn' => i <= Len(emitted'[u])
    BY DEF FlushInv, Bases
  <2> QED
    BY <1>1, <1>6, <2>1, <2>2 DEF Bases
<1> QED
  BY <1>7, <1>8 DEF FlushInv

\* The write of an envelope in place fails: the base stays where it was.
LEMMA TearLeaves ==
  ASSUME TypeOK, FlushInv, NEW v \in Views, NEW p \in Procs,
         Holders = {p}, Holders' = {}, pc[p] \in DOMAIN InPlace, InPlace[pc[p]] = v,
         UNCHANGED <<current, emitted, previous>>,
         torn' = torn \cup {<<v, Len(emitted[v])>>}
  PROVE  FlushInv'
<1> DEFINE n == Len(emitted[v])
<1>00. emitted[v] \in Seq([window : Window, base : Nat])
  BY DEF TypeOK
<1>0. n \in Nat /\ DOMAIN emitted[v] = 1 .. n /\ (n = 0 => emitted[v] = << >>)
  BY <1>00
<1>1. Held(v) = {p} /\ \A u \in Views : (u # v => Held(u) = {}) /\ Held(u)' = {}
  BY DEF Held
<1>2. emitted[v] # << >> /\ IsBase(previous[v], emitted[v], Whole(v, n - 1))
  BY <1>1 DEF FlushInv, Bases
<1>3. n # 0
  BY <1>0, <1>2
<1>4. /\ \A u \in Views : u # v => \A i \in Int : Whole(u, i)' = Whole(u, i)
      /\ \A i \in Int : i < n => Whole(v, i)' = Whole(v, i)
  BY <1>0 DEF Whole
<1>5. Whole(v, n)' = Whole(v, n - 1)
  <2>1. \A i \in 1 .. n : i \in 1 .. n - 1 \/ i = n
    BY <1>0
  <2>2. \A i \in 1 .. n - 1 : i \in 1 .. n /\ i # n
    BY <1>0
  <2> QED
    BY <2>1, <2>2 DEF Whole
<1>6. Ordered' /\ InOrder'
  BY DEF FlushInv, Ordered, InOrder
<1>7. DiffBase'
  <2> SUFFICES ASSUME NEW u \in Views, NEW i \in DOMAIN emitted[u]
               PROVE  IsBase(emitted[u][i].base, emitted[u], Whole(u, i - 1)')
    BY DEF DiffBase, Whole
  <2>1. IsBase(emitted[u][i].base, emitted[u], Whole(u, i - 1))
    BY DEF FlushInv, DiffBase
  <2>2. i \in Int
    <3>1. emitted[u] \in Seq([window : Window, base : Nat])
      BY DEF TypeOK
    <3> QED
      BY <3>1
  <2>3. Whole(u, i - 1)' = Whole(u, i - 1)
    <3>1. i - 1 \in Int /\ (u = v => i - 1 < n)
      BY <1>0, <2>2
    <3> QED
      BY <1>4, <3>1
  <2> QED
    BY <2>1, <2>3
<1>8. Bases'
  <2>1. ASSUME NEW u \in Views
        PROVE  (IsBase(previous[u], emitted[u], Whole(u, Len(emitted[u]))))'
    <3>1. CASE u = v
      BY <1>2, <1>5, <3>1 DEF Whole
    <3>2. CASE u # v
      <4>1. IsBase(previous[u], emitted[u], Whole(u, Len(emitted[u])))
        BY <1>1, <3>2 DEF FlushInv, Bases
      <4>2. Len(emitted[u]) \in Int
        BY DEF TypeOK
      <4> QED
        BY <1>4, <3>2, <4>1, <4>2 DEF Whole
    <3> QED
      BY <3>1, <3>2
  <2>2. \A u \in Views : \A i \in Nat : <<u, i>> \in torn' => i <= Len(emitted'[u])
    BY <1>0 DEF FlushInv, Bases
  <2> QED
    BY <1>1, <2>1, <2>2 DEF Bases
<1> QED
  BY <1>6, <1>7, <1>8 DEF FlushInv

\* Every step keeps the order of the windows and the bases.
LEMMA FlushInvStep ==
  TypeOK /\ Exclusive /\ FlushInv /\ [Next]_vars => FlushInv'
<1> SUFFICES ASSUME TypeOK, Exclusive, FlushInv, [Next]_vars PROVE FlushInv'
  OBVIOUS
<1>0. /\ pc \in [Procs -> Labels] /\ taken \in [Procs -> {None} \cup TakenWindow]
      /\ previous \in [Views -> Nat]
      /\ Ticker \in Procs /\ Closer \in Procs /\ Requests \subseteq Procs
      /\ \A p \in Holders : taken[p] \in TakenWindow
      /\ current \in Window
  BY DEF TypeOK, Procs
<1>1. CASE UNCHANGED vars
  BY <1>1, FlushFrame DEF vars, Holders
<1>2. CASE Advance \/ Stop
  <2>1. UNCHANGED <<current, emitted, previous, torn, taken, pc>>
    BY <1>2 DEF Advance, Stop, outVars
  <2> QED
    BY <2>1, FlushFrame DEF Holders
<1>3. CASE WakeTicker \/ StopTicker \/ ReportError \/ StartClose \/ Abort
  <2>1. UNCHANGED <<current, emitted, previous, torn, taken>>
    BY <1>3 DEF WakeTicker, StopTicker, ReportError, StartClose, Abort, outVars
  <2>2. \A p \in Procs : pc'[p] # pc[p] => pc[p] \notin Working /\ pc'[p] \notin Working
    BY <1>0, <1>3 DEF WakeTicker, StopTicker, ReportError, StartClose, Abort, Goto, Working
  <2> QED
    BY <2>1, <2>2, FlushFrame DEF Holders, Working, InPlace
<1>4. ASSUME NEW r \in Requests, Receive(r) \/ BeginAdmit(r) \/ AdmitSpan(r) \/ EndAdmit(r)
      PROVE  FlushInv'
  <2>1. UNCHANGED <<current.start, current.end>>
    BY <1>0, <1>4 DEF Receive, BeginAdmit, AdmitSpan, EndAdmit, Window
  <2>2. UNCHANGED <<emitted, previous, torn, taken>>
    BY <1>4 DEF Receive, BeginAdmit, AdmitSpan, EndAdmit, outVars
  <2>3. \A p \in Procs : pc'[p] # pc[p] => pc[p] \notin Working /\ pc'[p] \notin Working
    BY <1>0, <1>4 DEF Receive, BeginAdmit, AdmitSpan, EndAdmit, Goto, Working
  <2> QED
    BY <2>1, <2>2, <2>3, FlushFrame DEF Holders, Working, InPlace
<1>5. ASSUME NEW p \in Procs, LockFlush(p) \/ CheckDue(p) PROVE FlushInv'
  <2>1. UNCHANGED <<current, emitted, previous, torn, taken>>
    BY <1>5 DEF LockFlush, CheckDue, outVars
  <2>2. \A q \in Procs : pc'[q] # pc[q] => pc[q] \notin Working /\ pc'[q] \notin Working
    BY <1>0, <1>5 DEF LockFlush, CheckDue, Goto, Working
  <2> QED
    BY <2>1, <2>2, FlushFrame DEF Holders, Working, InPlace
<1>6. ASSUME NEW p \in Procs, SkipEmpty(p) PROVE FlushInv'
  <2>1. Holders = {}
    BY <1>6, OneFlush DEF SkipEmpty, Holders, Flushing, Working
  <2>2. Holders' = {}
    BY <1>0, <1>6, <2>1 DEF SkipEmpty, Finish, Goto, Holders, Working
  <2>3. UNCHANGED <<emitted, previous, torn>>
    BY <1>6 DEF SkipEmpty, outVars
  <2>4. current.start <= current'.start /\ current'.start < current'.end
        /\ current'.start \in Nat
    <3>1. current' = current \/ current' = NewWindow(current.end)
      BY <1>6 DEF SkipEmpty
    <3>2. current.start < current.end /\ current.start \in Nat /\ current.end \in Nat
      BY <1>0 DEF FlushInv, Ordered, Window
    <3>3. NewWindow(current.end).start = current.end
          /\ NewWindow(current.end).end > current.end
      BY <3>2, NewWindowType
    <3>4. NewWindow(current.end).end \in Nat
      BY <3>2, NewWindowType DEF Window
    <3> QED
      BY <3>1, <3>2, <3>3, <3>4
  <2> QED
    BY <1>0, <2>1, <2>2, <2>3, <2>4, WindowsAdvance
<1>7. ASSUME NEW p \in Procs, TakeWindow(p) PROVE FlushInv'
  <2>1. Holders = {}
    BY <1>7, OneFlush DEF TakeWindow, Holders, Flushing, Working
  <2>2. Holders' = {p} /\ pc'[p] = "discover"
    BY <1>0, <1>7, <2>1 DEF TakeWindow, Goto, Holders, Working
  <2>3. UNCHANGED <<emitted, previous, torn>>
    BY <1>7 DEF TakeWindow, inVars, outVars
  <2>4. taken'[p].window = current /\ taken'[p].base = previous
    BY <1>0, <1>7 DEF TakeWindow
  <2>5. /\ current.start \in Nat /\ current.end \in Nat
        /\ current.start < current.end
        /\ current'.start = current.end /\ current'.end > current'.start
        /\ current'.start \in Nat /\ current'.end \in Nat
    BY <1>0, <1>7, NewWindowType DEF TakeWindow, Window, FlushInv, Ordered
  <2>6. \A v \in Views : \A i \in DOMAIN emitted[v] :
           emitted[v][i].window.end \in Nat /\ emitted[v][i].window.end <= current.start
    BY EmittedEnds DEF FlushInv, Ordered
  <2>7. Ordered'
    BY <2>2, <2>3, <2>4, <2>5, <2>6 DEF Ordered
  <2>8. \A v \in Views : Held(v) = {} /\ Held(v)' = {}
    BY <2>1, <2>2 DEF Held, InPlace
  <2>9. Bases'
    BY <2>2, <2>3, <2>4, <2>8 DEF FlushInv, Bases, Whole
  <2> QED
    BY <2>3, <2>7, <2>9 DEF FlushInv, InOrder, DiffBase, Whole
<1>8. ASSUME NEW p \in Procs, Discover(p) \/ Process(p) \/ WriteReport(p) PROVE FlushInv'
  <2>1. UNCHANGED <<current, emitted, previous, torn>>
    BY <1>8 DEF Discover, Process, WriteReport, outVars
  <2>2. \A q \in Procs : q # p => pc'[q] = pc[q] /\ taken'[q] = taken[q]
    BY <1>0, <1>8 DEF Discover, Process, WriteReport, Goto
  <2>3. p \in Holders
    BY <1>8 DEF Discover, Process, WriteReport, Holders, Working
  <2>4. taken'[p].window = taken[p].window /\ taken'[p].base = taken[p].base
    BY <1>0, <1>8, <2>3 DEF Discover, Process, WriteReport, TakenWindow
  <2>5. /\ pc[p] \notin DOMAIN InPlace /\ pc'[p] \notin DOMAIN InPlace
        /\ \A v \in Views : pc'[p] \in Unwritten[v] => pc[p] \in Unwritten[v]
    BY <1>0, <1>8 DEF Discover, Process, WriteReport, After, Goto, Unwritten, Views, InPlace
  <2> QED
    BY <2>1, <2>2, <2>3, <2>4, <2>5, FlushFrame DEF Holders
<1>9. ASSUME NEW p \in Procs, OfferReport(p) \/ (FlushFails(p) /\ pc[p] \notin DOMAIN InPlace)
      PROVE  FlushInv'
  <2>1. UNCHANGED <<current, emitted, previous, torn>>
    BY <1>9 DEF OfferReport, FlushFails
  <2>2. \A q \in Procs : q # p => pc'[q] = pc[q] /\ taken'[q] = taken[q]
    BY <1>0, <1>9 DEF OfferReport, FlushFails, Finish, Goto
  <2>3. /\ p \in Holders /\ pc[p] \notin DOMAIN InPlace /\ pc'[p] \notin DOMAIN InPlace
        /\ pc'[p] \in Working => pc'[p] = "sink" /\ pc[p] = "guard" /\ taken'[p] = taken[p]
    BY <1>0, <1>9 DEF OfferReport, FlushFails, Finish, Goto, Holders, Working, InPlace
  <2> QED
    BY <2>1, <2>2, <2>3, FlushFrame DEF Holders, Unwritten, Views
<1>13. ASSUME NEW p \in Procs, FlushFails(p), pc[p] \in DOMAIN InPlace PROVE FlushInv'
  <2>1. p \in Holders /\ InPlace[pc[p]] \in Views
    BY <1>13 DEF Holders, Working, InPlace, Views
  <2>2. Holders = {p}
    BY <2>1, OneFlush DEF Holders, Flushing
  <2>3. Holders' = {} /\ UNCHANGED <<current, emitted, previous>>
    BY <1>0, <1>13, <2>2 DEF FlushFails, Goto, Holders, Working
  <2>4. torn' = torn \cup {<<InPlace[pc[p]], Len(emitted[InPlace[pc[p]]])>>}
    BY <1>13 DEF FlushFails
  <2> QED
    BY <1>13, <2>1, <2>2, <2>3, <2>4, TearLeaves
<1>10. ASSUME NEW p \in Procs, WriteView(p) PROVE FlushInv'
  <2>1. /\ p \in Holders /\ pc[p] \in {"raw", "stable"} /\ pc[p] \in Views
        /\ pc[p] \in Unwritten[pc[p]] /\ pc[p] \notin DOMAIN InPlace
    BY <1>10 DEF WriteView, Holders, Working, Views, Unwritten, InPlace
  <2>2. /\ \A q \in Procs : q # p => pc'[q] = pc[q]
        /\ UNCHANGED <<current, taken, previous, torn>>
    BY <1>0, <1>10 DEF WriteView, Goto
  <2>3. CASE UNCHANGED emitted /\ pc'[p] = After[pc[p]]
    <3>1. /\ pc'[p] \in Working /\ pc'[p] \notin DOMAIN InPlace
          /\ \A v \in Views : pc'[p] \in Unwritten[v] => pc[p] \in Unwritten[v]
      BY <2>1, <2>3 DEF After, Unwritten, Views, Working, InPlace
    <3> QED
      BY <2>1, <2>2, <2>3, <3>1, FlushFrame DEF Holders
  <2>4. CASE emitted' = [emitted EXCEPT ![pc[p]] = Append(@, Envelope(p, pc[p]))]
             /\ pc'[p] = Keep[pc[p]]
    <3>1. /\ pc'[p] \in Working /\ pc'[p] \in DOMAIN InPlace
          /\ InPlace[pc'[p]] = pc[p] /\ pc'[p] \notin Unwritten[pc[p]]
          /\ \A v \in Views : pc'[p] \in Unwritten[v] => pc[p] \in Unwritten[v]
      BY <2>1, <2>4 DEF Keep, Unwritten, Views, Working, InPlace
    <3>2. Holders = {p} /\ Holders' = {p}
      BY <2>1, <2>2, <3>1, OneFlush DEF Holders, Flushing
    <3> QED
      BY <2>1, <2>2, <2>4, <3>1, <3>2, EmitKeeps
  <2> QED
    BY <1>0, <1>10, <2>3, <2>4 DEF WriteView, Goto
<1>11. ASSUME NEW p \in Procs, WriteSink(p) PROVE FlushInv'
  <2>1. /\ p \in Holders /\ pc[p] = "sink" /\ pc[p] \in Unwritten["primary"]
        /\ "primary" \in Views /\ pc[p] \notin DOMAIN InPlace
    BY <1>11 DEF WriteSink, Holders, Working, Views, Unwritten, InPlace
  <2>2. /\ \A q \in Procs : q # p => pc'[q] = pc[q]
        /\ pc'[p] = "commit" /\ UNCHANGED <<current, taken, previous, torn>>
    BY <1>0, <1>11 DEF WriteSink, Goto
  <2>3. Holders = {p} /\ Holders' = {p}
    BY <2>1, <2>2, OneFlush DEF Holders, Flushing, Working
  <2>4. /\ pc'[p] \in DOMAIN InPlace /\ InPlace[pc'[p]] = "primary"
        /\ \A v \in Views : pc'[p] \notin Unwritten[v]
    BY <2>2 DEF InPlace, Unwritten, Views
  <2>5. emitted' = [emitted EXCEPT !["primary"] = Append(@, Envelope(p, "primary"))]
    BY <1>11 DEF WriteSink
  <2> QED
    BY <2>1, <2>2, <2>3, <2>4, <2>5, EmitKeeps
<1>12. ASSUME NEW p \in Procs, KeepView(p) \/ Commit(p) PROVE FlushInv'
  <2>1. p \in Holders /\ pc[p] \in DOMAIN InPlace /\ InPlace[pc[p]] \in Views
    BY <1>12 DEF KeepView, Commit, Holders, Working, InPlace, Views
  <2>2. Holders = {p}
    BY <2>1, OneFlush DEF Holders, Flushing
  <2>3. /\ Holders' \subseteq {p} /\ UNCHANGED <<current, emitted, torn>>
        /\ p \in Holders' =>
             /\ taken'[p] = taken[p] /\ pc'[p] \notin DOMAIN InPlace
             /\ \A v \in Views : pc'[p] \in Unwritten[v] => pc[p] \in Unwritten[v]
    <3>1. CASE KeepView(p)
      BY <1>0, <2>2, <3>1 DEF KeepView, Goto, Holders, After, InPlace, Unwritten, Views
    <3>2. CASE Commit(p)
      BY <1>0, <2>2, <3>2 DEF Commit, Finish, Goto, Holders, Working
    <3> QED
      BY <1>12, <3>1, <3>2
  <2>4. previous' = [previous EXCEPT ![InPlace[pc[p]]] = taken[p].window.end]
    BY <1>12 DEF KeepView, Commit, Rebase, InPlace
  <2> QED
    BY <2>1, <2>2, <2>3, <2>4, KeepRebases
<1> QED
  BY <1>1, <1>2, <1>3, <1>4, <1>5, <1>6, <1>7, <1>8, <1>9, <1>10, <1>11, <1>12,
     <1>13, NextCases DEF Flush

\* Every step of every goroutine keeps the three parts of the invariant.
LEMMA Invariant == Spec => [](TypeOK /\ Exclusive /\ FlushInv)
<1>1. Init => TypeOK /\ Exclusive /\ FlushInv
  BY TypeInit, ExclusiveInit, FlushInvInit
<1>2. TypeOK /\ Exclusive /\ FlushInv /\ [Next]_vars => (TypeOK /\ Exclusive /\ FlushInv)'
  BY TypeStep, ExclusiveStep, FlushInvStep
<1> QED
  BY <1>1, <1>2, PTL DEF Spec

\* However handlers, worker and Close interleave, and whatever fails, the
\* envelopes of a view are written in the order of their windows.
THEOREM PublishedInOrder == Spec => []InOrder
<1>1. FlushInv => InOrder
  BY DEF FlushInv
<1> QED
  BY <1>1, Invariant, PTL

\* ... and the diff of each is against the newest one before it whose write
\* succeeded, whichever file of a write fails: DiffBase, of flushCurrent,
\* flushReconciled and writePrimarySnapshot.
THEOREM DiffAgainstLast == Spec => []DiffBase
<1>1. FlushInv => DiffBase
  BY DEF FlushInv
<1> QED
  BY <1>1, Invariant, PTL
-----------------------------------------------------------------------------
(* Close runs alone: Run calls it when the servers are drained and the      *)
(* worker has returned, and neither can begin anything after that.          *)

CloserInv ==
  /\ pc[Closer] \notin {"idle", "aborted"} =>
       \A p \in Requests \cup {Ticker} : pc[p] \in {"idle", "done", "failed", "stopped", "reported"}
  /\ pc[Closer] \notin {"idle", "aborted"} => pc[Ticker] \in {"stopped", "reported"}
  /\ pc[Closer] \in Working \cup {"done"} => current.spans = {}

\* At the start Close has not begun.
LEMMA CloserInvInit == Init => CloserInv
BY EngineAssumption DEF Init, CloserInv, Procs, Working

\* Close starts when every handler and the worker are done, and nobody starts after it.
LEMMA CloserInvStep == TypeOK /\ CloserInv /\ [Next]_vars => CloserInv'
<1> SUFFICES ASSUME TypeOK, CloserInv, [Next]_vars PROVE CloserInv'
  OBVIOUS
<1>0. /\ pc \in [Procs -> Labels] /\ Requests \subseteq Procs
      /\ Closer \notin Requests /\ Ticker \notin Requests /\ Ticker # Closer
      /\ Closer \in Procs /\ Ticker \in Procs
      /\ current.end \in Nat
      /\ \A p \in Procs : p # Closer => p \in Requests \cup {Ticker}
  BY EngineAssumption DEF TypeOK, Procs, Window
<1> DEFINE Leaving == pc[Closer] \notin {"idle", "aborted"}
<1>1. CASE UNCHANGED vars \/ Advance \/ Stop
  <2>1. UNCHANGED <<pc, current>>
    BY <1>1 DEF vars, Advance, Stop
  <2> QED
    BY <2>1 DEF CloserInv
<1>2. CASE StartClose
  <2>1. /\ pc'[Closer] = "enter" /\ \A p \in Requests \cup {Ticker} : pc'[p] = pc[p]
        /\ \A r \in Requests : pc[r] \in {"idle", "done", "failed"}
        /\ pc[Ticker] \in {"stopped", "reported"}
    BY <1>0, <1>2 DEF StartClose, Drained, Goto
  <2> QED
    BY <2>1 DEF CloserInv, Working
<1>3. CASE Abort
  <2>1. pc'[Closer] = "aborted"
    BY <1>0, <1>3 DEF Abort, Goto
  <2> QED
    BY <2>1 DEF CloserInv, Working
<1>4. CASE ~Leaving /\ pc'[Closer] = pc[Closer]
  BY <1>4 DEF CloserInv, Working
<1>5. CASE WakeTicker \/ StopTicker \/ ReportError
  <2>1. /\ pc[Ticker] \in {"idle", "failed"} /\ pc'[Closer] = pc[Closer]
    BY <1>0, <1>5 DEF WakeTicker, StopTicker, ReportError, Goto
  <2>2. ~Leaving
    BY <2>1 DEF CloserInv
  <2> QED
    BY <1>4, <2>1, <2>2
<1>6. ASSUME NEW r \in Requests, Receive(r) \/ BeginAdmit(r) \/ AdmitSpan(r) \/ EndAdmit(r)
      PROVE  CloserInv'
  <2>1. pc'[Closer] = pc[Closer]
    BY <1>0, <1>6 DEF Receive, BeginAdmit, AdmitSpan, EndAdmit, Goto
  <2>2. ~Leaving
    BY <1>6 DEF Receive, BeginAdmit, AdmitSpan, EndAdmit, CloserInv
  <2> QED
    BY <1>4, <2>1, <2>2
<1>7. ASSUME NEW p \in Procs, Flush(p) PROVE CloserInv'
  <2>1. pc[p] \notin {"idle", "done", "failed", "stopped", "reported", "aborted"}
    BY <1>7 DEF Flush, LockFlush, CheckDue, SkipEmpty, TakeWindow, Discover, Process,
                WriteReport, WriteView, KeepView, OfferReport, WriteSink, Commit, FlushFails, InPlace
  <2>2. CASE p # Closer
    <3>1. ~Leaving
      BY <1>0, <2>1, <2>2 DEF CloserInv
    <3>2. pc'[Closer] = pc[Closer]
      BY <1>0, <1>7, <2>2 DEF Flush, LockFlush, CheckDue, SkipEmpty, TakeWindow, Discover,
           Process, WriteReport, WriteView, KeepView, OfferReport, WriteSink, Commit, FlushFails,
           Goto, Finish
    <3> QED
      BY <1>4, <3>1, <3>2
  <2>3. CASE p = Closer
    <3>1. Leaving
      BY <2>1, <2>3
    <3>2. \A q \in Requests \cup {Ticker} : pc'[q] = pc[q]
      BY <1>0, <1>7, <2>3 DEF Flush, LockFlush, CheckDue, SkipEmpty, TakeWindow, Discover,
           Process, WriteReport, WriteView, KeepView, OfferReport, WriteSink, Commit, FlushFails,
           Goto, Finish
    <3>3. pc'[Closer] \in Working \cup {"done"} => (current.spans)' = {}
      <4>1. CASE LockFlush(p) \/ CheckDue(p)
        BY <1>0, <2>3, <4>1 DEF LockFlush, CheckDue, Goto, Working
      <4>2. CASE SkipEmpty(p)
        BY <2>3, <4>2 DEF SkipEmpty, NothingToFlush
      <4>3. CASE TakeWindow(p)
        BY <1>0, <4>3, NewWindowType DEF TakeWindow
      <4>4. CASE Discover(p) \/ Process(p) \/ WriteReport(p) \/ WriteView(p) \/ KeepView(p)
                 \/ OfferReport(p) \/ WriteSink(p) \/ Commit(p) \/ FlushFails(p)
        <5>1. UNCHANGED current /\ pc[p] \in Working
          BY <4>4 DEF Discover, Process, WriteReport, WriteView, KeepView, OfferReport, WriteSink,
                      Commit, FlushFails, Working, InPlace
        <5> QED
          BY <2>3, <5>1 DEF CloserInv
      <4> QED
        BY <1>7, <4>1, <4>2, <4>3, <4>4 DEF Flush
    <3> QED
      BY <3>1, <3>2, <3>3 DEF CloserInv
  <2> QED
    BY <2>2, <2>3
<1> QED
  BY <1>1, <1>2, <1>3, <1>5, <1>6, <1>7, NextCases

\* What CloserInv knows of a Close that is done is CleanShutdown.
LEMMA CleanClose == TypeOK /\ CloserInv => CleanShutdown
<1> SUFFICES ASSUME TypeOK, CloserInv, pc[Closer] = "done"
             PROVE  current.spans = {} /\ Holders = {}
  BY DEF CleanShutdown
<1>1. \A p \in Procs : pc[p] \notin Working
  BY DEF CloserInv, Procs, Working
<1> QED
  BY <1>1 DEF CloserInv, Holders


\* CloserInv holds in every reachable state.
LEMMA CloserAlways == Spec => [](TypeOK /\ CloserInv)
<1>1. Init => TypeOK /\ CloserInv
  BY TypeInit, CloserInvInit
<1>2. TypeOK /\ CloserInv /\ [Next]_vars => (TypeOK /\ CloserInv)'
  BY TypeStep, CloserInvStep
<1> QED
  BY <1>1, <1>2, PTL DEF Spec

\* When Close has returned without an error, the window it flushed was the
\* last: no span waits in memory and no goroutine is still publishing one.
THEOREM NothingLeftBehind == Spec => []CleanShutdown
<1> QED
  BY CloserAlways, CleanClose, PTL
-----------------------------------------------------------------------------
(* The files of a reconciled flush.  As a flush moves on, each file it has  *)
(* passed is of the window it holds, and all are of windows that have ended. *)

\* Where a flush has written each of the files.
Past ==
  [report |-> {"summary", "raw", "keepRaw", "stable", "keepStable", "guard", "sink"},
   summary |-> {"raw", "keepRaw", "stable", "keepStable", "guard", "sink"},
   raw |-> {"keepRaw", "stable", "keepStable", "guard", "sink"},
   stable |-> {"keepStable", "guard", "sink"}]

ChainInv == Reconciling =>
  /\ Backed
  /\ files["report"] <= current.start
  /\ \A p \in Holders :
       /\ files["report"] <= taken[p].window.end
       /\ pc[p] \in Past["report"] => files["report"] = taken[p].window.end
       /\ pc[p] \in Past["summary"] => files["summary"] = taken[p].window.end
       /\ pc[p] \in Past["raw"] => files["raw"] = taken[p].window.end
       /\ pc[p] \in Past["stable"] => files["stable"] = taken[p].window.end
       /\ pc[p] = "sink" => latestReport = taken[p].window.end

\* Steps that write no file and settle no window.
LEMMA ChainFrame ==
  ASSUME ChainInv, UNCHANGED <<files, latestReport>>,
         (current.start)' = current.start, emitted'["primary"] = emitted["primary"],
         \A p \in Holders' :
           /\ p \in Holders
           /\ taken'[p].window = taken[p].window
           /\ pc'[p] \in Past["report"] => pc'[p] = pc[p]
  PROVE  ChainInv'
<1>1. LastPrimary' = LastPrimary
  BY DEF LastPrimary
<1> SUFFICES ASSUME Reconciling PROVE ChainInv'
  BY DEF ChainInv, Past
<1>2. Backed' /\ (files["report"] <= current.start)'
  BY <1>1 DEF ChainInv, Past, Backed
<1> QED
  BY <1>2 DEF ChainInv, Past

\* At the start there is no file and no envelope.
LEMMA ChainInvInit == Init => ChainInv
<1> SUFFICES ASSUME Init PROVE ChainInv
  OBVIOUS
<1>1. Holders = {}
  BY DEF Init, Holders, Working
<1>2. LastPrimary = 0 /\ latestReport = 0 /\ \A f \in Files : files[f] = 0
  BY DEF Init, LastPrimary, Views, NoWindow
<1>3. current \in Window
  BY TypeInit DEF TypeOK
<1> QED
  BY <1>1, <1>2, <1>3 DEF ChainInv, Past, Backed, Files, Window

\* Each write of a flush finds the writes that it comes after done.
LEMMA ChainInvStep ==
  TypeOK /\ Exclusive /\ FlushInv /\ ChainInv /\ [Next]_vars => ChainInv'
<1> SUFFICES ASSUME TypeOK, Exclusive, FlushInv, ChainInv, [Next]_vars, Reconciling
             PROVE  ChainInv'
  BY DEF ChainInv, Past
<1>0. /\ pc \in [Procs -> Labels] /\ taken \in [Procs -> {None} \cup TakenWindow]
      /\ Ticker \in Procs /\ Closer \in Procs /\ Requests \subseteq Procs
      /\ \A p \in Holders : taken[p] \in TakenWindow
      /\ current \in Window /\ current.start \in Nat /\ current.end \in Nat
      /\ files \in [Files -> Nat] /\ latestReport \in Nat
  BY DEF TypeOK, Procs, Window
<1>00. LastPrimary \in Nat
  <2>1. CASE emitted["primary"] = << >>
    BY <2>1 DEF LastPrimary, NoWindow
  <2>2. CASE emitted["primary"] # << >>
    <3>1. emitted["primary"] \in Seq([window : Window, base : Nat])
      BY DEF TypeOK, Views
    <3>2. Len(emitted["primary"]) \in DOMAIN emitted["primary"]
      BY <2>2, <3>1
    <3> QED
      BY <2>2, <3>2, EmittedEnds DEF LastPrimary, Views
  <2> QED
    BY <2>1, <2>2
<1>1. CASE UNCHANGED vars \/ Advance \/ Stop
  <2>1. UNCHANGED <<current, emitted, files, latestReport, taken, pc>>
    BY <1>1 DEF vars, Advance, Stop, outVars
  <2> QED
    BY <2>1, ChainFrame DEF Holders
<1>2. CASE WakeTicker \/ StopTicker \/ ReportError \/ StartClose \/ Abort
  <2>1. UNCHANGED <<current, emitted, files, latestReport, taken>>
    BY <1>2 DEF WakeTicker, StopTicker, ReportError, StartClose, Abort, outVars
  <2>2. \A p \in Procs : pc'[p] # pc[p] => pc[p] \notin Working /\ pc'[p] \notin Working
    BY <1>0, <1>2 DEF WakeTicker, StopTicker, ReportError, StartClose, Abort, Goto, Working
  <2> QED
    BY <2>1, <2>2, ChainFrame DEF Holders
<1>3. ASSUME NEW r \in Requests, Receive(r) \/ BeginAdmit(r) \/ AdmitSpan(r) \/ EndAdmit(r)
      PROVE  ChainInv'
  <2>1. (current.start)' = current.start
    BY <1>0, <1>3 DEF Receive, BeginAdmit, AdmitSpan, EndAdmit, Window
  <2>2. UNCHANGED <<emitted, files, latestReport, taken>>
    BY <1>3 DEF Receive, BeginAdmit, AdmitSpan, EndAdmit, outVars
  <2>3. \A p \in Procs : pc'[p] # pc[p] => pc[p] \notin Working /\ pc'[p] \notin Working
    BY <1>0, <1>3 DEF Receive, BeginAdmit, AdmitSpan, EndAdmit, Goto, Working
  <2> QED
    BY <2>1, <2>2, <2>3, ChainFrame DEF Holders
<1>4. ASSUME NEW p \in Procs, LockFlush(p) \/ CheckDue(p) PROVE ChainInv'
  <2>1. UNCHANGED <<current, emitted, files, latestReport, taken>>
    BY <1>4 DEF LockFlush, CheckDue, outVars
  <2>2. \A q \in Procs : pc'[q] # pc[q] => pc[q] \notin Working /\ pc'[q] \notin Working
    BY <1>0, <1>4 DEF LockFlush, CheckDue, Goto, Working
  <2> QED
    BY <2>1, <2>2, ChainFrame DEF Holders
<1>5. ASSUME NEW p \in Procs, TakeWindow(p) PROVE ChainInv'
  <2>1. Holders = {}
    BY <1>5, OneFlush DEF TakeWindow, Holders, Flushing, Working
  <2>2. Holders' = {p} /\ pc'[p] = "discover"
    BY <1>0, <1>5, <2>1 DEF TakeWindow, Goto, Holders, Working
  <2>3. /\ UNCHANGED <<emitted, files, latestReport>> /\ taken'[p].window = current
        /\ (current.start)' = current.end
    BY <1>0, <1>5, NewWindowType DEF TakeWindow, outVars
  <2>4. LastPrimary' = LastPrimary
    BY <2>3 DEF LastPrimary
  <2>5. files["report"] \in Nat /\ files["report"] <= current.start /\ current.start < current.end
    BY <1>0 DEF ChainInv, Past, FlushInv, Ordered, Files
  <2>6. files["report"] <= current.end
    BY <1>0, <2>5
  <2> QED
    BY <2>2, <2>3, <2>4, <2>6 DEF ChainInv, Past, Backed
\* A flush at work has the only taken window.
<1>6. ASSUME NEW p \in Procs, pc[p] \in Working, UNCHANGED current,
             \A q \in Procs : q # p => pc'[q] = pc[q]
      PROVE  /\ Holders = {p} /\ Holders' \subseteq {p}
             /\ taken[p] \in TakenWindow /\ taken[p].window.end \in Nat
             /\ taken[p].window.end <= current.start
  <2>1. Holders = {p}
    BY <1>6, OneFlush DEF Holders, Flushing
  <2> QED
    BY <1>0, <1>6, <2>1 DEF Holders, TakenWindow, Window, FlushInv, Ordered
<1>7. ASSUME NEW p \in Procs, Discover(p) \/ Process(p) \/ Commit(p) \/ FlushFails(p)
      PROVE  ChainInv'
  <2>1. /\ UNCHANGED <<current, emitted, files, latestReport>>
        /\ pc[p] \in Working
        /\ \A q \in Procs : q # p => pc'[q] = pc[q]
    BY <1>0, <1>7 DEF Discover, Process, Commit, FlushFails, outVars, Goto, Finish, Working, InPlace
  <2>2. pc'[p] \notin Past["report"]
    BY <1>0, <1>7 DEF Discover, Process, Commit, FlushFails, Goto, Finish, Past
  <2>3. pc'[p] \in Working => taken'[p].window = taken[p].window
    <3>1. CASE Process(p)
      BY <1>0, <1>6, <2>1, <3>1 DEF Process, TakenWindow
    <3>2. CASE Discover(p)
      BY <3>2 DEF Discover
    <3>3. CASE Commit(p) \/ FlushFails(p)
      BY <1>0, <3>3 DEF Commit, FlushFails, Finish, Goto, Working
    <3> QED
      BY <1>7, <3>1, <3>2, <3>3
  <2> QED
    BY <1>6, <2>1, <2>2, <2>3, ChainFrame DEF Holders
<1>8. ASSUME NEW p \in Procs, WriteReport(p) PROVE ChainInv'
  <2> DEFINE n == taken[p].window.end
  <2>1. /\ UNCHANGED <<current, emitted, latestReport, taken>>
        /\ pc[p] \in {"report", "summary"} /\ pc[p] \in Working
        /\ \A q \in Procs : q # p => pc'[q] = pc[q]
        /\ files' = [files EXCEPT ![pc[p]] = n]
        /\ pc'[p] = After[pc[p]]
    BY <1>0, <1>8 DEF WriteReport, Goto, Working
  <2>2. Holders = {p} /\ Holders' \subseteq {p} /\ n \in Nat /\ n <= current.start
    BY <1>6, <2>1
  <2>3. LastPrimary' = LastPrimary
    BY <2>1 DEF LastPrimary
  <2>4. files["report"] <= n
    BY <2>2 DEF ChainInv, Past
  <2> HIDE DEF n
  <2>5. CASE pc[p] = "report"
    <3>1. /\ pc'[p] = "summary" /\ files'["report"] = n
          /\ \A f \in Files \ {"report"} : files'[f] = files[f]
      BY <1>0, <2>1, <2>5 DEF After, Files
    <3>2. Backed' /\ (files["report"] <= current.start)'
      BY <1>0, <2>1, <2>2, <2>3, <2>4, <3>1 DEF ChainInv, Past, Backed, Files
    <3> QED
      BY <2>1, <2>2, <3>1, <3>2 DEF ChainInv, Past, n
  <2>6. CASE pc[p] = "summary"
    <3>1. /\ pc'[p] = "raw" /\ files'["summary"] = n
          /\ \A f \in Files \ {"summary"} : files'[f] = files[f]
      BY <1>0, <2>1, <2>6 DEF After, Files
    <3>2. files["report"] = n
      BY <2>2, <2>6 DEF ChainInv, Past, n
    <3>3. Backed' /\ (files["report"] <= current.start)'
      BY <1>0, <2>1, <2>2, <2>3, <3>1, <3>2 DEF ChainInv, Past, Backed, Files
    <3> QED
      BY <2>1, <2>2, <3>1, <3>2, <3>3 DEF ChainInv, Past, n, Files
  <2> QED
    BY <2>1, <2>5, <2>6
<1>9. ASSUME NEW p \in Procs, WriteView(p) PROVE ChainInv'
  <2> DEFINE n == taken[p].window.end
  <2>1. /\ UNCHANGED <<current, latestReport, taken>>
        /\ emitted'["primary"] = emitted["primary"]
        /\ pc[p] \in {"raw", "stable"} /\ pc[p] \in Working
        /\ \A q \in Procs : q # p => pc'[q] = pc[q]
        /\ files' = [files EXCEPT ![pc[p]] = n]
        /\ pc'[p] \in {After[pc[p]], Keep[pc[p]]}
    BY <1>0, <1>9 DEF WriteView, Goto, Working, TypeOK, Views
  <2>2. Holders = {p} /\ Holders' \subseteq {p} /\ n \in Nat /\ n <= current.start
    BY <1>6, <2>1
  <2>3. LastPrimary' = LastPrimary
    BY <2>1 DEF LastPrimary
  <2>4. files["report"] = n /\ files["summary"] = n
    BY <2>1, <2>2 DEF ChainInv, Past
  <2> HIDE DEF n
  <2>5. CASE pc[p] = "raw"
    <3>1. /\ pc'[p] \in {"stable", "keepRaw"} /\ files'["raw"] = n
          /\ \A f \in Files \ {"raw"} : files'[f] = files[f]
      BY <1>0, <2>1, <2>5 DEF After, Keep, Files
    <3>2. Backed' /\ (files["report"] <= current.start)'
      BY <1>0, <2>1, <2>2, <2>3, <2>4, <3>1 DEF ChainInv, Past, Backed, Files
    <3> QED
      BY <2>1, <2>2, <2>4, <3>1, <3>2 DEF ChainInv, Past, n, Files
  <2>6. CASE pc[p] = "stable"
    <3>1. /\ pc'[p] \in {"guard", "keepStable"} /\ files'["stable"] = n
          /\ \A f \in Files \ {"stable"} : files'[f] = files[f]
      BY <1>0, <2>1, <2>6 DEF After, Keep, Files
    <3>2. files["raw"] = n
      BY <2>2, <2>6 DEF ChainInv, Past, n
    <3>3. Backed' /\ (files["report"] <= current.start)'
      BY <1>0, <2>1, <2>2, <2>3, <2>4, <3>1, <3>2 DEF ChainInv, Past, Backed, Files
    <3> QED
      BY <2>1, <2>2, <2>4, <3>1, <3>2, <3>3 DEF ChainInv, Past, n, Files
  <2> QED
    BY <2>1, <2>5, <2>6
<1>13. ASSUME NEW p \in Procs, KeepView(p) PROVE ChainInv'
  <2>1. /\ UNCHANGED <<current, emitted, files, latestReport, taken>>
        /\ pc[p] \in Working
        /\ \A q \in Procs : q # p => pc'[q] = pc[q]
        /\ \/ pc[p] = "keepRaw" /\ pc'[p] = "stable"
           \/ pc[p] = "keepStable" /\ pc'[p] = "guard"
    BY <1>0, <1>13 DEF KeepView, Goto, Working, After, InPlace
  <2>2. Holders = {p} /\ Holders' \subseteq {p}
    BY <1>6, <2>1
  <2>3. LastPrimary' = LastPrimary
    BY <2>1 DEF LastPrimary
  <2>4. Backed' /\ (files["report"] <= current.start)'
    BY <2>1, <2>3 DEF ChainInv, Backed
  <2> QED
    BY <2>1, <2>2, <2>4 DEF ChainInv, Past
<1>10. ASSUME NEW p \in Procs, OfferReport(p) PROVE ChainInv'
  <2> DEFINE n == taken[p].window.end
  <2>1. /\ UNCHANGED <<current, emitted, files>>
        /\ pc[p] = "guard" /\ pc[p] \in Working /\ latestReport' = n
        /\ \A q \in Procs : q # p => pc'[q] = pc[q]
        /\ pc'[p] \in Working => pc'[p] = "sink" /\ taken' = taken
    BY <1>0, <1>10 DEF OfferReport, Finish, Goto, Working
  <2>2. Holders = {p} /\ Holders' \subseteq {p} /\ n \in Nat /\ n <= current.start
    BY <1>6, <2>1
  <2>3. LastPrimary' = LastPrimary
    BY <2>1 DEF LastPrimary
  <2>4. files["report"] = n /\ files["summary"] = n /\ files["raw"] = n /\ files["stable"] = n
    BY <2>1, <2>2 DEF ChainInv, Past
  <2>5. p \in Holders' => pc'[p] = "sink" /\ taken'[p].window.end = n
    BY <2>1 DEF Holders
  <2> HIDE DEF n
  <2>6. Backed' /\ (files["report"] <= current.start)'
    BY <1>0, <1>00, <2>1, <2>2, <2>3, <2>4 DEF ChainInv, Past, Backed
  <2> QED
    BY <2>1, <2>2, <2>4, <2>5, <2>6 DEF ChainInv, Past
<1>11. ASSUME NEW p \in Procs, WriteSink(p) PROVE ChainInv'
  <2> DEFINE n == taken[p].window.end
  <2>1. /\ UNCHANGED <<current, files, latestReport, taken>>
        /\ pc[p] = "sink" /\ pc[p] \in Working /\ pc'[p] = "commit"
        /\ \A q \in Procs : q # p => pc'[q] = pc[q]
        /\ "primary" \in Views /\ pc[p] \in Unwritten["primary"]
    BY <1>0, <1>11 DEF WriteSink, Goto, Working, Views, Unwritten
  <2>2. Holders = {p} /\ Holders' \subseteq {p} /\ n \in Nat /\ n <= current.start
    BY <1>6, <2>1
  <2>3. LastEnd("primary")' = n
    BY <1>11, <2>1, <2>2, Emit DEF WriteSink
  <2>4. LastPrimary' = n
    BY <2>3 DEF LastPrimary, LastEnd
  <2>5. files["report"] = n /\ latestReport = n
    BY <2>1, <2>2 DEF ChainInv, Past
  <2> HIDE DEF n
  <2>6. Backed' /\ (files["report"] <= current.start)'
    BY <2>1, <2>2, <2>4, <2>5 DEF ChainInv, Past, Backed
  <2> QED
    BY <2>1, <2>2, <2>5, <2>6 DEF ChainInv, Past, n
<1>12. ASSUME NEW p \in Procs, Flush(p) PROVE ChainInv'
  <2>1. ~SkipEmpty(p)
    BY DEF SkipEmpty
  <2> QED
    BY <1>4, <1>5, <1>7, <1>8, <1>9, <1>10, <1>11, <1>12, <1>13, <2>1 DEF Flush
<1> QED
  BY <1>1, <1>2, <1>3, <1>12, NextCases

\* ChainInv holds in every reachable state.
LEMMA ChainAlways == Spec => []ChainInv
<1>1. Init => ChainInv
  BY ChainInvInit
<1>2. TypeOK /\ Exclusive /\ FlushInv /\ ChainInv /\ [Next]_vars => ChainInv'
  BY ChainInvStep
<1> QED
  BY <1>1, <1>2, Invariant, PTL DEF Spec

\* A snapshot that reconciliation publishes is backed by a report, a summary
\* and projections of its window or of a later one, whichever writes fail and
\* whoever flushes next: what flushReconciled writes first is never older.
THEOREM PublishedIsBacked == Spec => []Backed
<1>1. ChainInv => Backed
  BY DEF ChainInv, Past, Backed
<1> QED
  BY <1>1, ChainAlways, PTL
=============================================================================
