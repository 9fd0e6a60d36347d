-------------------------- MODULE EngineRefinement --------------------------
(***************************************************************************)
(* Engine implements WindowLog: every retained span joins the open window  *)
(* once, and its window is published whole, in order, or given up whole.   *)
(* Of this follows what becomes of a span, of the counts of a window and   *)
(* of the times at which its spans arrived.                                *)
(***************************************************************************)
EXTENDS EngineProofs, FiniteSetTheorems

\* A span is retained by its own request, in the order of its batch; only a
\* window without spans is not shown.
SpanInv ==
  /\ \A s \in Retained : \E r \in Requests : \E i \in 1 .. idx[r] - 1 : s = <<r, i>>
  /\ \A p \in Holders :
       "primary" \notin taken[p].shown => taken[p].window.spans = {}

\* What the refinement looks at.
Shadow == <<current.spans, current.end, Closing, emitted["primary"], lost>>

\* The mapping reads no more of the state than Shadow.
LEMMA SameRetained ==
  ASSUME Shadow' = Shadow
  PROVE  Retained' = Retained /\ Published' = Published
BY DEF Shadow, Retained, Published, SpansOf

\* At the start there are no spans.
LEMMA SpanInvInit == Init => SpanInv
<1> SUFFICES ASSUME Init PROVE SpanInv
  OBVIOUS
<1>1. Holders = {}
  BY DEF Init, Holders, Working
<1>2. current.spans = {} /\ lost = {}
  BY DEF Init, AlignWindow, NewWindow
<1>3. Closing = {} /\ Published = {}
  BY <1>1 DEF Init, Closing, Published, Views
<1> QED
  BY <1>1, <1>2, <1>3 DEF SpanInv, Retained, SpansOf

\* Steps that leave the windows alone.
LEMMA SpanFrame ==
  ASSUME SpanInv, Shadow' = Shadow, UNCHANGED idx,
         \A p \in Holders' :
           /\ p \in Holders
           /\ taken'[p].window = taken[p].window
           /\ "primary" \notin taken'[p].shown =>
                "primary" \notin taken[p].shown \/ taken[p].window.spans = {}
  PROVE  SpanInv' /\ UNCHANGED Log!vars
<1>1. Retained' = Retained /\ Published' = Published
  BY SameRetained
<1>2. SpanInv'
  BY <1>1 DEF SpanInv
<1>3. /\ (current.spans)' = current.spans /\ (current.end)' = current.end
      /\ Closing' = Closing /\ (emitted["primary"])' = emitted["primary"]
  BY DEF Shadow
<1>4. {Bare(w) : w \in Closing}' = {Bare(w) : w \in Closing}
  BY <1>3 DEF Bare
<1>5. [i \in DOMAIN emitted["primary"] |-> Bare(emitted["primary"][i].window)]'
        = [i \in DOMAIN emitted["primary"] |-> Bare(emitted["primary"][i].window)]
  BY <1>3 DEF Bare
<1> QED
  BY <1>1, <1>2, <1>3, <1>4, <1>5 DEF Log!vars

\* The windows of the goroutines at work: with one flush, at most one window.
LEMMA ClosingOfOne ==
  ASSUME NEW p \in Procs, Holders = {p}
  PROVE  Closing = IF pc[p] = "commit" THEN {} ELSE {taken[p].window}
BY DEF Closing

\* An initial state of the engine is one of the log.
LEMMA LogInit == Init => Log!Init
<1> SUFFICES ASSUME Init PROVE Log!Init
  OBVIOUS
<1>1. Holders = {}
  BY DEF Init, Holders, Working
<1>2. Closing = {}
  BY <1>1 DEF Closing
<1>3. emitted["primary"] = << >>
  BY DEF Init, Views
<1>4. Published = {}
  BY <1>3 DEF Published
<1>5. current.spans = {} /\ lost = {}
  BY DEF Init, AlignWindow, NewWindow
<1>6. current.end \in Nat
  BY TypeInit DEF TypeOK, Window
<1>7. [i \in DOMAIN emitted["primary"] |-> Bare(emitted["primary"][i].window)] = << >>
  BY <1>3
<1>8. Retained = {}
  BY <1>2, <1>4, <1>5 DEF Retained, SpansOf
<1> QED
  BY <1>2, <1>5, <1>6, <1>7, <1>8 DEF Log!Init

\* The image of a sequence grows with it.
LEMMA AppendImage ==
  ASSUME NEW S, NEW s \in Seq(S), NEW e \in S, NEW t, t = Append(s, e)
  PROVE  [i \in DOMAIN t |-> Bare(t[i].window)]
           = Append([i \in DOMAIN s |-> Bare(s[i].window)], Bare(e.window))
<1> DEFINE f == [i \in DOMAIN s |-> Bare(s[i].window)]
           g == [i \in DOMAIN t |-> Bare(t[i].window)]
           n == Len(s)
<1>1. /\ n \in Nat /\ DOMAIN s = 1 .. n /\ DOMAIN t = 1 .. n + 1
      /\ t[n + 1] = e /\ \A i \in 1 .. n : t[i] = s[i]
  BY AppendFacts
<1> DEFINE T == {Bare(x.window) : x \in S}
<1>2. f \in Seq(T) /\ Len(f) = n
  <2>1. \A i \in 1 .. n : f[i] \in T
    BY <1>1, ElementType
  <2> QED
    BY <1>1, <2>1
<1>3. Bare(e.window) \in T
  OBVIOUS
<1>4. /\ DOMAIN Append(f, Bare(e.window)) = 1 .. n + 1
      /\ Append(f, Bare(e.window))[n + 1] = Bare(e.window)
      /\ \A i \in 1 .. n : Append(f, Bare(e.window))[i] = f[i]
  BY <1>2, <1>3, AppendFacts
<1>5. Append(f, Bare(e.window)) = [i \in 1 .. n + 1 |-> Append(f, Bare(e.window))[i]]
  BY <1>2, <1>3, <1>4
<1>6. \A i \in 1 .. n + 1 : g[i] = Append(f, Bare(e.window))[i]
  BY <1>1, <1>4
<1> QED
  BY <1>1, <1>5, <1>6

\* Steps that leave the goroutines at work where they are.
LEMMA QuietStep ==
  ASSUME SpanInv, UNCHANGED <<current.spans, current.end, emitted, lost, taken, idx>>,
         \A p \in Procs : pc'[p] = pc[p] \/ (pc[p] \notin Working /\ pc'[p] \notin Working)
  PROVE  SpanInv' /\ UNCHANGED Log!vars
<1>1. Holders' = Holders /\ \A p \in Holders : pc'[p] = pc[p]
  BY DEF Holders
<1>2. Closing' = Closing
  BY <1>1 DEF Closing
<1> QED
  BY <1>1, <1>2, SpanFrame DEF Shadow

\* The step of each goroutine is a step of the abstract log, or none.
LEMMA LogStep ==
  ASSUME TypeOK, Exclusive, FlushInv, SpanInv, [Next]_vars
  PROVE  SpanInv' /\ [Log!Next]_(Log!vars)
<1>0. /\ pc \in [Procs -> Labels] /\ taken \in [Procs -> {None} \cup TakenWindow]
      /\ Ticker \in Procs /\ Closer \in Procs /\ Requests \subseteq Procs
      /\ \A p \in Holders : taken[p] \in TakenWindow
      /\ current \in Window
  BY DEF TypeOK, Procs
<1>1. CASE UNCHANGED vars
  BY <1>1, QuietStep DEF vars
<1>2. CASE Advance \/ Stop
  <2>1. UNCHANGED <<current, emitted, lost, taken, idx, pc>>
    BY <1>2 DEF Advance, Stop, outVars
  <2> QED
    BY <2>1, QuietStep
<1>3. CASE WakeTicker \/ StopTicker \/ ReportError \/ StartClose \/ Abort
  <2>1. UNCHANGED <<current, emitted, lost, taken, idx>>
    BY <1>3 DEF WakeTicker, StopTicker, ReportError, StartClose, Abort, outVars
  <2>2. \A p \in Procs : pc'[p] # pc[p] => pc[p] \notin Working /\ pc'[p] \notin Working
    BY <1>0, <1>3 DEF WakeTicker, StopTicker, ReportError, StartClose, Abort, Goto, Working
  <2> QED
    BY <2>1, <2>2, QuietStep
<1>4. ASSUME NEW r \in Requests, Receive(r) \/ BeginAdmit(r) \/ EndAdmit(r)
      PROVE  SpanInv' /\ [Log!Next]_(Log!vars)
  <2>1. UNCHANGED <<current.spans, current.end>>
    BY <1>0, <1>4 DEF Receive, BeginAdmit, EndAdmit, Window
  <2>2. UNCHANGED <<emitted, lost, taken, idx>>
    BY <1>4 DEF Receive, BeginAdmit, EndAdmit, outVars
  <2>3. \A p \in Procs : pc'[p] # pc[p] => pc[p] \notin Working /\ pc'[p] \notin Working
    BY <1>0, <1>4 DEF Receive, BeginAdmit, EndAdmit, Goto, Working
  <2> QED
    BY <2>1, <2>2, <2>3, QuietStep
<1>5. ASSUME NEW r \in Requests, AdmitSpan(r)
      PROVE  SpanInv' /\ [Log!Next]_(Log!vars)
  <2> DEFINE s == <<r, idx[r]>>
  <2>1. s \in Span
    BY <1>5, AdmittedSpan DEF AdmitSpan
  <2>2. /\ UNCHANGED <<pc, taken, emitted, lost>>
        /\ idx' = [idx EXCEPT ![r] = @ + 1]
    BY <1>5 DEF AdmitSpan, outVars
  <2>3. /\ (current.end)' = current.end
        /\ (current.spans)' = current.spans \/ (current.spans)' = current.spans \cup {s}
    BY <1>0, <1>5 DEF AdmitSpan, Window
  <2>4. Holders' = Holders /\ Closing' = Closing /\ Published' = Published
    BY <2>2 DEF Holders, Closing, Published
  <2>5. /\ idx \in [Requests -> Nat \ {0}] /\ idx'[r] = idx[r] + 1
        /\ \A q \in Requests : q # r => idx'[q] = idx[q]
    BY <2>2 DEF TypeOK
  <2>6. s \notin Retained
    BY <2>5 DEF SpanInv
  <2>7. Retained' = Retained \/ Retained' = Retained \cup {s}
    BY <2>2, <2>3, <2>4 DEF Retained, SpansOf
  <2>8. \A t \in Retained' : \E q \in Requests : \E i \in 1 .. idx'[q] - 1 : t = <<q, i>>
    BY <2>5, <2>7 DEF SpanInv
  <2>9. SpanInv'
    BY <2>2, <2>4, <2>8 DEF SpanInv
  <2>10. {Bare(w) : w \in Closing}' = {Bare(w) : w \in Closing}
    BY <2>4 DEF Bare
  <2>11. [i \in DOMAIN emitted["primary"] |-> Bare(emitted["primary"][i].window)]'
           = [i \in DOMAIN emitted["primary"] |-> Bare(emitted["primary"][i].window)]
    BY <2>2 DEF Bare
  <2>12. CASE (current.spans)' = current.spans
    <3>1. Retained' = Retained
      BY <2>2, <2>4, <2>12 DEF Retained, SpansOf
    <3> QED
      BY <2>3, <2>9, <2>10, <2>11, <2>12, <3>1 DEF Log!vars
  <2>13. CASE (current.spans)' = current.spans \cup {s}
    <3>1. Retained' = Retained \cup {s}
      BY <2>2, <2>4, <2>13 DEF Retained, SpansOf
    <3>2. Log!Retain(s)
      BY <2>3, <2>6, <2>10, <2>11, <2>13, <3>1 DEF Log!Retain
    <3> QED
      BY <2>1, <2>9, <3>2 DEF Log!Next
  <2> QED
    BY <2>3, <2>12, <2>13
<1>6. ASSUME NEW p \in Procs, LockFlush(p) \/ CheckDue(p)
      PROVE  SpanInv' /\ [Log!Next]_(Log!vars)
  <2>1. UNCHANGED <<current, emitted, lost, taken, idx>>
    BY <1>6 DEF LockFlush, CheckDue, outVars
  <2>2. \A q \in Procs : pc'[q] # pc[q] => pc[q] \notin Working /\ pc'[q] \notin Working
    BY <1>0, <1>6 DEF LockFlush, CheckDue, Goto, Working
  <2> QED
    BY <2>1, <2>2, QuietStep
<1>7. ASSUME NEW p \in Procs, SkipEmpty(p)
      PROVE  SpanInv' /\ [Log!Next]_(Log!vars)
  <2>1. /\ current.spans = {} /\ UNCHANGED <<emitted, lost, taken, idx>>
        /\ current' = current \/ current' = NewWindow(current.end)
    BY <1>7 DEF SkipEmpty, NothingToFlush, outVars
  <2>2. \A q \in Procs : pc'[q] # pc[q] => pc[q] \notin Working /\ pc'[q] \notin Working
    BY <1>0, <1>7 DEF SkipEmpty, Finish, Goto, Working
  <2>3. CASE current' = current
    BY <2>1, <2>2, <2>3, QuietStep
  <2>4. CASE current' = NewWindow(current.end)
    <3>1. current.end \in Nat
      BY <1>0 DEF Window
    <3>2. /\ (current.end)' \in Nat /\ (current.end)' > current.end
          /\ (current.spans)' = {}
      BY <2>4, <3>1, NewWindowType DEF Window
    <3>3. Holders' = Holders /\ \A q \in Holders : pc'[q] = pc[q]
      BY <2>2 DEF Holders
    <3>4. Closing' = Closing /\ Published' = Published
      BY <2>1, <3>3 DEF Closing, Published
    <3>5. Retained' = Retained
      BY <2>1, <3>2, <3>4 DEF Retained, SpansOf
    <3>6. SpanInv'
      BY <2>1, <3>3, <3>5 DEF SpanInv
    <3>7. {Bare(w) : w \in Closing}' = {Bare(w) : w \in Closing}
      BY <3>4 DEF Bare
    <3>8. [i \in DOMAIN emitted["primary"] |-> Bare(emitted["primary"][i].window)]'
            = [i \in DOMAIN emitted["primary"] |-> Bare(emitted["primary"][i].window)]
      BY <2>1 DEF Bare
    <3>9. Log!Skip
      BY <2>1, <3>2, <3>5, <3>7, <3>8 DEF Log!Skip
    <3> QED
      BY <3>6, <3>9 DEF Log!Next
  <2> QED
    BY <2>1, <2>3, <2>4
<1>8. ASSUME NEW p \in Procs, TakeWindow(p)
      PROVE  SpanInv' /\ [Log!Next]_(Log!vars)
  <2>1. Holders = {}
    BY <1>8, OneFlush DEF TakeWindow, Holders, Flushing, Working
  <2>2. Holders' = {p} /\ pc'[p] = "discover"
    BY <1>0, <1>8, <2>1 DEF TakeWindow, Goto, Holders, Working
  <2>3. UNCHANGED <<emitted, lost, idx>>
    BY <1>8 DEF TakeWindow, outVars
  <2>4. taken'[p].window = current /\ taken'[p].shown = {"primary"}
    BY <1>0, <1>8 DEF TakeWindow
  <2>5. current.end \in Nat
    BY <1>0 DEF Window
  <2>6. /\ (current.end)' \in Nat /\ (current.end)' > current.end
        /\ (current.spans)' = {}
    BY <1>8, <2>5, NewWindowType DEF TakeWindow, Window
  <2>7. Closing = {}
    BY <2>1 DEF Closing
  <2>8. Closing' = {current}
    BY <2>2, <2>4 DEF Closing
  <2>9. Published' = Published
    BY <2>3 DEF Published
  <2>10. Retained' = Retained
    BY <2>3, <2>6, <2>7, <2>8, <2>9 DEF Retained, SpansOf
  <2>11. SpanInv'
    BY <2>2, <2>3, <2>4, <2>10 DEF SpanInv
  <2>12. {Bare(w) : w \in Closing} = {}
    BY <2>7
  <2>13. {Bare(w) : w \in Closing}' = {[end |-> current.end, spans |-> current.spans]}
    BY <2>8 DEF Bare
  <2>14. [i \in DOMAIN emitted["primary"] |-> Bare(emitted["primary"][i].window)]'
           = [i \in DOMAIN emitted["primary"] |-> Bare(emitted["primary"][i].window)]
    BY <2>3 DEF Bare
  <2>15. Log!CloseWindow
    BY <2>6, <2>10, <2>12, <2>13, <2>14 DEF Log!CloseWindow
  <2> QED
    BY <2>11, <2>15 DEF Log!Next
<1>9. ASSUME NEW p \in Procs, Discover(p) \/ Process(p) \/ WriteReport(p) \/ WriteView(p) \/ KeepView(p)
      PROVE  SpanInv' /\ [Log!Next]_(Log!vars)
  <2>1. /\ UNCHANGED <<current, lost, idx>>
        /\ emitted'["primary"] = emitted["primary"]
    BY <1>9 DEF Discover, Process, WriteReport, WriteView, KeepView, outVars, TypeOK, Views
  <2>2. \A q \in Procs : q # p => pc'[q] = pc[q] /\ taken'[q] = taken[q]
    BY <1>0, <1>9 DEF Discover, Process, WriteReport, WriteView, KeepView, Goto
  <2>3. p \in Holders /\ taken[p] \in TakenWindow
    BY <1>0, <1>9 DEF Discover, Process, WriteReport, WriteView, KeepView, Holders, Working
  <2>4. pc[p] # "commit" /\ pc'[p] # "commit" /\ pc'[p] \in Working
    BY <1>0, <1>9 DEF Discover, Process, WriteReport, WriteView, KeepView, After, Keep, InPlace, Goto, Working
  <2>5. /\ taken'[p].window = taken[p].window
        /\ "primary" \notin taken'[p].shown =>
             "primary" \notin taken[p].shown \/ taken[p].window.spans = {}
    <3>1. CASE UNCHANGED taken
      BY <3>1
    <3>2. CASE Process(p)
      <4>1. PICK shown \in Shown(taken[p].window) :
               taken' = [taken EXCEPT ![p].shown = shown]
        BY <3>2 DEF Process
      <4>2. taken'[p].window = taken[p].window /\ taken'[p].shown = shown
        BY <1>0, <2>3, <4>1 DEF TakenWindow
      <4> QED
        BY <4>2 DEF Shown
    <3> QED
      BY <1>9, <3>1, <3>2 DEF Discover, WriteReport, WriteView, KeepView
  <2>6. Holders' = Holders
    BY <2>2, <2>3, <2>4 DEF Holders
  <2>7. Closing' = Closing
    <3>1. \A q \in Holders : taken'[q].window = taken[q].window
      BY <2>2, <2>5 DEF Holders
    <3>2. {q \in Holders : pc[q] # "commit"}' = {q \in Holders : pc[q] # "commit"}
      <4>1. \A q \in Holders : pc'[q] # "commit" <=> pc[q] # "commit"
        BY <2>2, <2>4 DEF Holders
      <4>2. {q \in Holders' : pc'[q] # "commit"} = {q \in Holders : pc[q] # "commit"}
        BY <2>6, <4>1, Zenon
      <4> QED
        BY <4>2, Zenon
    <3> QED
      BY <3>1, <3>2 DEF Closing
  <2>8. Shadow' = Shadow
    BY <2>1, <2>7 DEF Shadow
  <2> QED
    BY <2>1, <2>2, <2>5, <2>6, <2>8, SpanFrame DEF Holders
<1>10. ASSUME NEW p \in Procs,
              \/ OfferReport(p) /\ pc'[p] = "sink"
              \/ Commit(p)
              \/ FlushFails(p) /\ pc[p] = "commit"
       PROVE  SpanInv' /\ [Log!Next]_(Log!vars)
  <2>1. UNCHANGED <<current, emitted, lost, idx>>
    BY <1>10 DEF OfferReport, Commit, FlushFails
  <2>2. p \in Holders /\ pc[p] \in Working
    BY <1>10 DEF OfferReport, Commit, Holders, Working
  <2>3. Holders = {p}
    BY <2>2, OneFlush DEF Holders, Flushing
  <2>4. /\ \A q \in Procs : q # p => pc'[q] = pc[q]
        /\ \/ pc[p] = "guard" /\ pc'[p] = "sink" /\ UNCHANGED taken
           \/ pc[p] = "commit" /\ pc'[p] \notin Working
    BY <1>0, <1>10 DEF OfferReport, Commit, FlushFails, Finish, Goto, Working
  <2>5. Closing' = Closing
    BY <2>2, <2>3, <2>4 DEF Closing, Holders, Working
  <2>6. Shadow' = Shadow
    BY <2>1, <2>5 DEF Shadow
  <2>7. \A q \in Holders' : q \in Holders /\ taken'[q] = taken[q]
    BY <2>2, <2>3, <2>4 DEF Holders
  <2> QED
    BY <2>1, <2>6, <2>7, SpanFrame
<1>11. ASSUME NEW p \in Procs, WriteSink(p)
       PROVE  SpanInv' /\ [Log!Next]_(Log!vars)
  <2> DEFINE w == taken[p].window
             e == Envelope(p, "primary")
  <2>1. /\ UNCHANGED <<current, lost, idx, taken>>
        /\ pc[p] = "sink" /\ pc'[p] = "commit"
        /\ \A q \in Procs : q # p => pc'[q] = pc[q]
        /\ emitted'["primary"] = Append(emitted["primary"], e)
    BY <1>0, <1>11 DEF WriteSink, Goto, TypeOK, Views
  <2>2. Holders = {p} /\ Holders' = {p}
    BY <2>1, OneFlush DEF Holders, Flushing, Working
  <2>3. Closing = {w} /\ Closing' = {}
    BY <2>1, <2>2 DEF Closing
  <2>4. /\ emitted["primary"] \in Seq([window : Window, base : Nat])
        /\ e \in [window : Window, base : Nat] /\ e.window = w
    BY <1>0, <2>2 DEF TypeOK, Views, Envelope, TakenWindow
  <2>5. Published' = Published \cup {w}
    BY <2>1, <2>4, AppendFacts DEF Published
  <2>6. Retained' = Retained
    BY <2>1, <2>3, <2>5 DEF Retained, SpansOf
  <2>7. SpanInv'
    BY <2>1, <2>2, <2>6 DEF SpanInv
  <2>8. [i \in DOMAIN emitted["primary"] |-> Bare(emitted["primary"][i].window)]'
          = Append([i \in DOMAIN emitted["primary"] |-> Bare(emitted["primary"][i].window)],
                   Bare(w))
    <3>1. [i \in DOMAIN emitted'["primary"] |-> Bare(emitted'["primary"][i].window)]
            = Append([i \in DOMAIN emitted["primary"] |-> Bare(emitted["primary"][i].window)],
                     Bare(e.window))
      BY <2>1, <2>4, AppendImage
    <3> QED
      BY <2>4, <3>1 DEF Bare
  <2>9. {Bare(v) : v \in Closing} = {Bare(w)} /\ {Bare(v) : v \in Closing}' = {}
    BY <2>3
  <2>10. Log!Publish
    BY <2>1, <2>6, <2>8, <2>9 DEF Log!Publish
  <2> QED
    BY <2>7, <2>10 DEF Log!Next
<1>12. ASSUME NEW p \in Procs,
              \/ FlushFails(p) /\ pc[p] # "commit"
              \/ OfferReport(p) /\ pc'[p] # "sink"
       PROVE  SpanInv' /\ [Log!Next]_(Log!vars)
  <2>1. /\ UNCHANGED <<current, emitted, idx>>
        /\ pc[p] \in Working \ {"commit"} /\ pc'[p] \notin Working
        /\ \A q \in Procs : q # p => pc'[q] = pc[q] /\ taken'[q] = taken[q]
    BY <1>0, <1>12 DEF FlushFails, OfferReport, Finish, Goto, Working, InPlace
  <2>2. Holders = {p} /\ Holders' = {}
    BY <2>1, OneFlush DEF Holders, Flushing
  <2>3. Closing = {taken[p].window} /\ Closing' = {}
    BY <2>1, <2>2 DEF Closing
  <2>4. lost' = lost \cup taken[p].window.spans
    <3>1. CASE FlushFails(p) /\ pc[p] # "commit"
      BY <3>1 DEF FlushFails
    <3>2. CASE OfferReport(p) /\ pc'[p] # "sink"
      <4>1. "primary" \notin taken[p].shown /\ lost' = lost
        BY <1>0, <3>2 DEF OfferReport, Goto
      <4>2. taken[p].window.spans = {}
        BY <2>2, <4>1 DEF SpanInv
      <4> QED
        BY <4>1, <4>2
    <3> QED
      BY <1>12, <3>1, <3>2
  <2>5. Published' = Published
    BY <2>1 DEF Published
  <2>6. Retained' = Retained
    BY <2>1, <2>3, <2>4, <2>5 DEF Retained, SpansOf
  <2>7. SpanInv'
    BY <2>1, <2>2, <2>6 DEF SpanInv
  <2>8. {Bare(v) : v \in Closing} # {} /\ {Bare(v) : v \in Closing}' = {}
    BY <2>3
  <2>9. [i \in DOMAIN emitted["primary"] |-> Bare(emitted["primary"][i].window)]'
          = [i \in DOMAIN emitted["primary"] |-> Bare(emitted["primary"][i].window)]
    BY <2>1 DEF Bare
  <2>10. Log!GiveUp
    BY <2>1, <2>6, <2>8, <2>9 DEF Log!GiveUp
  <2> QED
    BY <2>7, <2>10 DEF Log!Next
<1>13. ASSUME NEW p \in Procs, Flush(p)
       PROVE  SpanInv' /\ [Log!Next]_(Log!vars)
  <2>1. CASE LockFlush(p) \/ CheckDue(p)
    BY <1>6, <2>1
  <2>2. CASE SkipEmpty(p) \/ TakeWindow(p)
    BY <1>7, <1>8, <2>2
  <2>3. CASE Discover(p) \/ Process(p) \/ WriteReport(p) \/ WriteView(p) \/ KeepView(p)
    BY <1>9, <2>3
  <2>4. CASE OfferReport(p) \/ Commit(p)
    BY <1>10, <1>12, <2>4
  <2>5. CASE WriteSink(p) \/ FlushFails(p)
    BY <1>10, <1>11, <1>12, <2>5
  <2> QED
    BY <1>13, <2>1, <2>2, <2>3, <2>4, <2>5 DEF Flush
<1> QED
  BY <1>1, <1>2, <1>3, <1>4, <1>5, <1>13, NextCases

\* A span is retained once, by its own request, on every path.
LEMMA SpanAlways == Spec => []SpanInv
<1>1. Init => SpanInv
  BY SpanInvInit
<1>2. TypeOK /\ Exclusive /\ FlushInv /\ SpanInv /\ [Next]_vars => SpanInv'
  BY LogStep
<1> QED
  BY <1>1, <1>2, Invariant, PTL DEF Spec

\* The windowed runtime implements WindowLog, however its goroutines
\* interleave and whichever calls of a flush fail.
THEOREM EngineRefinesLog == Spec => Refines
<1>1. Init => Log!Init
  BY LogInit
<1>2. TypeOK /\ Exclusive /\ FlushInv /\ SpanInv /\ [Next]_vars
        => [Log!Next]_(Log!vars)
  BY LogStep
<1> QED
  BY <1>1, <1>2, Invariant, SpanAlways, PTL DEF Spec, Refines, Log!Spec
-----------------------------------------------------------------------------
(* How windows move: what every step does to the open window, to the one    *)
(* taken, to the published ones and to what is lost.                         *)

\* What a step does to windows: nothing; or a span joins the open one; or the
\* open one gives way to the next, empty or taken; or the taken one is settled.
Settled == UNCHANGED <<Closing, Published, lost>>
Quiet == Settled /\ UNCHANGED <<current.start, current.end, current.spans>>
Admits == Settled /\ \E r \in Requests : AdmitSpan(r)
Skips == /\ current.spans = {} /\ mu = None
         /\ current' = NewWindow(current.end) /\ UNCHANGED mu
         /\ Settled
Takes == /\ Closing = {} /\ mu = None
         /\ Closing' = {current}
         /\ current' = NewWindow(current.end)
         /\ UNCHANGED <<Published, lost, mu>>
Publishes == /\ \E w : /\ Closing = {w} /\ Closing' = {}
                       /\ Published' = Published \cup {w}
             /\ UNCHANGED <<current, lost, mu>>
GivesUp == /\ \E w : /\ Closing = {w} /\ Closing' = {}
                     /\ lost' = lost \cup w.spans
           /\ UNCHANGED <<current, Published, mu>>

\* Steps that leave every goroutine that holds a window where it is.
LEMMA HoldersStay ==
  ASSUME UNCHANGED <<emitted, lost, taken>>,
         \A p \in Procs : pc'[p] = pc[p] \/ (pc[p] \notin Working /\ pc'[p] \notin Working)
  PROVE  Settled
<1>1. Holders' = Holders /\ \A p \in Holders : pc'[p] = pc[p]
  BY DEF Holders
<1> QED
  BY <1>1 DEF Settled, Closing, Published

\* Every step of the engine is one of six moves of the windows.
LEMMA WindowMoves ==
  ASSUME TypeOK, Exclusive, SpanInv, [Next]_vars
  PROVE  Quiet \/ Admits \/ Skips \/ Takes \/ Publishes \/ GivesUp
<1>0. /\ pc \in [Procs -> Labels] /\ taken \in [Procs -> {None} \cup TakenWindow]
      /\ Ticker \in Procs /\ Closer \in Procs /\ Requests \subseteq Procs
      /\ \A p \in Holders : taken[p] \in TakenWindow
      /\ current \in Window
  BY DEF TypeOK, Procs
<1>1. CASE UNCHANGED vars
  BY <1>1, HoldersStay DEF vars, Quiet
<1>2. CASE Advance \/ Stop
  <2>1. UNCHANGED <<current, emitted, lost, taken, pc>>
    BY <1>2 DEF Advance, Stop, outVars
  <2> QED
    BY <2>1, HoldersStay DEF Quiet
<1>3. CASE WakeTicker \/ StopTicker \/ ReportError \/ StartClose \/ Abort
  <2>1. UNCHANGED <<current, emitted, lost, taken>>
    BY <1>3 DEF WakeTicker, StopTicker, ReportError, StartClose, Abort, outVars
  <2>2. \A p \in Procs : pc'[p] # pc[p] => pc[p] \notin Working /\ pc'[p] \notin Working
    BY <1>0, <1>3 DEF WakeTicker, StopTicker, ReportError, StartClose, Abort, Goto, Working
  <2> QED
    BY <2>1, <2>2, HoldersStay DEF Quiet
<1>4. ASSUME NEW r \in Requests, Receive(r) \/ BeginAdmit(r) \/ EndAdmit(r)
      PROVE  Quiet
  <2>1. UNCHANGED <<current.start, current.end, current.spans>>
    BY <1>0, <1>4 DEF Receive, BeginAdmit, EndAdmit, Window
  <2>2. UNCHANGED <<emitted, lost, taken>>
    BY <1>4 DEF Receive, BeginAdmit, EndAdmit, outVars
  <2>3. \A p \in Procs : pc'[p] # pc[p] => pc[p] \notin Working /\ pc'[p] \notin Working
    BY <1>0, <1>4 DEF Receive, BeginAdmit, EndAdmit, Goto, Working
  <2> QED
    BY <2>1, <2>2, <2>3, HoldersStay DEF Quiet
<1>5. ASSUME NEW r \in Requests, AdmitSpan(r)
      PROVE  Admits
  <2>1. UNCHANGED <<pc, taken, emitted, lost>>
    BY <1>5 DEF AdmitSpan, outVars
  <2> QED
    BY <1>5, <2>1, HoldersStay DEF Admits
<1>6. ASSUME NEW p \in Procs, LockFlush(p) \/ CheckDue(p)
      PROVE  Quiet
  <2>1. UNCHANGED <<current, emitted, lost, taken>>
    BY <1>6 DEF LockFlush, CheckDue, outVars
  <2>2. \A q \in Procs : pc'[q] # pc[q] => pc[q] \notin Working /\ pc'[q] \notin Working
    BY <1>0, <1>6 DEF LockFlush, CheckDue, Goto, Working
  <2> QED
    BY <2>1, <2>2, HoldersStay DEF Quiet
<1>7. ASSUME NEW p \in Procs, SkipEmpty(p)
      PROVE  Quiet \/ Skips
  <2>1. /\ current.spans = {} /\ mu = None /\ UNCHANGED <<emitted, lost, taken, mu>>
        /\ current' = current \/ current' = NewWindow(current.end)
    BY <1>7 DEF SkipEmpty, NothingToFlush, MuFree, outVars
  <2>2. \A q \in Procs : pc'[q] # pc[q] => pc[q] \notin Working /\ pc'[q] \notin Working
    BY <1>0, <1>7 DEF SkipEmpty, Finish, Goto, Working
  <2>3. Settled
    BY <2>1, <2>2, HoldersStay
  <2> QED
    BY <2>1, <2>3 DEF Quiet, Skips
<1>8. ASSUME NEW p \in Procs, TakeWindow(p)
      PROVE  Takes
  <2>1. Holders = {}
    BY <1>8, OneFlush DEF TakeWindow, Holders, Flushing, Working
  <2>2. Holders' = {p} /\ pc'[p] = "discover"
    BY <1>0, <1>8, <2>1 DEF TakeWindow, Goto, Holders, Working
  <2>3. UNCHANGED <<emitted, lost, mu>> /\ mu = None
    BY <1>8 DEF TakeWindow, MuFree, outVars
  <2>4. taken'[p].window = current
    BY <1>0, <1>8 DEF TakeWindow
  <2>5. Closing = {}
    BY <2>1 DEF Closing
  <2>6. Closing' = {current}
    BY <2>2, <2>4 DEF Closing
  <2>7. Published' = Published
    BY <2>3 DEF Published
  <2> QED
    BY <1>8, <2>3, <2>5, <2>6, <2>7 DEF TakeWindow, Takes
<1>9. ASSUME NEW p \in Procs, Discover(p) \/ Process(p) \/ WriteReport(p) \/ WriteView(p) \/ KeepView(p)
      PROVE  Quiet
  <2>1. /\ UNCHANGED <<current, lost>>
        /\ emitted'["primary"] = emitted["primary"]
    BY <1>9 DEF Discover, Process, WriteReport, WriteView, KeepView, outVars, TypeOK, Views
  <2>2. \A q \in Procs : q # p => pc'[q] = pc[q]
    BY <1>0, <1>9 DEF Discover, Process, WriteReport, WriteView, KeepView, Goto
  <2>3. /\ pc[p] # "commit" /\ pc[p] \in Working
        /\ pc'[p] # "commit" /\ pc'[p] \in Working
    BY <1>0, <1>9 DEF Discover, Process, WriteReport, WriteView, KeepView, After, Keep, InPlace, Goto, Working
  <2>4. Holders = {p} /\ Holders' = {p}
    BY <2>2, <2>3, OneFlush DEF Holders, Flushing
  <2>5. taken'[p].window = taken[p].window
    <3>1. CASE UNCHANGED taken
      BY <3>1
    <3>2. CASE Process(p)
      BY <1>0, <2>4, <3>2 DEF Process, TakenWindow
    <3> QED
      BY <1>9, <3>1, <3>2 DEF Discover, WriteReport, WriteView, KeepView
  <2>6. Closing = {taken[p].window} /\ Closing' = {taken[p].window}
    BY <2>3, <2>4, <2>5 DEF Closing
  <2> QED
    BY <2>1, <2>6 DEF Quiet, Settled, Published
<1>10. ASSUME NEW p \in Procs,
              \/ OfferReport(p) /\ pc'[p] = "sink"
              \/ Commit(p)
              \/ FlushFails(p) /\ pc[p] = "commit"
       PROVE  Quiet
  <2>1. UNCHANGED <<current, emitted, lost>>
    BY <1>10 DEF OfferReport, Commit, FlushFails
  <2>2. p \in Holders /\ pc[p] \in Working
    BY <1>10 DEF OfferReport, Commit, Holders, Working
  <2>3. Holders = {p}
    BY <2>2, OneFlush DEF Holders, Flushing
  <2>4. /\ \A q \in Procs : q # p => pc'[q] = pc[q]
        /\ \/ pc[p] = "guard" /\ pc'[p] = "sink" /\ UNCHANGED taken
           \/ pc[p] = "commit" /\ pc'[p] \notin Working
    BY <1>0, <1>10 DEF OfferReport, Commit, FlushFails, Finish, Goto, Working
  <2>5. Closing' = Closing
    BY <2>2, <2>3, <2>4 DEF Closing, Holders, Working
  <2> QED
    BY <2>1, <2>5 DEF Quiet, Settled, Published
<1>11. ASSUME NEW p \in Procs, WriteSink(p)
       PROVE  Publishes
  <2> DEFINE w == taken[p].window
             e == Envelope(p, "primary")
  <2>1. /\ UNCHANGED <<current, lost, mu, taken>>
        /\ pc[p] = "sink" /\ pc'[p] = "commit"
        /\ \A q \in Procs : q # p => pc'[q] = pc[q]
        /\ emitted'["primary"] = Append(emitted["primary"], e)
    BY <1>0, <1>11 DEF WriteSink, Goto, TypeOK, Views
  <2>2. Holders = {p} /\ Holders' = {p}
    BY <2>1, OneFlush DEF Holders, Flushing, Working
  <2>3. Closing = {w} /\ Closing' = {}
    BY <2>1, <2>2 DEF Closing
  <2>4. /\ emitted["primary"] \in Seq([window : Window, base : Nat])
        /\ e \in [window : Window, base : Nat] /\ e.window = w
    BY <1>0, <2>2 DEF TypeOK, Views, Envelope, TakenWindow
  <2> DEFINE n == Len(emitted["primary"])
  <2>5. /\ n \in Nat /\ DOMAIN emitted["primary"] = 1 .. n
        /\ DOMAIN emitted'["primary"] = 1 .. n + 1
        /\ emitted'["primary"][n + 1] = e
        /\ \A i \in 1 .. n : emitted'["primary"][i] = emitted["primary"][i]
    BY <2>1, <2>4, AppendFacts
  <2>6. Published' = Published \cup {w}
    <3>1. e.window = w
      BY <2>4
    <3> HIDE DEF e, w, n
    <3>2. \A i \in 1 .. n + 1 : i \in 1 .. n \/ i = n + 1
      BY <2>5
    <3>3. Published' \subseteq Published \cup {w}
      BY <2>5, <3>1, <3>2 DEF Published
    <3>4. Published \cup {w} \subseteq Published'
      BY <2>5, <3>1 DEF Published
    <3> QED
      BY <3>3, <3>4
  <2> QED
    BY <2>1, <2>3, <2>6 DEF Publishes
<1>12. ASSUME NEW p \in Procs,
              \/ FlushFails(p) /\ pc[p] # "commit"
              \/ OfferReport(p) /\ pc'[p] # "sink"
       PROVE  GivesUp
  <2>1. /\ UNCHANGED <<current, emitted, mu>>
        /\ pc[p] \in Working \ {"commit"} /\ pc'[p] \notin Working
        /\ \A q \in Procs : q # p => pc'[q] = pc[q] /\ taken'[q] = taken[q]
    BY <1>0, <1>12 DEF FlushFails, OfferReport, Finish, Goto, Working, InPlace
  <2>2. Holders = {p} /\ Holders' = {}
    BY <2>1, OneFlush DEF Holders, Flushing
  <2>3. Closing = {taken[p].window} /\ Closing' = {}
    BY <2>1, <2>2 DEF Closing
  <2>4. lost' = lost \cup taken[p].window.spans
    <3>1. CASE FlushFails(p) /\ pc[p] # "commit"
      BY <3>1 DEF FlushFails
    <3>2. CASE OfferReport(p) /\ pc'[p] # "sink"
      <4>1. "primary" \notin taken[p].shown /\ lost' = lost
        BY <1>0, <3>2 DEF OfferReport, Goto
      <4>2. taken[p].window.spans = {}
        BY <2>2, <4>1 DEF SpanInv
      <4> QED
        BY <4>1, <4>2
    <3> QED
      BY <1>12, <3>1, <3>2
  <2> QED
    BY <2>1, <2>3, <2>4 DEF GivesUp, Published
<1>13. ASSUME NEW p \in Procs, Flush(p)
       PROVE  Quiet \/ Skips \/ Takes \/ Publishes \/ GivesUp
  BY <1>6, <1>7, <1>8, <1>9, <1>10, <1>11, <1>12, <1>13 DEF Flush
<1> QED
  BY <1>1, <1>2, <1>3, <1>4, <1>5, <1>13, NextCases
-----------------------------------------------------------------------------
(* Where a request stands in its batch while it holds mu.                   *)

\* The place of a request, and how far it has come in its batch.
LoopInv ==
  /\ \A r \in Requests : pc[r] = "loop" <=> mu = r
  /\ \A r \in Requests :
       /\ idx[r] <= Len(batch[r]) + 1
       /\ pc[r] \notin {"loop", "done"} => idx[r] = 1
       /\ pc[r] = "done" => idx[r] = Len(batch[r]) + 1

\* At the start no admission loop is running.
LEMMA LoopInvInit == Init => LoopInv
BY EngineAssumption DEF Init, LoopInv, Procs

\* A batch is a sequence.
LEMMA BatchLength ==
  ASSUME TypeOK, NEW r \in Requests
  PROVE  Len(batch[r]) \in Nat /\ idx[r] \in Nat \ {0}
<1>1. batch[r] \in Batches \cup {<< >>} /\ idx[r] \in Nat \ {0}
  BY DEF TypeOK
<1> QED
  BY <1>1, EngineAssumption

\* Where the steps of a request lead.
LEMMA LoopInvStep == TypeOK /\ LoopInv /\ [Next]_vars => LoopInv'
<1> SUFFICES ASSUME TypeOK, LoopInv, [Next]_vars PROVE LoopInv'
  OBVIOUS
<1> USE DEF LoopInv
<1>0. /\ pc \in [Procs -> Labels] /\ Requests \subseteq Procs
      /\ Closer \notin Requests /\ Ticker \notin Requests
      /\ Closer \in Procs /\ Ticker \in Procs /\ None \notin Requests
      /\ idx \in [Requests -> Nat \ {0}] /\ batch \in [Requests -> Batches \cup {<< >>}]
  BY EngineAssumption DEF TypeOK, Procs
<1>1. ASSUME UNCHANGED <<mu, idx, batch>>,
             \A r \in Requests : pc'[r] = pc[r] \/ {pc[r], pc'[r]} \cap {"loop", "done"} = {}
      PROVE  LoopInv'
  BY <1>0, <1>1
<1>2. CASE UNCHANGED vars
  BY <1>1, <1>2 DEF vars
<1>3. CASE Advance \/ Stop
  BY <1>1, <1>3 DEF Advance, Stop
<1>4. CASE WakeTicker \/ StopTicker \/ ReportError \/ StartClose \/ Abort
  <2>1. UNCHANGED <<mu, idx, batch>>
    BY <1>4 DEF WakeTicker, StopTicker, ReportError, StartClose, Abort, inVars
  <2>2. \A r \in Requests : pc'[r] = pc[r]
    BY <1>0, <1>4 DEF WakeTicker, StopTicker, ReportError, StartClose, Abort, Goto
  <2> QED
    BY <1>1, <2>1, <2>2
<1>5. ASSUME NEW q \in Requests, Receive(q) PROVE LoopInv'
  <2>1. /\ UNCHANGED <<mu, idx>> /\ pc[q] = "idle" /\ pc'[q] = "enter"
        /\ \A r \in Requests \ {q} : pc'[r] = pc[r] /\ batch'[r] = batch[r]
    BY <1>0, <1>5 DEF Receive, Goto
  <2>2. idx[q] = 1
    BY <2>1
  <2>3. Len(batch'[q]) \in Nat
    <3>1. PICK b \in Batches : batch' = [batch EXCEPT ![q] = b]
      BY <1>5 DEF Receive
    <3> QED
      BY <1>0, <3>1, EngineAssumption
  <2> QED
    BY <2>1, <2>2, <2>3
<1>6. ASSUME NEW q \in Requests, BeginAdmit(q) PROVE LoopInv'
  <2>1. /\ UNCHANGED <<idx, batch>> /\ pc[q] = "admit" /\ pc'[q] = "loop"
        /\ mu = None /\ mu' = q
        /\ \A r \in Requests \ {q} : pc'[r] = pc[r]
    BY <1>0, <1>6 DEF BeginAdmit, Goto, MuFree, inVars
  <2> QED
    BY <1>0, <2>1
<1>7. ASSUME NEW q \in Requests, AdmitSpan(q) PROVE LoopInv'
  <2>1. /\ UNCHANGED <<mu, batch, pc>> /\ pc[q] = "loop" /\ idx[q] <= Len(batch[q])
        /\ idx'[q] = idx[q] + 1
        /\ \A r \in Requests \ {q} : idx'[r] = idx[r]
    BY <1>0, <1>7 DEF AdmitSpan, inVars
  <2> QED
    BY <2>1, BatchLength
<1>8. ASSUME NEW q \in Requests, EndAdmit(q) PROVE LoopInv'
  <2>1. /\ UNCHANGED <<idx, batch>> /\ pc[q] = "loop" /\ pc'[q] = "done"
        /\ mu' = None /\ idx[q] > Len(batch[q])
        /\ \A r \in Requests \ {q} : pc'[r] = pc[r]
    BY <1>0, <1>8 DEF EndAdmit, Goto, inVars
  <2> QED
    BY <1>0, <2>1, BatchLength
<1>9. ASSUME NEW p \in Procs, Flush(p) PROVE LoopInv'
  <2>1. UNCHANGED <<mu, idx, batch>>
    BY <1>9 DEF Flush, LockFlush, CheckDue, SkipEmpty, TakeWindow, Discover, Process,
                WriteReport, WriteView, KeepView, OfferReport, WriteSink, Commit, FlushFails, inVars
  <2>2. pc[p] \notin {"loop", "done"} /\ \A r \in Requests \ {p} : pc'[r] = pc[r]
    BY <1>0, <1>9 DEF Flush, LockFlush, CheckDue, SkipEmpty, TakeWindow, Discover, Process,
                WriteReport, WriteView, KeepView, OfferReport, WriteSink, Commit, FlushFails, Goto, Finish, InPlace, Keep, After
  <2>3. p \in Requests => pc'[p] \notin {"loop", "done"}
    BY <1>0, <1>9 DEF Flush, LockFlush, CheckDue, SkipEmpty, TakeWindow, Discover, Process,
                WriteReport, WriteView, KeepView, OfferReport, WriteSink, Commit, FlushFails, Goto, Finish, After, InPlace, Keep
  <2> QED
    BY <1>1, <2>1, <2>2, <2>3
<1> QED
  BY <1>2, <1>3, <1>4, <1>5, <1>6, <1>7, <1>8, <1>9, NextCases

\* A request keeps its time and its spans once it has passed its flush.
LEMMA RequestKept ==
  ASSUME TypeOK, [Next]_vars, NEW r \in Requests,
         pc[r] \in {"admit", "loop", "done"}
  PROVE  at'[r] = at[r] /\ batch'[r] = batch[r]
<1>0. /\ at \in [Procs -> Nat] /\ batch \in [Requests -> Batches \cup {<< >>}]
      /\ Requests \subseteq Procs
  BY DEF TypeOK, Procs
<1>1. ASSUME NEW q \in Requests, Receive(q)
      PROVE  at'[r] = at[r] /\ batch'[r] = batch[r]
  BY <1>0, <1>1 DEF Receive
<1>2. CASE \E q \in Requests : BeginAdmit(q) \/ AdmitSpan(q) \/ EndAdmit(q)
  BY <1>2 DEF BeginAdmit, AdmitSpan, EndAdmit, inVars
<1>3. ASSUME NEW p \in Procs, Flush(p)
      PROVE  at'[r] = at[r] /\ batch'[r] = batch[r]
  <2>1. CASE LockFlush(p)
    BY <1>0, <2>1 DEF LockFlush, inVars
  <2>2. CASE ~LockFlush(p)
    BY <1>3, <2>2 DEF Flush, CheckDue, SkipEmpty, TakeWindow, Discover, Process, inVars,
                WriteReport, WriteView, KeepView, OfferReport, WriteSink, Commit, FlushFails
  <2> QED
    BY <2>1, <2>2
<1>4. CASE UNCHANGED vars \/ Advance \/ Stop \/ WakeTicker \/ StopTicker \/ ReportError \/ StartClose \/ Abort
  BY <1>4 DEF vars, Advance, Stop, WakeTicker, StopTicker, ReportError, StartClose, Abort, inVars
<1> QED
  BY <1>1, <1>2, <1>3, <1>4, NextCases
-----------------------------------------------------------------------------
(* The fate of spans.  The spans a request has come past are retained or    *)
(* discarded, and no two of the places where they may be share any.          *)

FateInv ==
  /\ \A r \in Requests : \A i \in 1 .. idx[r] - 1 : <<r, i>> \in Retained \cup discarded
  /\ discarded \cap Retained = {}
  /\ \A s \in discarded : \E r \in Requests : \E i \in 1 .. idx[r] - 1 : s = <<r, i>>
  /\ current.spans \cap (SpansOf(Closing) \cup SpansOf(Published) \cup lost) = {}
  /\ SpansOf(Closing) \cap (SpansOf(Published) \cup lost) = {}
  /\ SpansOf(Published) \cap lost = {}

\* Only AdmitSpan moves on in a batch.
LEMMA AdmitSettles ==
  ASSUME NEW r \in Requests, AdmitSpan(r)
  PROVE  Settled
<1>1. UNCHANGED <<pc, taken, emitted, lost>>
  BY DEF AdmitSpan, outVars
<1> QED
  BY <1>1, HoldersStay

\* Only AdmitSpan moves an admission loop on or discards a span.
LEMMA OthersStay ==
  ASSUME [Next]_vars, ~\E r \in Requests : AdmitSpan(r)
  PROVE  UNCHANGED <<idx, discarded>>
<1>1. CASE \E p \in Procs : Flush(p)
  BY <1>1 DEF Flush, LockFlush, CheckDue, SkipEmpty, TakeWindow, Discover, Process,
              WriteReport, WriteView, KeepView, OfferReport, WriteSink, Commit, FlushFails
<1>2. CASE \E r \in Requests : Receive(r) \/ BeginAdmit(r) \/ EndAdmit(r)
  BY <1>2 DEF Receive, BeginAdmit, EndAdmit
<1>3. CASE UNCHANGED vars \/ Advance \/ Stop \/ WakeTicker \/ StopTicker \/ ReportError \/ StartClose \/ Abort
  BY <1>3 DEF vars, Advance, Stop, WakeTicker, StopTicker, ReportError, StartClose, Abort
<1> QED
  BY <1>1, <1>2, <1>3, NextCases

\* What AdmitSpan does with the span it looks at.
LEMMA SpanAdmitted ==
  ASSUME TypeOK, SpanInv, NEW r \in Requests, AdmitSpan(r)
  PROVE  LET s == <<r, idx[r]>> IN
         /\ s \notin Retained
         /\ idx'[r] = idx[r] + 1
         /\ \A q \in Requests \ {r} : idx'[q] = idx[q]
         /\ \/ (current.spans)' = current.spans \cup {s} /\ discarded' = discarded
            \/ (current.spans)' = current.spans /\ discarded' = discarded \cup {s}
<1>1. idx \in [Requests -> Nat \ {0}] /\ current \in Window
  BY DEF TypeOK
<1>2. idx' = [idx EXCEPT ![r] = @ + 1]
  BY DEF AdmitSpan
<1>3. <<r, idx[r]>> \notin Retained
  BY <1>1 DEF SpanInv
<1>4. \/ (current.spans)' = current.spans \cup {<<r, idx[r]>>} /\ discarded' = discarded
      \/ (current.spans)' = current.spans /\ discarded' = discarded \cup {<<r, idx[r]>>}
  BY <1>1 DEF AdmitSpan, Window
<1> QED
  BY <1>1, <1>2, <1>3, <1>4

\* At the start no span has been read, so none needs a fate.
LEMMA FateInvInit == Init => FateInv
<1> SUFFICES ASSUME Init PROVE FateInv
  OBVIOUS
<1>1. Holders = {}
  BY DEF Init, Holders, Working
<1>2. current.spans = {} /\ lost = {} /\ discarded = {} /\ idx = [r \in Requests |-> 1]
  BY DEF Init, AlignWindow, NewWindow
<1>3. Closing = {} /\ Published = {}
  BY <1>1 DEF Init, Closing, Published, Views
<1> QED
  BY <1>2, <1>3 DEF FateInv, SpansOf

\* A span gets its fate when the loop passes it, and keeps one ever after.
LEMMA FateInvStep ==
  TypeOK /\ Exclusive /\ SpanInv /\ FateInv /\ [Next]_vars => FateInv'
<1> SUFFICES ASSUME TypeOK, Exclusive, SpanInv, FateInv, [Next]_vars PROVE FateInv'
  OBVIOUS
<1>1. ASSUME NEW r \in Requests, AdmitSpan(r) PROVE FateInv'
  <2> DEFINE s == <<r, idx[r]>>
  <2>1. /\ s \notin Retained
        /\ idx'[r] = idx[r] + 1
        /\ \A q \in Requests \ {r} : idx'[q] = idx[q]
        /\ \/ (current.spans)' = current.spans \cup {s} /\ discarded' = discarded
           \/ (current.spans)' = current.spans /\ discarded' = discarded \cup {s}
    BY <1>1, SpanAdmitted
  <2>2. UNCHANGED <<SpansOf(Closing), SpansOf(Published), SpansOf(Closing \cup Published), lost>>
    BY <1>1, AdmitSettles DEF Settled, SpansOf
  <2>3. idx \in [Requests -> Nat \ {0}]
    BY DEF TypeOK
  <2>4. s \notin discarded
    BY <2>3 DEF FateInv
  <2>5. Retained' \cup discarded' = Retained \cup discarded \cup {s}
    BY <2>1, <2>2 DEF Retained
  <2>6. \A q \in Requests : \A i \in 1 .. idx'[q] - 1 : i \in 1 .. idx[q] - 1 \/ <<q, i>> = s
    BY <2>1, <2>3
  <2>7. \A q \in Requests : \A i \in 1 .. idx'[q] - 1 : <<q, i>> \in (Retained \cup discarded)'
    BY <2>5, <2>6 DEF FateInv
  <2>8. \A t \in discarded' : \E q \in Requests : \E i \in 1 .. idx'[q] - 1 : t = <<q, i>>
    <3>1. \A q \in Requests : 1 .. idx[q] - 1 \subseteq 1 .. idx'[q] - 1
      BY <2>1, <2>3
    <3>2. idx[r] \in 1 .. idx'[r] - 1
      BY <2>1, <2>3
    <3> QED
      BY <2>1, <3>1, <3>2 DEF FateInv
  <2>9. (discarded \cap Retained)' = {}
    BY <2>1, <2>2, <2>4 DEF FateInv, Retained
  <2>10. s \notin SpansOf(Closing) \cup SpansOf(Published) \cup lost
    BY <2>1 DEF Retained, SpansOf
  <2>11. (current.spans \cap (SpansOf(Closing) \cup SpansOf(Published) \cup lost))' = {}
    BY <2>1, <2>2, <2>10 DEF FateInv
  <2> QED
    BY <2>2, <2>7, <2>8, <2>9, <2>11 DEF FateInv
<1>2. CASE ~\E r \in Requests : AdmitSpan(r)
  <2>1. UNCHANGED <<idx, discarded>>
    BY <1>2, OthersStay
  <2> DEFINE O == current.spans
             C == SpansOf(Closing)
             P == SpansOf(Published)
  <2>2. Retained = O \cup C \cup P \cup lost /\ Retained' = O' \cup C' \cup P' \cup lost'
    BY DEF Retained, SpansOf
  <2>3. \/ UNCHANGED <<O, C, P, lost>>
        \/ C = {} /\ C' = O /\ O' = {} /\ UNCHANGED <<P, lost>>
        \/ C' = {} /\ P' = P \cup C /\ UNCHANGED <<O, lost>>
        \/ C' = {} /\ lost' = lost \cup C /\ UNCHANGED <<O, P>>
    <3>1. current.end \in Nat
      BY DEF TypeOK, Window
    <3>2. NewWindow(current.end).spans = {}
      BY <3>1, NewWindowType
    <3>3. CASE Quiet
      BY <3>3 DEF Quiet, Settled, SpansOf
    <3>4. CASE Skips
      BY <3>2, <3>4 DEF Skips, Settled, SpansOf
    <3>5. CASE Takes
      BY <3>2, <3>5 DEF Takes, SpansOf
    <3>6. CASE Publishes
      <4>1. PICK w : Closing = {w} /\ Closing' = {} /\ Published' = Published \cup {w}
        BY <3>6 DEF Publishes
      <4>2. C = w.spans /\ C' = {} /\ P' = P \cup w.spans
        BY <4>1 DEF SpansOf
      <4> QED
        BY <3>6, <4>2 DEF Publishes
    <3>7. CASE GivesUp
      <4>1. PICK w : Closing = {w} /\ Closing' = {} /\ lost' = lost \cup w.spans
        BY <3>7 DEF GivesUp
      <4>2. C = w.spans /\ C' = {}
        BY <4>1 DEF SpansOf
      <4> QED
        BY <3>7, <4>1, <4>2 DEF GivesUp, SpansOf
    <3> QED
      BY <1>2, <3>3, <3>4, <3>5, <3>6, <3>7, WindowMoves DEF Admits
  <2> HIDE DEF O, C, P
  <2>4. Retained' = Retained
    BY <2>2, <2>3
  <2>5. /\ O \cap (C \cup P \cup lost) = {}
        /\ C \cap (P \cup lost) = {}
        /\ P \cap lost = {}
    BY DEF FateInv, O, C, P
  <2>6. /\ O' \cap (C' \cup P' \cup lost') = {}
        /\ C' \cap (P' \cup lost') = {}
        /\ P' \cap lost' = {}
    BY <2>3, <2>5
  <2> QED
    BY <2>1, <2>4, <2>6 DEF FateInv, O, C, P
<1> QED
  BY <1>1, <1>2

\* LoopInv holds in every reachable state.
LEMMA LoopAlways == Spec => []LoopInv
<1>1. Init => LoopInv
  BY LoopInvInit
<1>2. TypeOK /\ LoopInv /\ [Next]_vars => LoopInv'
  BY LoopInvStep
<1> QED
  BY <1>1, <1>2, Invariant, PTL DEF Spec

\* FateInv holds in every reachable state.
LEMMA FateAlways == Spec => []FateInv
<1>1. Init => FateInv
  BY FateInvInit
<1>2. TypeOK /\ Exclusive /\ SpanInv /\ FateInv /\ [Next]_vars => FateInv'
  BY FateInvStep
<1> QED
  BY <1>1, <1>2, Invariant, SpanAlways, PTL DEF Spec

\* The spans of a request that was answered have a place each, and only one.
LEMMA FateDecided == TypeOK /\ LoopInv /\ FateInv => OneFate
<1> SUFFICES ASSUME TypeOK, LoopInv, FateInv,
                    NEW r \in Requests, pc[r] = "done", NEW s \in Sent(r)
             PROVE  \E home \in DOMAIN Places :
                      \A place \in DOMAIN Places : s \in Places[place] <=> place = home
  BY DEF OneFate
<1> DEFINE C == SpansOf(Closing)
           P == SpansOf(Published)
<1>1. s \in Retained \cup discarded
  <2>1. PICK i \in 1 .. Len(batch[r]) : s = <<r, i>>
    BY DEF Sent
  <2>2. i \in 1 .. idx[r] - 1
    BY BatchLength DEF LoopInv
  <2> QED
    BY <2>1, <2>2 DEF FateInv
<1>2. Retained = current.spans \cup C \cup P \cup lost
  BY DEF Retained, SpansOf
<1>3. /\ DOMAIN Places = {"open", "closing", "published", "lost", "discarded"}
      /\ Places["open"] = current.spans /\ Places["closing"] = C
      /\ Places["published"] = P /\ Places["lost"] = lost
      /\ Places["discarded"] = discarded
  BY DEF Places
<1> DEFINE in(place) == s \in Places[place]
<1> HIDE DEF C, P
<1>4. /\ discarded \cap Retained = {} /\ current.spans \cap (C \cup P \cup lost) = {}
      /\ C \cap (P \cup lost) = {} /\ P \cap lost = {}
  BY DEF FateInv, C, P
<1>5. CASE s \in current.spans
  <2>1. \A place \in DOMAIN Places : s \in Places[place] <=> place = "open"
    BY <1>2, <1>3, <1>4, <1>5
  <2> QED
    BY <1>3, <2>1
<1>6. CASE s \in C
  <2>1. \A place \in DOMAIN Places : s \in Places[place] <=> place = "closing"
    BY <1>2, <1>3, <1>4, <1>6
  <2> QED
    BY <1>3, <2>1
<1>7. CASE s \in P
  <2>1. \A place \in DOMAIN Places : s \in Places[place] <=> place = "published"
    BY <1>2, <1>3, <1>4, <1>7
  <2> QED
    BY <1>3, <2>1
<1>8. CASE s \in lost
  <2>1. \A place \in DOMAIN Places : s \in Places[place] <=> place = "lost"
    BY <1>2, <1>3, <1>4, <1>8
  <2> QED
    BY <1>3, <2>1
<1>9. CASE s \in discarded
  <2>1. \A place \in DOMAIN Places : s \in Places[place] <=> place = "discarded"
    BY <1>2, <1>3, <1>4, <1>9
  <2> QED
    BY <1>3, <2>1
<1> QED
  BY <1>1, <1>2, <1>5, <1>6, <1>7, <1>8, <1>9

\* No span of an answered export falls between the copy that flushCurrent
\* takes and the window that IngestWithSource fills, and none is in two: it
\* waits, or is being flushed, or was published, lost or dropped.
THEOREM EverySpanOneFate == Spec => []OneFate
<1> QED
  BY Invariant, LoopAlways, FateAlways, FateDecided, PTL
-----------------------------------------------------------------------------
(* The counts of a window.  What the holder of mu has still to admit is all  *)
(* that is missing in the counts of the open window.                         *)

Pending == IF mu = None THEN 0 ELSE Len(batch[mu]) + 1 - idx[mu]

\* Spans counted, in the open window and in the ones taken.
CountInv ==
  /\ IsFiniteSet(current.spans)
  /\ Cardinality(current.spans) <= MaxInMemorySpans
  /\ current.observed = Cardinality(current.spans) + current.dropped + Pending
  /\ \A w \in Closing \cup Published : Accounted(w)

\* A new window has no spans and counts none.
LEMMA NoSpans ==
  ASSUME NEW start \in Nat
  PROVE  LET w == NewWindow(start) IN
         /\ IsFiniteSet(w.spans) /\ Cardinality(w.spans) = 0
         /\ w.observed = 0 /\ w.dropped = 0
BY FS_EmptySet DEF NewWindow

\* The open window changes its counts by admission, or by being replaced.
LEMMA CountsStay ==
  ASSUME TypeOK, [Next]_vars,
         ~\E r \in Requests : BeginAdmit(r) \/ AdmitSpan(r) \/ EndAdmit(r)
  PROVE  /\ UNCHANGED mu
         /\ UNCHANGED current \/ (mu = None /\ current' = NewWindow(current.end))
<1>1. CASE \E p \in Procs : Flush(p)
  BY <1>1 DEF Flush, LockFlush, CheckDue, SkipEmpty, TakeWindow, Discover, Process,
              WriteReport, WriteView, KeepView, OfferReport, WriteSink, Commit, FlushFails, MuFree
<1>2. CASE \E r \in Requests : Receive(r)
  BY <1>2 DEF Receive
<1>3. CASE UNCHANGED vars \/ Advance \/ Stop \/ WakeTicker \/ StopTicker \/ ReportError \/ StartClose \/ Abort
  BY <1>3 DEF vars, Advance, Stop, WakeTicker, StopTicker, ReportError, StartClose, Abort
<1> QED
  BY <1>1, <1>2, <1>3, NextCases

\* At the start nothing is counted.
LEMMA CountInvInit == Init => CountInv
<1> SUFFICES ASSUME Init PROVE CountInv
  OBVIOUS
<1>1. Holders = {}
  BY DEF Init, Holders, Working
<1>2. Closing = {} /\ Published = {}
  BY <1>1 DEF Init, Closing, Published, Views
<1>3. now - (now % WindowSize) \in Nat
  <2>1. now \in 0 .. WindowSize - 1 /\ now \in Nat
    BY EngineAssumption DEF Init
  <2> QED
    BY <2>1, ModSmall, EngineAssumption
<1>4. /\ IsFiniteSet(current.spans) /\ Cardinality(current.spans) = 0
      /\ current.observed = 0 /\ current.dropped = 0
  BY <1>3, NoSpans DEF Init, AlignWindow
<1>5. Pending = 0 /\ 0 <= MaxInMemorySpans
  BY EngineAssumption DEF Init, Pending
<1> QED
  BY <1>2, <1>4, <1>5 DEF CountInv

\* One span more, or one drop more, and one less to come.
LEMMA SpanCounted ==
  ASSUME TypeOK, SpanInv, LoopInv, CountInv, NEW r \in Requests, AdmitSpan(r)
  PROVE  /\ IsFiniteSet((current.spans)')
         /\ Cardinality((current.spans)') <= MaxInMemorySpans
         /\ (current.observed)' = Cardinality((current.spans)') + (current.dropped)' + Pending'
<1> DEFINE s == <<r, idx[r]>>
           n == Cardinality(current.spans)
           len == Len(batch[r])
<1>1. /\ current \in Window /\ MaxInMemorySpans \in Nat
      /\ current.dropped \in Nat /\ current.observed \in Nat
      /\ idx[r] \in Nat /\ len \in Nat /\ r # None
  BY EngineAssumption, BatchLength DEF TypeOK, Window
<1>2. IsFiniteSet(current.spans) /\ n \in Nat
  BY FS_CardinalityType DEF CountInv
<1>3. mu = r /\ mu' = r /\ idx'[r] = idx[r] + 1 /\ batch' = batch
  BY SpanAdmitted DEF LoopInv, AdmitSpan, inVars
<1>4. current.observed = n + current.dropped + (len + 1 - idx[r])
  BY <1>1, <1>3 DEF CountInv, Pending
<1>5. Pending' = len - idx[r]
  BY <1>1, <1>3 DEF Pending
<1>6. (current.observed)' = current.observed
  BY <1>1 DEF AdmitSpan, Window
<1>7. CASE (Late(EventTime(batch[r][idx[r]], at[r])) /\ LateDrop) \/ Full
  <2>1. (current.spans)' = current.spans /\ (current.dropped)' = current.dropped + 1
    BY <1>1, <1>7 DEF AdmitSpan, Window
  <2>2. IsFiniteSet((current.spans)') /\ Cardinality((current.spans)') = n
    BY <1>2, <2>1
  <2>3. n <= MaxInMemorySpans
    BY DEF CountInv
  <2> HIDE DEF s, n, len
  <2> QED
    BY <1>1, <1>2, <1>4, <1>5, <1>6, <2>1, <2>2, <2>3
<1>8. CASE ~((Late(EventTime(batch[r][idx[r]], at[r])) /\ LateDrop) \/ Full)
  <2>1. /\ (current.spans)' = current.spans \cup {s}
        /\ (current.dropped)' = current.dropped /\ n < MaxInMemorySpans
    BY <1>1, <1>2, <1>8 DEF AdmitSpan, Full, Window
  <2>2. s \notin current.spans
    BY SpanAdmitted DEF Retained
  <2>3. IsFiniteSet(current.spans \cup {s}) /\ Cardinality(current.spans \cup {s}) = n + 1
    BY <1>2, <2>2, FS_AddElement
  <2> HIDE DEF s, n, len
  <2> QED
    BY <1>1, <1>2, <1>4, <1>5, <1>6, <2>1, <2>3
<1> QED
  BY <1>7, <1>8

\* Each admission counts the span it decides on, in the window that is open.
LEMMA CountInvStep ==
  TypeOK /\ Exclusive /\ SpanInv /\ LoopInv /\ CountInv /\ [Next]_vars => CountInv'
<1> SUFFICES ASSUME TypeOK, Exclusive, SpanInv, LoopInv, CountInv, [Next]_vars
             PROVE  CountInv'
  OBVIOUS
<1>0. /\ current \in Window /\ current.end \in Nat /\ MaxInMemorySpans \in Nat
      /\ current.observed \in Nat /\ current.dropped \in Nat
      /\ Cardinality(current.spans) \in Nat /\ None \notin Requests
  BY EngineAssumption, FS_CardinalityType DEF TypeOK, Window, CountInv
<1>1. mu = None => Pending = 0 /\ Accounted(current)
  BY <1>0 DEF CountInv, Pending, Accounted
<1>2. \A w \in Closing' \cup Published' : Accounted(w)
  BY <1>1, WindowMoves
     DEF Quiet, Admits, Skips, Takes, Publishes, GivesUp, Settled, CountInv
<1> DEFINE Open == /\ IsFiniteSet(current.spans)
                   /\ Cardinality(current.spans) <= MaxInMemorySpans
                   /\ current.observed = Cardinality(current.spans) + current.dropped + Pending
<1>3. Open
  BY DEF CountInv
<1>4. ASSUME NEW r \in Requests, AdmitSpan(r) PROVE Open'
  BY <1>4, SpanCounted
<1>5. ASSUME NEW r \in Requests, BeginAdmit(r) PROVE Open'
  <2>1. /\ mu = None /\ mu' = r /\ UNCHANGED <<idx, batch>>
        /\ idx[r] = 1 /\ Len(batch[r]) \in Nat
    BY <1>5, BatchLength DEF BeginAdmit, MuFree, inVars, LoopInv
  <2>2. /\ (current.spans)' = current.spans /\ (current.dropped)' = current.dropped
        /\ (current.observed)' = current.observed + Len(batch[r])
    BY <1>0, <1>5 DEF BeginAdmit, Window
  <2>3. Pending' = Len(batch[r])
    BY <1>0, <2>1 DEF Pending
  <2> QED
    BY <1>0, <1>1, <1>3, <2>1, <2>2, <2>3
<1>6. ASSUME NEW r \in Requests, EndAdmit(r) PROVE Open'
  <2>1. /\ mu = r /\ mu' = None /\ UNCHANGED current
        /\ Len(batch[r]) \in Nat /\ idx[r] \in Nat /\ idx[r] = Len(batch[r]) + 1
    BY <1>6, BatchLength DEF EndAdmit, LoopInv
  <2>2. Pending = 0 /\ Pending' = 0
    BY <1>0, <2>1 DEF Pending
  <2> QED
    BY <1>3, <2>1, <2>2
<1>7. ASSUME ~\E r \in Requests : BeginAdmit(r) \/ AdmitSpan(r) \/ EndAdmit(r)
      PROVE  Open'
  <2>1. UNCHANGED mu /\ (UNCHANGED current \/ (mu = None /\ current' = NewWindow(current.end)))
    BY <1>7, CountsStay
  <2>2. Pending' = Pending
    <3>1. CASE mu = None
      BY <2>1, <3>1 DEF Pending
    <3>2. CASE mu # None
      <4>1. mu \in Requests /\ pc[mu] = "loop"
        BY <3>2 DEF TypeOK, LoopInv
      <4>2. batch'[mu] = batch[mu] /\ idx' = idx
        BY <1>7, <4>1, RequestKept, OthersStay
      <4> QED
        BY <2>1, <4>2 DEF Pending
    <3> QED
      BY <3>1, <3>2
  <2>3. CASE UNCHANGED current
    <3>1. (current.spans)' = current.spans /\ (current.dropped)' = current.dropped
          /\ (current.observed)' = current.observed
      BY <2>3
    <3> QED
      BY <1>3, <2>2, <3>1
  <2>4. CASE mu = None /\ current' = NewWindow(current.end)
    <3>1. /\ IsFiniteSet((current.spans)') /\ Cardinality((current.spans)') = 0
          /\ (current.observed)' = 0 /\ (current.dropped)' = 0
      BY <1>0, <2>4, NoSpans
    <3> QED
      BY <1>0, <1>1, <2>2, <2>4, <3>1
  <2> QED
    BY <2>1, <2>3, <2>4
<1>8. Open'
  BY <1>4, <1>5, <1>6, <1>7
<1> QED
  BY <1>2, <1>8 DEF CountInv

\* CountInv holds in every reachable state.
LEMMA CountAlways == Spec => []CountInv
<1>1. Init => CountInv
  BY CountInvInit
<1>2. TypeOK /\ Exclusive /\ SpanInv /\ LoopInv /\ CountInv /\ [Next]_vars => CountInv'
  BY CountInvStep
<1> QED
  BY <1>1, <1>2, Invariant, SpanAlways, LoopAlways, PTL DEF Spec

\* The counts that a window is published with agree with its spans, and it
\* has no more of them than max_in_memory_spans: no window is taken while a
\* request is half counted.
THEOREM CountsAgree == Spec => []Accounting
<1>1. TypeOK /\ CountInv => Accounting
  <2> SUFFICES ASSUME TypeOK, CountInv PROVE Accounting
    OBVIOUS
  <2>1. mu = None => Accounted(current)
    <3>1. /\ current.observed \in Nat /\ current.dropped \in Nat
          /\ Cardinality(current.spans) \in Nat
      BY FS_CardinalityType DEF TypeOK, Window, CountInv
    <3> QED
      BY <3>1 DEF CountInv, Pending, Accounted
  <2> QED
    BY <2>1 DEF CountInv, Accounting
<1> QED
  BY <1>1, Invariant, CountAlways, PTL
-----------------------------------------------------------------------------
(* The time of spans.  A request that has come past its flush has no flush   *)
(* left to wait for, though others may move the window on before it admits.   *)

ArrivalInv ==
  /\ \A r \in Requests : pc[r] \in {"admit", "loop"} => at[r] < current.end
  /\ ArrivedInWindow

\* The open window moves on only to a later one.
LEMMA EndAdvances ==
  ASSUME TypeOK, Exclusive, SpanInv, [Next]_vars
  PROVE  (current.end)' >= current.end
<1>1. current.end \in Nat /\ current \in Window
  BY DEF TypeOK, Window
<1>2. NewWindow(current.end).end > current.end
  BY <1>1, NewWindowType
<1>3. NewWindow(current.end).end \in Nat
  BY <1>1, NewWindowType DEF Window
<1>4. ASSUME NEW r \in Requests, AdmitSpan(r) PROVE (current.end)' = current.end
  BY <1>1, <1>4 DEF AdmitSpan, Window
<1> QED
  BY <1>1, <1>2, <1>3, <1>4, WindowMoves DEF Quiet, Admits, Skips, Takes, Publishes, GivesUp

\* A request comes to its second half when no flush is due at its time.
LEMMA AdmittedInTime ==
  ASSUME TypeOK, Exclusive, SpanInv, [Next]_vars, NEW r \in Requests,
         pc[r] \in {"admit", "loop"} => at[r] < current.end,
         pc'[r] \in {"admit", "loop"}
  PROVE  at'[r] < (current.end)'
<1>0. /\ pc \in [Procs -> Labels] /\ Requests \subseteq Procs
      /\ at \in [Procs -> Nat] /\ current.end \in Nat
      /\ r # Closer /\ r # Ticker /\ Closer \in Procs /\ Ticker \in Procs
      /\ current \in Window
  BY EngineAssumption DEF TypeOK, Procs, Window
<1>1. CASE pc[r] \in {"admit", "loop"}
  <2>1. at'[r] = at[r]
    BY <1>1, RequestKept
  <2>2. (current.end)' >= current.end /\ (current.end)' \in Nat
    BY TypeStep, EndAdvances DEF TypeOK, Window
  <2> QED
    BY <1>0, <1>1, <2>1, <2>2
<1>2. CASE pc[r] \notin {"admit", "loop"}
  <2>1. CASE CheckDue(r)
    <3>1. pc'[r] \in {"take", "admit"} /\ UNCHANGED <<at, current>>
          /\ (pc'[r] = "take" \/ ~Due(at[r]))
      BY <1>0, <2>1 DEF CheckDue, Goto
    <3> QED
      BY <1>0, <3>1 DEF Due
  <2>2. CASE ~CheckDue(r)
    <3>1. ASSUME NEW p \in Procs, Flush(p), p # r PROVE pc'[r] = pc[r]
      BY <1>0, <3>1 DEF Flush, LockFlush, CheckDue, SkipEmpty, TakeWindow, Discover, Process,
                WriteReport, WriteView, KeepView, OfferReport, WriteSink, Commit, FlushFails, Goto, Finish
    <3>2. Flush(r) => pc'[r] \notin {"admit", "loop"}
      BY <1>0, <2>2 DEF Flush, LockFlush, SkipEmpty, TakeWindow, Discover, Process, After,
                WriteReport, WriteView, KeepView, OfferReport, WriteSink, Commit, FlushFails, Goto, Finish, InPlace, Keep
    <3>3. ASSUME NEW q \in Requests, Receive(q) \/ BeginAdmit(q) \/ AdmitSpan(q) \/ EndAdmit(q)
          PROVE  pc'[r] = pc[r] \/ pc'[r] \notin {"admit", "loop"}
      BY <1>0, <1>2, <3>3 DEF Receive, BeginAdmit, AdmitSpan, EndAdmit, Goto
    <3>4. CASE UNCHANGED vars \/ Advance \/ Stop \/ WakeTicker \/ StopTicker \/ ReportError \/ StartClose \/ Abort
      BY <1>0, <1>2, <3>4 DEF vars, Advance, Stop, WakeTicker, StopTicker, ReportError, StartClose, Abort, Goto
    <3> QED
      BY <1>2, <3>1, <3>2, <3>3, <3>4, NextCases
  <2> QED
    BY <2>1, <2>2
<1> QED
  BY <1>1, <1>2

\* A window whose spans arrived in time.
Timely(w) ==
  \A s \in w.spans :
    LET r == s[1] IN
    /\ at[r] < w.end
    /\ LateDrop /\ batch[r][s[2]].ebpf => w.start <= at[r]

\* The span that joins is in time for the window it joins.
LEMMA JoinsInTime ==
  ASSUME TypeOK, NEW r \in Requests, AdmitSpan(r), at[r] < current.end, Timely(current)
  PROVE  Timely(current)'
<1>1. current \in Window /\ UNCHANGED <<at, batch>>
  BY DEF TypeOK, AdmitSpan, inVars
<1>2. (current.end)' = current.end /\ (current.start)' = current.start
  BY <1>1 DEF AdmitSpan, Window
<1>3. CASE (current.spans)' = current.spans
  BY <1>1, <1>2, <1>3 DEF Timely
<1>4. CASE (current.spans)' # current.spans
  <2>1. /\ (current.spans)' = current.spans \cup {<<r, idx[r]>>}
        /\ ~(Late(EventTime(batch[r][idx[r]], at[r])) /\ LateDrop)
    BY <1>1, <1>4 DEF AdmitSpan, Window
  <2>2. at[r] \in Nat /\ current.start \in Nat
    BY <1>1 DEF TypeOK, Procs, Window
  <2>3. LateDrop /\ batch[r][idx[r]].ebpf => current.start <= at[r]
    BY <2>1, <2>2, EngineAssumption DEF Late, EventTime
  <2> QED
    BY <1>1, <1>2, <2>1, <2>3 DEF Timely
<1> QED
  BY <1>3, <1>4

\* A span is admitted only if its time is in the open window, or is late and kept.
LEMMA ArrivalInvStep ==
  TypeOK /\ Exclusive /\ SpanInv /\ LoopInv /\ ArrivalInv /\ [Next]_vars => ArrivalInv'
<1> SUFFICES ASSUME TypeOK, Exclusive, SpanInv, LoopInv, ArrivalInv, [Next]_vars
             PROVE  ArrivalInv'
  OBVIOUS
<1>1. \A r \in Requests : pc'[r] \in {"admit", "loop"} => at'[r] < (current.end)'
  BY AdmittedInTime DEF ArrivalInv
<1>2. \A w \in {current} \cup Closing \cup Published : Timely(w)
  BY DEF ArrivalInv, ArrivedInWindow, Timely
<1>3. ASSUME NEW w, w.spans \subseteq Retained, Timely(w) PROVE Timely(w)'
  <2>1. \A s \in w.spans : \E r \in Requests : s[1] = r /\ pc[r] \in {"admit", "loop", "done"}
    <3> TAKE s \in w.spans
    <3>1. PICK r \in Requests : \E i \in 1 .. idx[r] - 1 : s = <<r, i>>
      BY <1>3 DEF SpanInv
    <3>2. idx[r] # 1
      BY <3>1
    <3> QED
      BY <3>1, <3>2 DEF LoopInv
  <2>2. \A s \in w.spans : at'[s[1]] = at[s[1]] /\ batch'[s[1]] = batch[s[1]]
    BY <2>1, RequestKept
  <2> QED
    BY <1>3, <2>2 DEF Timely
<1>4. \A w \in {current} \cup Closing \cup Published : w.spans \subseteq Retained
  BY DEF Retained, SpansOf
<1>5. \A w \in {current} \cup Closing \cup Published : Timely(w)'
  BY <1>2, <1>3, <1>4
<1>6. \A w \in {current'} \cup Closing' \cup Published' : Timely(w)'
  <2>1. current.end \in Nat
    BY DEF TypeOK, Window
  <2>2. NewWindow(current.end).spans = {}
    BY <2>1, NewWindowType
  <2>3. \A w : w.spans = {} => Timely(w)'
    BY DEF Timely
  <2>4. ASSUME NEW r \in Requests, AdmitSpan(r)
        PROVE  \A w \in {current'} \cup Closing' \cup Published' : Timely(w)'
    <3>1. at[r] < current.end
      BY <2>4 DEF ArrivalInv, AdmitSpan
    <3>2. Timely(current)'
      BY <1>2, <2>4, <3>1, JoinsInTime
    <3> QED
      BY <1>5, <2>4, <3>2, AdmitSettles DEF Settled, Timely
  <2>5. CASE Quiet
    <3>1. Timely(current)'
      BY <1>5, <2>5 DEF Quiet, Timely
    <3> QED
      BY <1>5, <2>5, <3>1 DEF Quiet, Settled, Timely
  <2>6. CASE Skips
    BY <1>5, <2>2, <2>3, <2>6 DEF Skips, Settled
  <2>7. CASE Takes
    BY <1>5, <2>2, <2>3, <2>7 DEF Takes
  <2>8. CASE Publishes
    BY <1>5, <2>8 DEF Publishes
  <2>9. CASE GivesUp
    BY <1>5, <2>9 DEF GivesUp, Timely
  <2> QED
    BY <2>4, <2>5, <2>6, <2>7, <2>8, <2>9, WindowMoves DEF Admits
<1>7. ArrivedInWindow'
  BY <1>6 DEF ArrivedInWindow, Timely
<1> QED
  BY <1>1, <1>7 DEF ArrivalInv

\* At the start no window has spans.
LEMMA ArrivalInvInit == Init => ArrivalInv
<1> SUFFICES ASSUME Init PROVE ArrivalInv
  OBVIOUS
<1>1. Holders = {}
  BY DEF Init, Holders, Working
<1>2. current.spans = {} /\ Closing = {} /\ Published = {}
  BY <1>1 DEF Init, AlignWindow, NewWindow, Closing, Published, Views
<1>3. \A r \in Requests : pc[r] = "idle"
  BY DEF Init, Procs
<1> QED
  BY <1>2, <1>3 DEF ArrivalInv, ArrivedInWindow

\* ArrivalInv holds in every reachable state.
LEMMA ArrivalAlways == Spec => []ArrivalInv
<1>1. Init => ArrivalInv
  BY ArrivalInvInit
<1>2. TypeOK /\ Exclusive /\ SpanInv /\ LoopInv /\ ArrivalInv /\ [Next]_vars => ArrivalInv'
  BY ArrivalInvStep
<1> QED
  BY <1>1, <1>2, Invariant, SpanAlways, LoopAlways, PTL DEF Spec

\* No span is published in a window that was over when it arrived, though its
\* handler gave up flushMu before it took mu; and under the "drop" policy an
\* eBPF span is in the very window it arrived in.
THEOREM SpansArriveInWindow == Spec => []ArrivedInWindow
<1>1. ArrivalInv => ArrivedInWindow
  BY DEF ArrivalInv
<1> QED
  BY <1>1, ArrivalAlways, PTL
=============================================================================
