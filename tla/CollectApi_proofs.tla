-------------------------- MODULE CollectApi_proofs -------------------------
(***************************************************************************)
(* Theorems about collection sessions, for every value of the constants.   *)
(***************************************************************************)
EXTENDS CollectProperties, TLAPS

(***************************************************************************)
(* Types.                                                                  *)
(***************************************************************************)
LEMMA QuotientType ==
  ASSUME NEW n \in Int, NEW k \in 1 .. 2 PROVE Quotient(n, 2 ^ k) \in Int
<1>1. ASSUME NEW p \in {2, 4} PROVE Quotient(n, p) \in Int
  BY DEF Quotient
<1>2. 2 ^ k \in {2, 4}
  <2>1. CASE k = 1
    BY <2>1
  <2>2. CASE k = 2
    BY <2>2
  <2> QED
    BY <2>1, <2>2
<1> QED
  BY <1>1, <1>2

LEMMA InitType == Init => TypeOK
BY ConstantsOK DEF Init, TypeOK, ControlAt, ThreadAt, ReadResult, NoRead, Zeroed,
   Row, RowSet, Flag, Thread, DIMM

LEMMA ControlType == TypeOK /\ Control => TypeOK'
<1> USE ConstantsOK DEF TypeOK, shared, config, buffer, thread, control, reader, Flag
<1>1. ASSUME TypeOK, NEW k \in Kinds \cup {"none"}, CallStart(k) PROVE TypeOK'
  BY <1>1 DEF CallStart, ControlAt
<1>2. ASSUME TypeOK, StartFails PROVE TypeOK'
  BY <1>2 DEF StartFails, ReportsDone, ControlAt
<1>3. ASSUME TypeOK, StartSucceeds PROVE TypeOK'
  BY <1>3 DEF StartSucceeds, ControlAt, ThreadAt, Thread
<1>4. ASSUME TypeOK, CallStop PROVE TypeOK'
  BY <1>4 DEF CallStop, ControlAt
<1>5. ASSUME TypeOK, StopStep PROVE TypeOK'
  BY <1>5 DEF StopStep, StopWakes, StopResets, ForgetsEnd, Resetting,
     StopFreesBuffer, StopClosesFile, ControlAt
<1> QED
  BY <1>1, <1>2, <1>3, <1>4, <1>5 DEF Control

LEMMA CollectType == ASSUME NEW t \in Thread PROVE TypeOK /\ Collect(t) => TypeOK'
<1> USE ConstantsOK DEF TypeOK, shared, config, buffer, thread, control, reader,
                        Flag, ThreadAt, Goto
<1>1. ASSUME TypeOK, ThreadEntry(t) PROVE TypeOK'
  BY <1>1 DEF ThreadEntry, RunsJob
<1>2. ASSUME TypeOK, ThreadSecond(t) PROVE TypeOK'
  BY <1>2 DEF ThreadSecond, RunsJob
<1>3. ASSUME TypeOK, Allocate(t) PROVE TypeOK'
  BY <1>3 DEF Allocate, Zeroed, Row, RowSet
<1>4. ASSUME TypeOK, AllocateFails(t) PROVE TypeOK'
  BY <1>4 DEF AllocateFails, Fails
<1>5. ASSUME TypeOK, Baseline(t) \/ BaselineFails(t) PROVE TypeOK'
  BY <1>5 DEF Baseline, BaselineFails, Fails
<1>6. ASSUME TypeOK, InTime(t) PROVE TypeOK'
  BY <1>6 DEF InTime
<1>7. ASSUME TypeOK, NEW itr \in 1 .. 2, Overrun(t, itr) PROVE TypeOK'
  BY <1>7 DEF Overrun, Fails
<1>8. ASSUME TypeOK, NEW itr \in 1 .. 2, Rescale(t, itr) PROVE TypeOK'
  <2>1. Quotient(loops - iter[t], 2 ^ itr) \in Int
    <3>1. loops - iter[t] \in Int
      BY <1>8
    <3> QED
      BY <3>1, <1>8, QuotientType
  <2> QED
    BY <1>8, <2>1 DEF Rescale
<1>9. ASSUME TypeOK, NextInterval(t) \/ LeaveLoop(t) PROVE TypeOK'
  BY <1>9 DEF NextInterval, LeaveLoop
<1>10. ASSUME TypeOK, LockBuffer(t) PROVE TypeOK'
  BY <1>10 DEF LockBuffer, Acquires
<1>11. ASSUME TypeOK, WriteRow(t) PROVE TypeOK'
  <2>1. dimm[t] \in DIMM /\ Row(iter[t]) \in RowSet
    BY <1>11 DEF WriteRow, Row, RowSet, DIMM
  <2>2. rows' \in [DIMM -> RowSet]
    BY <1>11, <2>1 DEF WriteRow
  <2>3. dimm' \in [Thread -> 0 .. count]
    BY <1>11, <2>1 DEF WriteRow, DIMM
  <2> QED
    BY <1>11, <2>2, <2>3 DEF WriteRow
<1>12. ASSUME TypeOK, DeviceFails(t) PROVE TypeOK'
  <2>1. [stamp |-> iter[t], metrics |-> rows[dimm[t]].metrics] \in RowSet
    BY <1>12 DEF DeviceFails, RowSet, DIMM
  <2>2. rows' \in [DIMM -> RowSet]
    BY <1>12, <2>1 DEF DeviceFails
  <2> QED
    BY <1>12, <2>2 DEF DeviceFails, Fails, Releases
<1>13. ASSUME TypeOK, Publish(t) PROVE TypeOK'
  BY <1>13 DEF Publish, Releases
<1>14. ASSUME TypeOK, Cleanup(t) PROVE TypeOK'
  BY <1>14 DEF Cleanup, ReportsDone
<1>15. ASSUME TypeOK, ReportSkips(t) \/ StoreStatus(t) PROVE TypeOK'
  BY <1>15 DEF ReportSkips, StoreStatus
<1> QED
  BY <1>1, <1>2, <1>3, <1>4, <1>5, <1>6, <1>7, <1>8, <1>9, <1>10, <1>11, <1>12,
     <1>13, <1>14, <1>15 DEF Collect

LEMMA ReadType == ASSUME NEW r \in Readers PROVE TypeOK /\ Read(r) => TypeOK'
<1> USE ConstantsOK DEF TypeOK, shared, config, buffer, thread, control, ReadResult
<1>1. ASSUME TypeOK, CallRead(r) PROVE TypeOK'
  BY <1>1 DEF CallRead
<1>2. ASSUME TypeOK, ReadAcquires(r) PROVE TypeOK'
  BY <1>2 DEF ReadAcquires
<1>3. ASSUME TypeOK, ReadFails(r) PROVE TypeOK'
  BY <1>3 DEF ReadFails
<1>4. ASSUME TypeOK, ReadCopies(r) PROVE TypeOK'
  <2>1. Zeroed \in [DIMM -> RowSet]
    BY DEF Zeroed, Row, RowSet
  <2> QED
    BY <1>4, <2>1 DEF ReadCopies
<1> QED
  BY <1>1, <1>2, <1>3, <1>4 DEF Read

LEMMA TypeStep == TypeOK /\ [Next]_vars => TypeOK'
<1>1. ASSUME TypeOK, UNCHANGED vars PROVE TypeOK'
  BY <1>1 DEF TypeOK, vars, control, config, shared, buffer, thread, reader
<1> QED
  BY <1>1, ControlType, CollectType, ReadType DEF Next, Terminated

(***************************************************************************)
(* Every variable keeps its type, for any number of readers, DIMMs,        *)
(* sessions and intervals, and whatever fails.                             *)
(***************************************************************************)
THEOREM TypeCorrect == Spec => []TypeOK
BY InitType, TypeStep, PTL DEF Spec

(***************************************************************************)
(* The life of a thread, whatever fails.                                   *)
(***************************************************************************)
LEMMA JobStep ==
  ASSUME TypeOK, JobOfThread, [Next]_vars PROVE JobOfThread'
<1> USE DEF JobOfThread, TypeOK, config, thread, control
<1>1. ASSUME Control PROVE JobOfThread'
  <2>1. ASSUME NEW k, CallStart(k) PROVE JobOfThread'
    BY <2>1 DEF CallStart, MayStart, Thread
  <2>2. ASSUME StartSucceeds PROVE JobOfThread'
    BY <2>2 DEF StartSucceeds, Thread
  <2>3. ASSUME StartFails \/ CallStop \/ StopStep PROVE JobOfThread'
    BY <2>3 DEF StartFails, ReportsDone, CallStop, StopStep, StopWakes, StopResets,
       StopFreesBuffer, StopClosesFile
  <2> QED
    BY <1>1, <2>1, <2>2, <2>3 DEF Control
<1>2. ASSUME NEW t \in Thread, Collect(t) PROVE JobOfThread'
  <2>1. UNCHANGED control /\ pc[t] # "none"
    BY <1>2 DEF Collect, ThreadEntry, ThreadSecond, Allocate, AllocateFails,
       Baseline, BaselineFails, InTime, Overrun, Rescale, NextInterval, LeaveLoop,
       LockBuffer, WriteRow, DeviceFails, Publish, Cleanup, ReportSkips, StoreStatus
  <2>2. CASE ThreadEntry(t) \/ ThreadSecond(t)
    BY <2>1, <2>2 DEF ThreadEntry, ThreadSecond, RunsJob, Goto
  <2>3. CASE StoreStatus(t)
    BY <2>1, <2>3 DEF StoreStatus, Goto
  <2>4. CASE /\ UNCHANGED job /\ pc[t] \notin {"entry", "second", "exit"}
             /\ \E label : Goto(t, label) /\ label \notin {"none", "entry", "second"}
    BY <2>1, <2>4 DEF Goto
  <2>5. CASE UNCHANGED <<job, pc>>
    BY <2>1, <2>5
  <2> QED
    BY <1>2, <2>2, <2>3, <2>4, <2>5 DEF Collect, Allocate, AllocateFails, Baseline,
       BaselineFails, InTime, Overrun, Rescale, NextInterval, LeaveLoop,
       LockBuffer, WriteRow, DeviceFails, Publish, Cleanup, ReportSkips
<1>3. ASSUME NEW r \in Readers, Read(r) PROVE JobOfThread'
  BY <1>3 DEF Read, CallRead, ReadAcquires, ReadFails, ReadCopies
<1>4. ASSUME UNCHANGED vars PROVE JobOfThread'
  BY <1>4 DEF vars
<1> QED
  BY <1>1, <1>2, <1>3, <1>4 DEF Next, Terminated

(***************************************************************************)
(* Any number of sessions, none of which fails once it is started.         *)
(***************************************************************************)
QuietSessions ==
  /\ Faults \subseteq {"start"} /\ "retry" \notin Client
  /\ "perf" \notin Kinds \/ "health" \notin Kinds

LEMMA SessionInit == Init => SessionInv
BY ConstantsOK DEF Init, SessionInv, NeverFailed, JobOfThread, ThreadOfSession,
   Unfinished, InLoop, Thread

LEMMA SessionControl ==
  ASSUME QuietSessions, TypeOK, SessionInv, Control PROVE SessionInv'
<1> USE DEF QuietSessions, SessionInv, NeverFailed, JobOfThread, ThreadOfSession,
            Unfinished, InLoop, Thread, TypeOK, shared, config, buffer, thread,
            control, reader
<1>1. ASSUME NEW k, CallStart(k) PROVE SessionInv'
  BY <1>1 DEF CallStart, MayStart
<1>2. ASSUME StartFails PROVE SessionInv'
  BY <1>2 DEF StartFails, ReportsDone
<1>3. ASSUME StartSucceeds PROVE SessionInv'
  BY <1>3 DEF StartSucceeds
<1>4. ASSUME CallStop PROVE SessionInv'
  BY <1>4 DEF CallStop
<1>5. ASSUME StopWakes PROVE SessionInv'
  BY <1>5 DEF StopWakes, CollectionOver
<1>6. ASSUME StopResets \/ StopFreesBuffer \/ StopClosesFile PROVE SessionInv'
  BY <1>6 DEF StopResets, ForgetsEnd, StopFreesBuffer, StopClosesFile
<1> QED
  BY <1>1, <1>2, <1>3, <1>4, <1>5, <1>6 DEF Control, StopStep

LEMMA SessionCollect ==
  ASSUME QuietSessions, TypeOK, SessionInv, NEW t \in Thread, Collect(t)
  PROVE  SessionInv'
<1> USE DEF QuietSessions, SessionInv, NeverFailed, JobOfThread, ThreadOfSession,
            Unfinished, InLoop, TypeOK, shared, config, buffer, thread,
            control, reader, Goto
<1>1. ASSUME ThreadEntry(t) PROVE SessionInv'
  BY <1>1 DEF ThreadEntry, RunsJob
<1>2. ASSUME ThreadSecond(t) PROVE SessionInv'
  BY <1>2 DEF ThreadSecond, RunsJob
<1>3. ASSUME Allocate(t) PROVE SessionInv'
  BY <1>3 DEF Allocate
<1>4. ASSUME Baseline(t) \/ InTime(t) PROVE SessionInv'
  BY <1>4 DEF Baseline, InTime
<1>5. ASSUME NextInterval(t) \/ LeaveLoop(t) PROVE SessionInv'
  BY <1>5 DEF NextInterval, LeaveLoop
<1>6. ASSUME LockBuffer(t) \/ WriteRow(t) PROVE SessionInv'
  BY <1>6 DEF LockBuffer, WriteRow
<1>7. ASSUME Publish(t) PROVE SessionInv'
  BY <1>7 DEF Publish
<1>8. ASSUME Cleanup(t) PROVE SessionInv'
  BY <1>8 DEF Cleanup, ReportsDone
<1>9. ASSUME ReportSkips(t) \/ StoreStatus(t) PROVE SessionInv'
  BY <1>9 DEF ReportSkips, StoreStatus
<1>10. ASSUME NEW itr \in 1 .. 2, Rescale(t, itr) PROVE SessionInv'
  BY <1>10 DEF Rescale
<1>11. /\ ~AllocateFails(t) /\ ~BaselineFails(t) /\ ~DeviceFails(t)
       /\ \A itr \in 1 .. 2 : ~Overrun(t, itr)
  BY DEF AllocateFails, BaselineFails, DeviceFails, Overrun
<1> QED
  BY <1>1, <1>2, <1>3, <1>4, <1>5, <1>6, <1>7, <1>8, <1>9, <1>10, <1>11 DEF Collect

LEMMA SessionRead ==
  ASSUME SessionInv, NEW r \in Readers, Read(r) PROVE SessionInv'
BY DEF SessionInv, NeverFailed, JobOfThread, ThreadOfSession, Unfinished, InLoop,
   Read, CallRead, ReadAcquires, ReadFails, ReadCopies, shared, config, buffer,
   thread, control

LEMMA SessionStep ==
  ASSUME QuietSessions, TypeOK, SessionInv, [Next]_vars PROVE SessionInv'
<1>1. CASE UNCHANGED vars
  BY <1>1 DEF SessionInv, NeverFailed, JobOfThread, ThreadOfSession, Unfinished,
     InLoop, vars, control, config, shared, buffer, thread, reader
<1> QED
  BY <1>1, SessionControl, SessionCollect, SessionRead DEF Next, Terminated

LEMMA SessionSafe == SessionInv => CollectorBufferSafe /\ OneCollector
BY DEF SessionInv, ThreadOfSession, CollectorBufferSafe, OneCollector, Unfinished,
   InLoop

(***************************************************************************)
(* However often the client starts and stops, and even if it reads while   *)
(* it stops: as long as no collector fails, a failed Start is followed by  *)
(* Stop, and one kind of collection is asked for, no collector writes to a *)
(* buffer that Stop has freed and no two collectors run.                   *)
(***************************************************************************)
THEOREM SessionsAreSafe ==
  ASSUME QuietSessions PROVE Spec => [](CollectorBufferSafe /\ OneCollector)
<1>1. TypeOK /\ SessionInv /\ [Next]_vars => SessionInv'
  BY SessionStep, QuietSessions
<1> QED
  BY <1>1, SessionInit, TypeCorrect, SessionSafe, PTL DEF Spec

(***************************************************************************)
(* In such sessions a thread that has not set collection_done belongs to   *)
(* the session that is open: the invariant behind Stop's wait.             *)
(***************************************************************************)
THEOREM QuietInvariant == ASSUME QuietSessions PROVE Spec => []SessionInv
<1>1. TypeOK /\ SessionInv /\ [Next]_vars => SessionInv'
  BY SessionStep, QuietSessions
<1> QED
  BY <1>1, SessionInit, TypeCorrect, PTL DEF Spec

(***************************************************************************)
(* What a collector leaves alone: the controller, the file, what the       *)
(* session collects, and the other threads.                                *)
(***************************************************************************)
LEMMA CollectFrame ==
  ASSUME TypeOK, NEW t \in Thread, Collect(t)
  PROVE  /\ UNCHANGED <<control, infinite_run, using_api, what, fout, reader>>
         /\ pc[t] \notin {"none", "exit"}
         /\ \A s \in Thread : s # t =>
              pc'[s] = pc[s] /\ job'[s] = job[s] /\ iter'[s] = iter[s]
                /\ ret_code'[s] = ret_code[s]
BY DEF Collect, ThreadEntry, ThreadSecond, RunsJob, Allocate, AllocateFails, Baseline,
   BaselineFails, InTime, Overrun, Rescale, NextInterval, LeaveLoop, LockBuffer,
   WriteRow, DeviceFails, Publish, Cleanup, ReportSkips, StoreStatus, Fails, Goto,
   TypeOK, config, thread

(***************************************************************************)
(* The output file of a session is open from its Start to the end of its   *)
(* Stop, whatever fails after Start.                                       *)
(***************************************************************************)
LEMMA FileInit == Init => FileInv
BY DEF Init, FileInv, Resetting

LEMMA FileStep == ASSUME TypeOK, JobOfThread, FileInv, [Next]_vars PROVE FileInv'
<1> USE DEF FileInv, Resetting, TypeOK, Thread, control
<1>1. ASSUME NEW k, CallStart(k) PROVE FileInv'
  BY <1>1 DEF CallStart
<1>2. ASSUME StartFails PROVE FileInv'
  BY <1>2 DEF StartFails, JobOfThread, thread
<1>3. ASSUME StartSucceeds PROVE FileInv'
  BY <1>3 DEF StartSucceeds
<1>4. ASSUME CallStop \/ StopStep PROVE FileInv'
  BY <1>4 DEF CallStop, StopStep, StopWakes, StopResets, StopFreesBuffer,
     StopClosesFile, thread
<1>5. ASSUME NEW t \in Thread, Collect(t) PROVE FileInv'
  <2>1. /\ UNCHANGED <<ctl, starts, fout>> /\ pc[t] # "none"
        /\ \A s \in Thread : s # t => pc'[s] = pc[s]
    BY <1>5, CollectFrame
  <2>2. ctl # "idle" => starts \in Thread
    BY ConstantsOK
  <2> QED
    BY <2>1, <2>2
<1>6. ASSUME NEW r \in Readers, Read(r) PROVE FileInv'
  BY <1>6 DEF Read, CallRead, ReadAcquires, ReadFails, ReadCopies, thread
<1>7. ASSUME UNCHANGED vars PROVE FileInv'
  BY <1>7 DEF vars, thread
<1> QED
  BY <1>1, <1>2, <1>3, <1>4, <1>5, <1>6, <1>7 DEF Next, Control, Terminated

(***************************************************************************)
(* The thread of a session gets its own buffer.                            *)
(***************************************************************************)
LEMMA OwnBufferStep ==
  ASSUME QuietSessions, TypeOK, SessionInv, FileInv, OwnBuffer, [Next]_vars
  PROVE  OwnBuffer'
<1> USE DEF OwnBuffer, Resetting, Unallocated, QuietSessions, TypeOK, Thread, control, config,
            thread, buffer, shared
<1>1. ASSUME NEW k, CallStart(k) PROVE OwnBuffer'
  BY <1>1 DEF CallStart
<1>2. ASSUME StartFails PROVE OwnBuffer'
  BY <1>2 DEF StartFails
<1>3. ASSUME StartSucceeds PROVE OwnBuffer'
  BY <1>3 DEF StartSucceeds
<1>4. ASSUME CallStop \/ StopStep PROVE OwnBuffer'
  BY <1>4 DEF CallStop, StopStep, StopWakes, StopResets, StopFreesBuffer,
     StopClosesFile, FileInv
<1>5. ASSUME NEW t \in Thread, Collect(t) PROVE OwnBuffer'
  <2>1. UNCHANGED control
    BY <1>5, CollectFrame
  <2>2. CASE ctl = "idle"
    BY <2>1, <2>2
  <2>3. ctl # "idle" => starts \in Thread
    BY ConstantsOK
  <2>4. CASE t # starts /\ starts \in Thread
    <3>1. UNCHANGED <<control, what>> /\ pc'[starts] = pc[starts] /\ job'[starts] = job[starts]
      BY <1>5, <2>4, CollectFrame
    <3>2. UNCHANGED output_buf \/ output_buf' = "live"
      <4>1. ~AllocateFails(t)
        BY DEF AllocateFails
      <4> QED
        BY <1>5, <4>1 DEF Collect, ThreadEntry, ThreadSecond, Allocate, Baseline,
           BaselineFails, InTime, Overrun, Rescale, NextInterval, LeaveLoop, LockBuffer,
           WriteRow, DeviceFails, Publish, Cleanup, ReportSkips, StoreStatus
    <3> QED
      BY <3>1, <3>2
  <2>5. CASE t = starts /\ (ThreadEntry(t) \/ ThreadSecond(t))
    <3>1. pc[starts] # "none"
      BY <2>5 DEF ThreadEntry, ThreadSecond
    <3>2. /\ Unfinished(t) => ctl \in {"open", "wait"}
          /\ pc[t] = "entry" => job[t] = "none"
      BY DEF SessionInv, ThreadOfSession, JobOfThread
    <3>3. CASE ThreadEntry(t)
      BY <2>5, <3>1, <3>2, <3>3, ConstantsOK DEF ThreadEntry, RunsJob, Goto, Unfinished
    <3>4. CASE ThreadSecond(t)
      BY <2>5, <3>1, <3>2, <3>4, ConstantsOK DEF ThreadSecond, RunsJob, Goto, Unfinished
    <3> QED
      BY <2>5, <3>3, <3>4
  <2>6. CASE t = starts /\ Allocate(t)
    <3>1. using_api = 1
      BY <2>6 DEF Allocate, SessionInv, ThreadOfSession, Unfinished
    <3> QED
      BY <2>6, <3>1 DEF Allocate, Goto
  <2>7. CASE t = starts /\ ~ThreadEntry(t) /\ ~ThreadSecond(t) /\ ~Allocate(t)
    <3>1. ~AllocateFails(t)
      BY DEF AllocateFails
    <3>2. /\ UNCHANGED <<control, what, job, output_buf>>
          /\ pc[t] \notin {"none", "entry", "alloc", "second"}
      BY <1>5, <2>7, <3>1 DEF Collect, Baseline, BaselineFails, InTime, Overrun, Rescale,
         NextInterval, LeaveLoop, LockBuffer, WriteRow, DeviceFails, Publish, Cleanup,
         ReportSkips, StoreStatus
    <3>3. pc'[t] \notin {"none", "entry", "alloc"} /\ (pc'[t] = "second" => job[t] = "perf")
      BY <1>5, <2>7, <3>1 DEF Collect, Baseline, BaselineFails, InTime, Overrun, Rescale,
         NextInterval, LeaveLoop, LockBuffer, WriteRow, DeviceFails, Publish, Cleanup,
         ReportSkips, StoreStatus, Goto
    <3> QED
      BY <2>7, <3>2, <3>3
  <2> QED
    BY <1>5, <2>2, <2>3, <2>4, <2>5, <2>6, <2>7
<1>6. ASSUME NEW r \in Readers, Read(r) PROVE OwnBuffer'
  BY <1>6 DEF Read, CallRead, ReadAcquires, ReadFails, ReadCopies
<1>7. ASSUME UNCHANGED vars PROVE OwnBuffer'
  BY <1>7 DEF vars
<1> QED
  BY <1>1, <1>2, <1>3, <1>4, <1>5, <1>6, <1>7 DEF Next, Control, Terminated

LEMMA QuietReleases == ASSUME QuietSessions PROVE Spec => [](TypeOK /\ SessionInv /\ ReleaseInv)
<1>1. Init => ReleaseInv
  BY FileInit DEF Init, OwnBuffer, ReleaseInv, Resetting
<1>2. TypeOK /\ SessionInv /\ ReleaseInv /\ [Next]_vars => ReleaseInv'
  BY QuietSessions, FileStep, OwnBufferStep DEF ReleaseInv, SessionInv
<1> QED
  BY <1>1, <1>2, TypeCorrect, QuietInvariant, PTL DEF Spec

(***************************************************************************)
(* Over any number of sessions whose collectors do not fail, Stop frees    *)
(* the buffer and closes the file of its own session, once each.           *)
(***************************************************************************)
THEOREM SessionsReleaseOnce == ASSUME QuietSessions PROVE Spec => []ReleaseOnce
<1>1. TypeOK /\ SessionInv /\ ReleaseInv => ReleaseOnce
  <2> SUFFICES ASSUME TypeOK, SessionInv, ReleaseInv, ctl \in {"free", "close"}, pc[starts] # "none"
               PROVE  /\ ctl = "free" /\ ~FailedEarly(starts) => output_buf # "freed"
                      /\ ctl = "close" => fout = "open"
    BY DEF ReleaseOnce
  <2>1. ctl = "free" => ~Unallocated(starts)
    BY ConstantsOK DEF TypeOK, Thread, SessionInv, ThreadOfSession, Unfinished, Unallocated
  <2> QED
    BY <2>1 DEF ReleaseInv, FileInv, OwnBuffer, Resetting
<1> QED
  BY <1>1, QuietReleases, PTL

(***************************************************************************)
(* While Stop polls, somebody is on the way to report.  Both kinds of      *)
(* sessions give what the step needs: a collector that has not finished    *)
(* belongs to the open session, and none has stored an error yet when it   *)
(* comes to store its status.                                              *)
(***************************************************************************)
CollectorInSession ==
  \A t \in Thread :
    /\ Unfinished(t) => ctl \in {"open", "wait"} /\ using_api = 1
    /\ pc[t] = "status" => thread_status = 0

LEMMA AnswerCollect ==
  ASSUME TypeOK, JobOfThread, CollectorInSession, Answerable, NEW t \in Thread, Collect(t)
  PROVE  Answerable'
<1> USE DEF Answerable, CollectionOver, TypeOK, shared, config, control
<1>1. /\ UNCHANGED <<control, using_api, what>>
      /\ \A s \in Thread : s # t =>
           pc'[s] = pc[s] /\ job'[s] = job[s] /\ ret_code'[s] = ret_code[s]
  BY CollectFrame
<1>2. ASSUME NEW s \in Thread, s # t, WillReport(s) PROVE WillReport(s)'
  BY <1>1, <1>2 DEF WillReport, Enters, InLoop
<1>3. ASSUME WillReport(t) PROVE WillReport(t)' \/ CollectionOver'
  <2> USE DEF WillReport, Enters, InLoop, Goto
  <2>1. CASE ThreadEntry(t) \/ ThreadSecond(t)
    <3>1. Unfinished(t) => using_api = 1
      BY DEF CollectorInSession
    <3> QED
      BY <1>1, <1>3, <2>1, <3>1, ConstantsOK DEF ThreadEntry, ThreadSecond, RunsJob,
         JobOfThread, Unfinished
  <2>2. CASE Allocate(t) \/ AllocateFails(t)
    <3>1. using_api = 1
      BY <2>2 DEF Allocate, AllocateFails, CollectorInSession, Unfinished
    <3> QED
      BY <1>1, <2>2, <3>1 DEF Allocate, AllocateFails, Fails
  <2>3. CASE Cleanup(t)
    BY <1>1, <1>3, <2>3 DEF Cleanup, ReportsDone
  <2>4. CASE StoreStatus(t)
    BY <1>1, <1>3, <2>4 DEF StoreStatus
  <2>5. CASE ReportSkips(t)
    BY <1>3, <2>5 DEF ReportSkips
  <2>6. CASE InLoop(t) /\ pc'[t] \in {"baseline", "adjust", "rescale", "sleep", "lock",
                                      "write", "cleanup"}
    BY <1>1, <1>3, <2>6
  <2> QED
    BY <2>1, <2>2, <2>3, <2>4, <2>5, <2>6 DEF Collect, Baseline, BaselineFails, InTime,
       Overrun, Rescale, NextInterval, LeaveLoop, LockBuffer, WriteRow, DeviceFails,
       Publish
<1>4. ASSUME CollectionOver PROVE CollectionOver' \/ WillReport(t)
  <2>1. CASE StoreStatus(t)
    BY <1>4, <2>1 DEF StoreStatus, CollectorInSession
  <2>2. CASE UNCHANGED thread_status /\ (UNCHANGED collection_done \/ ReportsDone)
    BY <1>4, <2>2 DEF ReportsDone
  <2> QED
    BY <2>1, <2>2 DEF Collect, ThreadEntry, ThreadSecond, Allocate, AllocateFails,
       Baseline, BaselineFails, InTime, Overrun, Rescale, NextInterval, LeaveLoop,
       LockBuffer, WriteRow, DeviceFails, Publish, Cleanup, ReportSkips
<1>5. ASSUME CollectionOver \/ \E s \in Thread : WillReport(s)
      PROVE  CollectionOver' \/ \E s \in Thread : WillReport(s)'
  BY <1>2, <1>3, <1>4, <1>5
<1>6. ctl = "failed" => CollectionOver'
  <2>1. ctl = "failed" => collection_done = 1 \/ ~StoreStatus(t)
    BY DEF CollectorInSession, StoreStatus
  <2>2. ~StoreStatus(t) => UNCHANGED thread_status /\ (UNCHANGED collection_done \/ ReportsDone)
    BY DEF Collect, ThreadEntry, ThreadSecond, Allocate, AllocateFails,
       Baseline, BaselineFails, InTime, Overrun, Rescale, NextInterval, LeaveLoop,
       LockBuffer, WriteRow, DeviceFails, Publish, Cleanup, ReportSkips
  <2>3. StoreStatus(t) => UNCHANGED collection_done
    BY DEF StoreStatus
  <2> QED
    BY <2>1, <2>2, <2>3 DEF ReportsDone
<1> QED
  BY <1>1, <1>5, <1>6

LEMMA AnswerStep ==
  ASSUME TypeOK, JobOfThread, CollectorInSession, Answerable, [Next]_vars PROVE Answerable'
<1> USE DEF Answerable, CollectionOver, WillReport, Enters, InLoop, TypeOK, shared, config,
            thread, control
<1>1. ASSUME NEW k, CallStart(k) PROVE Answerable'
  BY <1>1 DEF CallStart
<1>2. ASSUME StartFails PROVE Answerable'
  BY <1>2 DEF StartFails, ReportsDone
<1>3. ASSUME StartSucceeds PROVE Answerable'
  <2>1. starts \in Thread /\ pc'[starts] = "entry" /\ what' # "none" /\ ctl' = "open"
    BY <1>3, ConstantsOK DEF StartSucceeds, Thread
  <2> QED
    BY <2>1
<1>4. ASSUME CallStop PROVE Answerable'
  BY <1>4 DEF CallStop
<1>5. ASSUME StopStep PROVE Answerable'
  BY <1>5 DEF StopStep, StopWakes, StopResets, StopFreesBuffer, StopClosesFile
<1>6. ASSUME NEW r \in Readers, Read(r) PROVE Answerable'
  BY <1>6 DEF Read, CallRead, ReadAcquires, ReadFails, ReadCopies
<1>7. ASSUME UNCHANGED vars PROVE Answerable'
  BY <1>7 DEF vars
<1> QED
  BY <1>1, <1>2, <1>3, <1>4, <1>5, <1>6, <1>7, AnswerCollect DEF Next, Control, Terminated

(***************************************************************************)
(* However often the client starts and stops, and even if it reads while   *)
(* it stops: as long as no collector fails, Stop never polls for an answer *)
(* that nobody is going to give.                                           *)
(***************************************************************************)
THEOREM StopsAreAnswered == ASSUME QuietSessions PROVE Spec => []StopIsAnswered
<1>1. SessionInv => CollectorInSession
  BY DEF SessionInv, NeverFailed, ThreadOfSession, CollectorInSession
<1>2. TypeOK /\ SessionInv /\ Answerable /\ [Next]_vars => Answerable'
  BY <1>1, AnswerStep DEF SessionInv
<1>3. Init => Answerable
  BY DEF Init, Answerable
<1>4. Answerable => StopIsAnswered
  BY DEF Answerable, StopIsAnswered
<1> QED
  BY <1>2, <1>3, <1>4, TypeCorrect, QuietInvariant, PTL DEF Spec

(***************************************************************************)
(* One session, whatever fails in it.                                      *)
(***************************************************************************)
OneSession == MaxStarts = 1 /\ "overlap" \notin Client

LEMMA BufferInit == Init => BufferInv
BY ConstantsOK DEF Init, BufferInv, JobOfThread, OneHolder, CollectorAhead,
   ReadersInSession, PublishedWhole, Settled, Unfinished, InLoop, Thread

LEMMA BufferControl ==
  ASSUME OneSession, TypeOK, BufferInv, JobOfThread', Control PROVE BufferInv'
<1> USE DEF OneSession, BufferInv, JobOfThread, OneHolder, CollectorAhead,
            ReadersInSession, PublishedWhole, Settled, Unfinished, InLoop, Thread, TypeOK,
            shared, config, buffer, thread, control, reader
<1>1. ASSUME NEW k, CallStart(k) PROVE BufferInv'
  BY <1>1 DEF CallStart, MayStart
<1>2. ASSUME StartFails PROVE BufferInv'
  BY <1>2 DEF StartFails, ReportsDone
<1>3. ASSUME StartSucceeds PROVE BufferInv'
  BY <1>3 DEF StartSucceeds
<1>4. ASSUME CallStop PROVE BufferInv'
  BY <1>4 DEF CallStop
<1>5. ASSUME StopWakes PROVE BufferInv'
  BY <1>5 DEF StopWakes, CollectionOver
<1>6. ASSUME StopResets \/ StopFreesBuffer \/ StopClosesFile PROVE BufferInv'
  BY <1>6 DEF StopResets, ForgetsEnd, StopFreesBuffer, StopClosesFile
<1> QED
  BY <1>1, <1>2, <1>3, <1>4, <1>5, <1>6 DEF Control, StopStep

LEMMA BufferCollect ==
  ASSUME OneSession, TypeOK, BufferInv, JobOfThread', NEW t \in Thread, Collect(t)
  PROVE  BufferInv'
<1> USE DEF OneSession, BufferInv, JobOfThread, OneHolder, CollectorAhead,
            ReadersInSession, PublishedWhole, Settled, Unfinished, InLoop, Thread, TypeOK,
            shared, config, buffer, thread, control, reader, Goto
<1>1. ASSUME ThreadEntry(t) \/ ThreadSecond(t) PROVE BufferInv'
  BY <1>1 DEF ThreadEntry, ThreadSecond, RunsJob
<1>2. ASSUME Allocate(t) \/ AllocateFails(t) PROVE BufferInv'
  BY <1>2 DEF Allocate, AllocateFails, Fails, Zeroed, Whole
<1>3. ASSUME Baseline(t) \/ InTime(t) PROVE BufferInv'
  BY <1>3 DEF Baseline, InTime
<1>12. ASSUME BaselineFails(t) PROVE BufferInv'
  BY <1>12 DEF BaselineFails, Fails
<1>4. ASSUME NEW itr \in 1 .. 2, Overrun(t, itr) \/ Rescale(t, itr) PROVE BufferInv'
  BY <1>4 DEF Overrun, Rescale, Fails
<1>5. ASSUME NextInterval(t) \/ LeaveLoop(t) PROVE BufferInv'
  BY <1>5 DEF NextInterval, LeaveLoop
<1>6. ASSUME LockBuffer(t) PROVE BufferInv'
  <2>1. WrittenTo(0, iter[t]) = Whole(iter[t] - 1)
    BY DEF WrittenTo, Whole, DIMM
  <2> QED
    BY <1>6, <2>1 DEF LockBuffer, Acquires
<1>7. ASSUME WriteRow(t) PROVE BufferInv'
  <2>1. rows' = WrittenTo(dimm[t] + 1, iter[t])
    <3>1. /\ rows' = [rows EXCEPT ![dimm[t]] = Row(iter[t])]
          /\ rows = WrittenTo(dimm[t], iter[t]) /\ dimm[t] \in DIMM
      BY <1>7, ConstantsOK DEF WriteRow, DIMM
    <3>2. ASSUME NEW d \in DIMM PROVE rows'[d] = WrittenTo(dimm[t] + 1, iter[t])[d]
      BY <3>1, <3>2, ConstantsOK DEF DIMM, WrittenTo
    <3> QED
      BY <3>1, <3>2 DEF WrittenTo
  <2> QED
    BY <1>7, <2>1 DEF WriteRow
<1>8. ASSUME Publish(t) PROVE BufferInv'
  <2>1. WrittenTo(count, iter[t]) = Whole(iter[t])
    BY ConstantsOK DEF WrittenTo, Whole, DIMM
  <2> QED
    BY <1>8, <2>1 DEF Publish, Releases
<1>9. ASSUME Cleanup(t) PROVE BufferInv'
  BY <1>9 DEF Cleanup, ReportsDone
<1>10. ASSUME ReportSkips(t) \/ StoreStatus(t) PROVE BufferInv'
  <2>1. CASE ReportSkips(t)
    BY <1>10, <2>1 DEF ReportSkips
  <2>2. CASE StoreStatus(t)
    <3>1. /\ pc[t] = "status" /\ job[t] # "none" /\ \A u \in Thread : u = t
          /\ thread_status' = ret_code[t] /\ pc'[t] \in {"second", "exit"}
          /\ ret_code[t] \in {0, 1}
          /\ UNCHANGED <<ret_code, rows, write_count, ctl, starts, what, using_api, iter,
                         job, output_buf, buffer_lock, collection_done, rpc>>
      BY <2>2, ConstantsOK DEF StoreStatus, Flag
    <3>2. OneHolder'
      BY <3>1
    <3>3. ReadersInSession'
      BY <3>1
    <3>4. PublishedWhole'
      BY <3>1
    <3>5. CollectorAhead'
      BY <3>1
    <3> QED
      BY <3>2, <3>3, <3>4, <3>5
  <2> QED
    BY <1>10, <2>1, <2>2
<1>11. ASSUME DeviceFails(t) PROVE BufferInv'
  <2>1. rows' = TornAt(iter[t] - 1, dimm[t]) /\ dimm[t] \in DIMM
    <3>1. /\ rows' = [rows EXCEPT ![dimm[t]] =
                        [stamp |-> iter[t], metrics |-> rows[dimm[t]].metrics]]
          /\ rows = WrittenTo(dimm[t], iter[t]) /\ dimm[t] \in DIMM
      BY <1>11, ConstantsOK DEF DeviceFails, DIMM
    <3>2. ASSUME NEW d \in DIMM PROVE rows'[d] = TornAt(iter[t] - 1, dimm[t])[d]
      BY <3>1, <3>2, ConstantsOK DEF DIMM, WrittenTo, TornAt, Row
    <3> QED
      BY <3>1, <3>2 DEF WrittenTo, TornAt
  <2> QED
    BY <1>11, <2>1 DEF DeviceFails, Fails, Releases
<1> QED
  BY <1>1, <1>2, <1>3, <1>4, <1>5, <1>6, <1>7, <1>8, <1>9, <1>10, <1>11, <1>12 DEF Collect

LEMMA BufferRead ==
  ASSUME OneSession, TypeOK, BufferInv, JobOfThread', NEW r \in Readers, Read(r)
  PROVE  BufferInv'
<1> USE DEF OneSession, BufferInv, OneHolder, CollectorAhead, TypeOK,
            ReadersInSession, PublishedWhole, Settled, Unfinished, InLoop,
            shared, config, buffer, thread, control
<1>1. ASSUME CallRead(r) PROVE BufferInv'
  BY <1>1 DEF CallRead
<1>2. ASSUME ReadAcquires(r) PROVE BufferInv'
  BY <1>2 DEF ReadAcquires, ReadReady
<1>3. ASSUME ReadFails(r) \/ ReadCopies(r) PROVE BufferInv'
  BY <1>3 DEF ReadFails, ReadCopies
<1> QED
  BY <1>1, <1>2, <1>3 DEF Read

LEMMA BufferStep ==
  ASSUME OneSession, TypeOK, BufferInv, [Next]_vars PROVE BufferInv'
<1>1. JobOfThread'
  BY JobStep DEF BufferInv
<1>2. CASE UNCHANGED vars
  BY <1>2 DEF BufferInv, JobOfThread, OneHolder, CollectorAhead, ReadersInSession,
     PublishedWhole, Settled, Unfinished, InLoop, vars, control, config, shared, buffer,
     thread, reader
<1> QED
  BY <1>1, <1>2, BufferControl, BufferCollect, BufferRead DEF Next, Terminated

LEMMA FeedInit == Init => Feed!Init
BY DEF Init, Feed!Init, Feed!Interval, Feed!Mark, NoRead, Zeroed, Row, CollectorFailed

LEMMA FeedControl ==
  ASSUME OneSession, TypeOK, BufferInv, Control PROVE [Feed!Next]_Feed!feedVars
<1> USE DEF Feed!feedVars, shared, config, buffer, thread, control, reader, CollectorFailed
<1>1. ASSUME NEW k, CallStart(k) PROVE UNCHANGED Feed!feedVars
  BY <1>1 DEF CallStart, MayStart
<1>2. ASSUME StartFails PROVE UNCHANGED Feed!feedVars
  BY <1>2 DEF StartFails, ReportsDone
<1>3. ASSUME ctl \notin {"open", "wait"}, ctl' \in {"open", "wait"},
             UNCHANGED <<write_count, got, ret_code>>, write_count = 0,
             ~CollectorFailed
      PROVE  Feed!Open
  BY <1>3 DEF Feed!Open
<1>4. ASSUME StartSucceeds PROVE Feed!Open
  <2>1. write_count = 0 /\ ~CollectorFailed
    BY <1>4, ConstantsOK DEF StartSucceeds, OneSession, BufferInv, CollectorAhead, Thread,
       JobOfThread
  <2> QED
    BY <1>3, <1>4, <2>1 DEF StartSucceeds
<1>5. ASSUME CallStop PROVE Feed!Open \/ UNCHANGED Feed!feedVars
  <2>1. CASE ctl = "open"
    BY <1>5, <2>1 DEF CallStop
  <2>2. CASE ctl = "failed"
    <3>1. write_count = 0 /\ ~CollectorFailed
      BY <2>2, ConstantsOK DEF OneSession, BufferInv, CollectorAhead, Thread, JobOfThread
    <3> QED
      BY <1>3, <1>5, <2>2, <3>1 DEF CallStop
  <2> QED
    BY <1>5, <2>1, <2>2 DEF CallStop
<1>6. ASSUME StopWakes PROVE Feed!Close
  BY <1>6 DEF StopWakes, Feed!Close
<1>7. ASSUME StopResets \/ StopFreesBuffer \/ StopClosesFile
      PROVE  UNCHANGED Feed!feedVars
  BY <1>7 DEF StopResets, StopFreesBuffer, StopClosesFile
<1> QED
  BY <1>1, <1>2, <1>4, <1>5, <1>6, <1>7 DEF Control, StopStep, Feed!Next

LEMMA FeedCollect ==
  ASSUME OneSession, TypeOK, BufferInv, NEW t \in Thread, Collect(t)
  PROVE  [Feed!Next]_Feed!feedVars
<1> USE DEF Feed!feedVars, shared, control, reader
<1>1. ASSUME Publish(t) PROVE Feed!Publish
  <2>1. ctl \in {"open", "wait"} /\ using_api = 1 /\ ret_code[t] = 0
    BY <1>1 DEF Publish, BufferInv, CollectorAhead, Unfinished, InLoop
  <2>2. Thread = {t}
    BY ConstantsOK DEF OneSession, Thread
  <2> QED
    BY <1>1, <2>1, <2>2 DEF Publish, Feed!Publish, thread, CollectorFailed
<1>2. ASSUME Unfinished(t), Fails(t), UNCHANGED <<ctl, write_count, got>> PROVE Feed!Fail
  <2>1. ctl \in {"open", "wait"}
    BY <1>2 DEF BufferInv, CollectorAhead
  <2>2. CollectorFailed'
    BY <1>2 DEF Fails, TypeOK, CollectorFailed
  <2> QED
    BY <1>2, <2>1, <2>2 DEF Feed!Fail
<1>3. ASSUME AllocateFails(t) \/ BaselineFails(t) \/ DeviceFails(t) PROVE Feed!Fail
  BY <1>2, <1>3 DEF AllocateFails, BaselineFails, DeviceFails, Unfinished, InLoop
<1>4. ASSUME NEW itr \in 1 .. 2, Overrun(t, itr), ~UNCHANGED ret_code PROVE Feed!Fail
  BY <1>2, <1>4 DEF Overrun, Unfinished, InLoop
<1>5. ASSUME ThreadEntry(t) \/ ThreadSecond(t) PROVE UNCHANGED ret_code
  BY <1>5, ConstantsOK DEF ThreadEntry, ThreadSecond, RunsJob, BufferInv, JobOfThread,
     CollectorAhead, TypeOK
<1>6. ASSUME UNCHANGED <<ret_code, ctl, write_count, got>> PROVE UNCHANGED Feed!feedVars
  BY <1>6 DEF CollectorFailed
<1>7. ASSUME ~Publish(t) PROVE UNCHANGED <<ctl, write_count, got>>
  BY <1>7 DEF Collect, ThreadEntry, ThreadSecond, Allocate, AllocateFails, Baseline,
     BaselineFails, InTime, Overrun, Rescale, NextInterval, LeaveLoop, LockBuffer,
     WriteRow, DeviceFails, Cleanup, ReportSkips, StoreStatus
<1>8. \/ Publish(t) \/ AllocateFails(t) \/ BaselineFails(t) \/ DeviceFails(t)
      \/ (\E itr \in 1 .. 2 : Overrun(t, itr)) \/ UNCHANGED ret_code
  BY <1>5 DEF Collect, Allocate, Baseline, InTime, Rescale, NextInterval, LeaveLoop,
     LockBuffer, WriteRow, Cleanup, ReportSkips, StoreStatus
<1> QED
  BY <1>1, <1>3, <1>4, <1>6, <1>7, <1>8 DEF Feed!Next

LEMMA FeedRead ==
  ASSUME OneSession, TypeOK, BufferInv, NEW r \in Readers, Read(r)
  PROVE  [Feed!Next]_Feed!feedVars
<1> USE DEF Feed!feedVars, shared, control, thread, CollectorFailed
<1>1. ASSUME CallRead(r) \/ ReadAcquires(r) PROVE UNCHANGED Feed!feedVars
  BY <1>1 DEF CallRead, ReadAcquires
<1>2. ASSUME ReadFails(r) PROVE UNCHANGED Feed!feedVars
  <2>1. \A s \in Readers : got'[s].rows = got[s].rows
    BY <1>2 DEF ReadFails, TypeOK
  <2> QED
    BY <1>2, <2>1 DEF ReadFails
<1>3. ASSUME ReadCopies(r) PROVE Feed!Read(r)
  <2>1. /\ ctl = "open" /\ write_count > 0 /\ output_buf = "live"
        /\ \E t \in Thread : Settled(t)
    BY <1>3, ConstantsOK DEF ReadCopies, BufferInv, ReadersInSession, PublishedWhole,
       OneHolder, OneSession, Thread, TypeOK
  <2>2. got' = [got EXCEPT ![r] = [status |-> "ok", session |-> starts, rows |-> rows]]
    BY <1>3, <2>1 DEF ReadCopies
  <2>3. [s \in Readers |-> got'[s].rows]
          = [[s \in Readers |-> got[s].rows] EXCEPT ![r] = rows]
    BY <2>2 DEF TypeOK
  <2>4. Whole(write_count) = Feed!Interval(write_count)
    BY DEF Whole, Feed!Interval, Feed!Mark, Row
  <2>5. ASSUME NEW k \in DIMM PROVE TornAt(write_count, k) = Feed!Broken(write_count, k)
    BY ConstantsOK DEF TornAt, Feed!Broken, Feed!Mark, Row, DIMM
  <2>6. UNCHANGED <<ctl, write_count, ret_code>>
    BY <1>3 DEF ReadCopies
  <2> QED
    BY <2>1, <2>3, <2>4, <2>5, <2>6 DEF Feed!Read, Settled
<1> QED
  BY <1>1, <1>2, <1>3 DEF Read, Feed!Next

LEMMA FeedStep ==
  ASSUME OneSession, TypeOK, BufferInv, [Next]_vars
  PROVE  [Feed!Next]_Feed!feedVars
<1>1. CASE UNCHANGED vars
  BY <1>1 DEF vars, shared, control, reader, thread, Feed!feedVars, CollectorFailed
<1> QED
  BY <1>1, FeedControl, FeedCollect, FeedRead DEF Next, Terminated

LEMMA ReadsInit == Init => ReadsAreSettled
<1>1. NoRead.status = "none"
  BY DEF NoRead
<1>2. Init => \A r \in Readers : got[r] = NoRead
  BY DEF Init
<1> QED
  BY <1>1, <1>2 DEF ReadsAreSettled

(***************************************************************************)
(* What a Read gave stays explained: a collector that has failed never     *)
(* becomes one that has not.                                               *)
(***************************************************************************)
LEMMA FailureLasts ==
  ASSUME OneSession, TypeOK, BufferInv, [Next]_vars, NEW t \in Thread, ret_code[t] = 1
  PROVE  ret_code'[t] = 1
<1> USE DEF TypeOK, thread
<1>1. ASSUME NEW u \in Thread, Collect(u) PROVE ret_code'[t] = 1
  <2>1. CASE ThreadEntry(u) \/ ThreadSecond(u)
    BY <2>1, ConstantsOK DEF ThreadEntry, ThreadSecond, RunsJob, BufferInv, JobOfThread,
       CollectorAhead
  <2>2. CASE UNCHANGED ret_code \/ Fails(u)
    BY <2>2 DEF Fails
  <2> QED
    BY <1>1, <2>1, <2>2 DEF Collect, Allocate, AllocateFails, Baseline,
       BaselineFails, InTime, Overrun, Rescale, NextInterval, LeaveLoop, LockBuffer,
       WriteRow, DeviceFails, Publish, Cleanup, ReportSkips, StoreStatus
<1>2. ASSUME Control \/ \E r \in Readers : Read(r) PROVE UNCHANGED ret_code
  BY <1>2 DEF Control, CallStart, StartFails, StartSucceeds, CallStop, StopStep,
     StopWakes, StopResets, StopFreesBuffer, StopClosesFile, Read, CallRead,
     ReadAcquires, ReadFails, ReadCopies
<1> QED
  BY <1>1, <1>2 DEF Next, Terminated, vars

LEMMA ReadsStep ==
  ASSUME OneSession, TypeOK, BufferInv, ReadsAreSettled, [Next]_vars
  PROVE  ReadsAreSettled'
<1>1. ASSUME UNCHANGED got PROVE ReadsAreSettled'
  BY <1>1, FailureLasts DEF ReadsAreSettled
<1>2. ASSUME NEW r \in Readers, ReadFails(r) PROVE ReadsAreSettled'
  <2>1. starts \in Thread /\ ret_code[starts] = 1
    BY <1>2, ConstantsOK DEF ReadFails, OneSession, TypeOK, Thread, BufferInv, ReadersInSession,
       CollectorAhead
  <2> QED
    BY <1>2, <2>1, FailureLasts DEF ReadFails, ReadsAreSettled, TypeOK
<1>3. ASSUME NEW r \in Readers, ReadCopies(r) PROVE ReadsAreSettled'
  <2>1. /\ starts \in Thread /\ write_count \in 1 .. MaxInterval
        /\ output_buf = "live" /\ Settled(starts)
    BY <1>3, ConstantsOK DEF ReadCopies, OneSession, TypeOK, Thread, BufferInv,
       ReadersInSession, PublishedWhole, OneHolder
  <2>2. got' = [got EXCEPT ![r] = [status |-> "ok", session |-> starts, rows |-> rows]]
    BY <1>3, <2>1 DEF ReadCopies
  <2>3. UNCHANGED ret_code
    BY <1>3 DEF ReadCopies, thread
  <2> QED
    BY <2>1, <2>2, <2>3 DEF ReadsAreSettled, Settled, TypeOK
<1>4. UNCHANGED got \/ \E r \in Readers : ReadFails(r) \/ ReadCopies(r)
  BY DEF Next, Terminated, vars, reader, Control, CallStart, StartFails,
     StartSucceeds, CallStop, StopStep, StopWakes, StopResets, StopFreesBuffer,
     StopClosesFile, Collect, ThreadEntry, ThreadSecond, Allocate, AllocateFails,
     Baseline, BaselineFails, InTime, Overrun, Rescale, NextInterval, LeaveLoop,
     LockBuffer, WriteRow, DeviceFails, Publish, Cleanup, ReportSkips, StoreStatus,
     Read, CallRead, ReadAcquires
<1> QED
  BY <1>1, <1>2, <1>3, <1>4

(***************************************************************************)
(* The invariant of the first session holds.                               *)
(***************************************************************************)
THEOREM WholeInvariant ==
  ASSUME OneSession PROVE Spec => []WholeInv
<1>1. TypeOK /\ WholeInv /\ [Next]_vars => WholeInv'
  BY BufferStep, ReadsStep, OneSession DEF WholeInv
<1>2. Init => WholeInv
  BY BufferInit, ReadsInit DEF WholeInv
<1> QED
  BY <1>1, <1>2, TypeCorrect, PTL DEF Spec

(***************************************************************************)
(* The first session implements the metrics feed, for any number of        *)
(* readers, DIMMs and intervals, and whatever fails, when nobody reads     *)
(* while Stop is called.                                                   *)
(***************************************************************************)
THEOREM SessionImplementsFeed ==
  ASSUME OneSession PROVE Spec => FeedSpec
<1>1. TypeOK /\ WholeInv /\ [Next]_vars => [Feed!Next]_Feed!feedVars
  BY FeedStep, OneSession DEF WholeInv
<1> QED
  BY <1>1, FeedInit, TypeCorrect, WholeInvariant, PTL DEF Spec, FeedSpec, Feed!Spec

(***************************************************************************)
(* In such a session nobody touches memory that is not allocated.          *)
(***************************************************************************)
THEOREM SessionBufferSafe ==
  ASSUME OneSession PROVE Spec => [](CollectorBufferSafe /\ ReaderBufferSafe)
<1>1. WholeInv => CollectorBufferSafe /\ ReaderBufferSafe
  BY DEF WholeInv, BufferInv, CollectorAhead, ReadersInSession, PublishedWhole,
     CollectorBufferSafe, ReaderBufferSafe, InLoop
<1> QED
  BY <1>1, WholeInvariant, PTL

(***************************************************************************)
(* In such a session a Read that returns 0 gives a finished interval, or   *)
(* that interval as the failure of a DIMM in the next one left it, and     *)
(* never calloc's zeros; one that returns an error has a collector that    *)
(* failed.                                                                 *)
(***************************************************************************)
THEOREM ReadsAreExplained ==
  ASSUME OneSession
  PROVE  Spec => [](SnapshotOrFailed /\ ReadAfterFirstWrite /\ ReadErrorIsCurrent)
<1>1. ASSUME NEW n \in 1 .. MaxInterval, NEW k \in DIMM, NEW d \in DIMM
      PROVE  Whole(n)[d].metrics > 0 /\ TornAt(n, k)[d].metrics > 0
  BY DEF Whole, TornAt, Row
<1>2. ASSUME WholeInv PROVE SnapshotOrFailed
  BY <1>2, ConstantsOK DEF WholeInv, ReadsAreSettled, SnapshotOrFailed
<1>3. ASSUME WholeInv PROVE ReadAfterFirstWrite
  BY <1>1, <1>3, ConstantsOK DEF WholeInv, ReadsAreSettled, ReadAfterFirstWrite
<1>4. ASSUME WholeInv PROVE ReadErrorIsCurrent
  BY <1>4 DEF WholeInv, ReadsAreSettled, ReadErrorIsCurrent
<1> QED
  BY <1>2, <1>3, <1>4, WholeInvariant, PTL

(***************************************************************************)
(* A collector that got no memory has freed the buffer, and does nothing   *)
(* from there on but report its failure.                                   *)
(***************************************************************************)
LEMMA FreedStep ==
  ASSUME OneSession, TypeOK, BufferInv, FreedByCollector, [Next]_vars
  PROVE  FreedByCollector'
<1> USE ConstantsOK DEF OneSession, Thread, FreedByCollector, Resetting, FailedEarly, TypeOK, Flag,
        control, config, shared, buffer, thread
<1>1. ASSUME NEW k, CallStart(k) PROVE FreedByCollector'
  BY <1>1 DEF CallStart
<1>2. ASSUME StartFails PROVE FreedByCollector'
  BY <1>2 DEF StartFails
<1>3. ASSUME StartSucceeds PROVE FreedByCollector'
  BY <1>3 DEF StartSucceeds, BufferInv, JobOfThread
<1>4. ASSUME CallStop \/ StopStep PROVE FreedByCollector'
  <2>1. ctl = "failed" => \A t \in Thread : pc[t] = "none"
    BY DEF BufferInv, CollectorAhead
  <2> QED
    BY <1>4, <2>1 DEF CallStop, StopStep, StopWakes, StopResets, StopFreesBuffer,
       StopClosesFile
<1>5. ASSUME NEW t \in Thread, Collect(t) PROVE FreedByCollector'
  <2>1. UNCHANGED control /\ pc[t] \notin {"none", "exit"} /\ \A s \in Thread : s = t
    BY <1>5, CollectFrame
  <2>2. CASE ThreadEntry(t)
    BY <2>1, <2>2 DEF ThreadEntry, RunsJob, Goto
  <2>3. CASE ThreadSecond(t)
    <3>1. job[t] # "none" => what # "health"
      BY <2>3 DEF ThreadSecond, BufferInv, JobOfThread, CollectorAhead
    <3> QED
      BY <2>1, <2>3, <3>1 DEF ThreadSecond, RunsJob, Goto
  <2>4. CASE Allocate(t)
    BY <2>1, <2>4 DEF Allocate, Goto
  <2>5. CASE AllocateFails(t)
    <3>1. iter[t] = 0 /\ job[t] # "none"
      BY <2>5 DEF AllocateFails, BufferInv, CollectorAhead, JobOfThread
    <3> QED
      BY <2>1, <2>5, <3>1 DEF AllocateFails, Fails, Goto
  <2>6. CASE StoreStatus(t)
    BY <2>1, <2>6 DEF StoreStatus, Goto
  <2>7. CASE /\ pc[t] \notin {"none", "entry", "second", "alloc", "status", "exit"}
             /\ UNCHANGED output_buf /\ pc'[t] # "none"
    BY <2>1, <2>7
  <2> QED
    BY <1>5, <2>2, <2>3, <2>4, <2>5, <2>6, <2>7 DEF Collect, Baseline, BaselineFails,
       InTime, Overrun, Rescale, NextInterval, LeaveLoop, LockBuffer, WriteRow,
       DeviceFails, Publish, Cleanup, ReportSkips, Goto
<1>6. ASSUME NEW r \in Readers, Read(r) PROVE FreedByCollector'
  BY <1>6 DEF Read, CallRead, ReadAcquires, ReadFails, ReadCopies
<1>7. ASSUME UNCHANGED vars PROVE FreedByCollector'
  BY <1>7 DEF vars
<1> QED
  BY <1>1, <1>2, <1>3, <1>4, <1>5, <1>6, <1>7 DEF Next, Control, Terminated

(***************************************************************************)
(* In the first session Stop frees the buffer and closes the file once,    *)
(* whatever fails, unless the collector failed before its first interval.  *)
(***************************************************************************)
THEOREM FirstStopReleasesOnce == ASSUME OneSession PROVE Spec => []ReleaseOnce
<1>1. Init => FileInv /\ FreedByCollector
  BY FileInit DEF Init, FreedByCollector
<1>2. TypeOK /\ WholeInv /\ FileInv /\ FreedByCollector /\ [Next]_vars
        => FileInv' /\ FreedByCollector'
  BY OneSession, FileStep, FreedStep DEF WholeInv, BufferInv
<1>3. TypeOK /\ FileInv /\ FreedByCollector => ReleaseOnce
  BY ConstantsOK DEF TypeOK, Thread, FileInv, FreedByCollector, ReleaseOnce, Resetting
<1> QED
  BY <1>1, <1>2, <1>3, TypeCorrect, WholeInvariant, PTL DEF Spec

(***************************************************************************)
(* In the first session, whatever fails, Stop never polls for an answer    *)
(* that nobody is going to give.                                           *)
(***************************************************************************)
THEOREM FirstStopIsAnswered == ASSUME OneSession PROVE Spec => []StopIsAnswered
<1>1. WholeInv => CollectorInSession
  BY DEF WholeInv, BufferInv, CollectorAhead, CollectorInSession
<1>2. TypeOK /\ WholeInv /\ Answerable /\ [Next]_vars => Answerable'
  BY <1>1, AnswerStep DEF WholeInv, BufferInv
<1>3. Init => Answerable
  BY DEF Init, Answerable
<1>4. Answerable => StopIsAnswered
  BY DEF Answerable, StopIsAnswered
<1> QED
  BY <1>2, <1>3, <1>4, OneSession, TypeCorrect, WholeInvariant, PTL DEF Spec

LEMMA ReadAnswerStep ==
  ASSUME OneSession, TypeOK, BufferInv, ReadAnswerable, [Next]_vars PROVE ReadAnswerable'
<1> USE DEF OneSession, ReadAnswerable, ReadReady, WillAnswer, Enters, InLoop, TypeOK,
            Thread, shared, config, thread, control
<1>1. ASSUME NEW k, CallStart(k) PROVE ReadAnswerable'
  BY <1>1 DEF CallStart
<1>2. ASSUME StartFails PROVE ReadAnswerable'
  BY <1>2 DEF StartFails
<1>3. ASSUME StartSucceeds PROVE ReadAnswerable'
  <2>1. starts \in Thread /\ pc'[starts] = "entry" /\ what' # "none"
    BY <1>3, ConstantsOK DEF StartSucceeds
  <2> QED
    BY <1>3, <2>1 DEF StartSucceeds
<1>4. ASSUME CallStop \/ StopStep PROVE ReadAnswerable'
  BY <1>4 DEF CallStop, StopStep, StopWakes, StopResets, StopFreesBuffer, StopClosesFile
<1>5. ASSUME NEW t \in Thread, Collect(t) PROVE ReadAnswerable'
  <2>1. UNCHANGED <<ctl, starts, infinite_run, using_api, what>> /\ Thread = {t}
    BY <1>5, CollectFrame, ConstantsOK
  <2>2. CASE ctl # "open"
    BY <2>1, <2>2
  <2>3. CASE ctl = "open" /\ ReadReady
    <3>1. ReadReady'
      <4>1. StoreStatus(t) => thread_status = 0
        BY DEF StoreStatus, BufferInv, CollectorAhead
      <4>2. StoreStatus(t) => UNCHANGED write_count
        BY DEF StoreStatus
      <4>3. ~StoreStatus(t) => UNCHANGED thread_status
        BY <1>5 DEF Collect, ThreadEntry, ThreadSecond, Allocate, AllocateFails, Baseline,
           BaselineFails, InTime, Overrun, Rescale, NextInterval, LeaveLoop, LockBuffer,
           WriteRow, DeviceFails, Publish, Cleanup, ReportSkips
      <4>4. ~Publish(t) => UNCHANGED write_count
        BY <1>5 DEF Collect, ThreadEntry, ThreadSecond, Allocate, AllocateFails, Baseline,
           BaselineFails, InTime, Overrun, Rescale, NextInterval, LeaveLoop, LockBuffer,
           WriteRow, DeviceFails, Cleanup, ReportSkips, StoreStatus
      <4>5. Publish(t) => write_count' \in {write_count, write_count + 1}
        BY DEF Publish
      <4> QED
        BY <2>3, <4>1, <4>2, <4>3, <4>4, <4>5
    <3> QED
      BY <2>1, <3>1
  <2>4. CASE ctl = "open" /\ WillAnswer(t)
    <3>1. infinite_run = 1
      BY <2>4
    <3>2. ASSUME ThreadEntry(t) \/ ThreadSecond(t) PROVE WillAnswer(t)'
      BY <2>1, <2>4, <3>1, <3>2, ConstantsOK DEF ThreadEntry, ThreadSecond, RunsJob, Goto, BufferInv,
         JobOfThread, CollectorAhead, Unfinished
    <3>3. ASSUME Publish(t) PROVE ReadReady'
      BY <2>4, <3>3 DEF Publish
    <3>4. ASSUME StoreStatus(t) PROVE ReadReady'
      BY <2>4, <3>4 DEF StoreStatus
    <3>5. ASSUME Cleanup(t) \/ ReportSkips(t) PROVE WillAnswer(t)'
      BY <2>4, <3>5 DEF Cleanup, ReportSkips, Goto
    <3>6. ASSUME AllocateFails(t) \/ BaselineFails(t) \/ DeviceFails(t) PROVE WillAnswer(t)'
      BY <3>6 DEF AllocateFails, BaselineFails, DeviceFails, Fails, Goto
    <3>7. ASSUME pc[t] = "alloc" \/ InLoop(t), pc[t] # "cleanup",
                 pc'[t] \in {"baseline", "adjust", "rescale", "sleep", "lock", "write"}
          PROVE  WillAnswer(t)'
      BY <2>1, <2>4, <3>1, <3>7
    <3>8. ~LeaveLoop(t)
      BY <3>1 DEF LeaveLoop, Continues
    <3>9. \A itr \in 1 .. 2 : Overrun(t, itr) => pc'[t] = "rescale"
      BY <3>1 DEF Overrun, Goto
    <3>10. WillAnswer(t)' \/ ReadReady'
      BY <1>5, <3>2, <3>3, <3>4, <3>5, <3>6, <3>7, <3>8, <3>9 DEF Collect, Allocate,
         Baseline, InTime, Overrun, Rescale, NextInterval, LockBuffer, WriteRow, Goto
    <3> QED
      BY <2>1, <3>1, <3>10
  <2> QED
    BY <2>1, <2>2, <2>3, <2>4
<1>6. ASSUME NEW r \in Readers, Read(r) PROVE ReadAnswerable'
  BY <1>6 DEF Read, CallRead, ReadAcquires, ReadFails, ReadCopies
<1>7. ASSUME UNCHANGED vars PROVE ReadAnswerable'
  BY <1>7 DEF vars
<1> QED
  BY <1>1, <1>2, <1>3, <1>4, <1>5, <1>6, <1>7 DEF Next, Control, Terminated

(***************************************************************************)
(* In the first session, whatever fails, a Read never polls for an         *)
(* interval or an error that is not going to come.                         *)
(***************************************************************************)
THEOREM FirstReadIsAnswered == ASSUME OneSession PROVE Spec => []ReadIsAnswered
<1>1. TypeOK /\ WholeInv /\ ReadAnswerable /\ [Next]_vars => ReadAnswerable'
  BY OneSession, ReadAnswerStep DEF WholeInv
<1>2. Init => ReadAnswerable
  BY DEF Init, ReadAnswerable
<1>3. WholeInv /\ ReadAnswerable => ReadIsAnswered
  BY DEF WholeInv, BufferInv, ReadersInSession, ReadAnswerable, ReadIsAnswered
<1> QED
  BY <1>1, <1>2, <1>3, TypeCorrect, WholeInvariant, PTL DEF Spec

LEMMA HolderStep ==
  ASSUME TypeOK, BufferInv, LockHasHolder, [Next]_vars PROVE LockHasHolder'
<1> USE DEF LockHasHolder, TypeOK, thread, reader
<1>1. ASSUME NEW t \in Thread, Collect(t) PROVE LockHasHolder'
  <2>1. UNCHANGED rpc /\ \A s \in Thread : s # t => pc'[s] = pc[s]
    BY <1>1, CollectFrame
  <2>2. CASE LockBuffer(t)
    BY <2>2 DEF LockBuffer, Goto
  <2>3. CASE WriteRow(t)
    BY <2>3 DEF WriteRow
  <2>4. CASE DeviceFails(t) \/ Publish(t)
    <3>1. using_api = 1
      BY <2>4 DEF DeviceFails, Publish, BufferInv, CollectorAhead, Unfinished, InLoop
    <3> QED
      BY <2>4, <3>1 DEF DeviceFails, Publish, Releases
  <2>5. CASE UNCHANGED buffer_lock /\ pc[t] # "write"
    BY <2>1, <2>5
  <2> QED
    BY <1>1, <2>2, <2>3, <2>4, <2>5 DEF Collect, ThreadEntry, ThreadSecond, Allocate,
       AllocateFails, Baseline, BaselineFails, InTime, Overrun, Rescale, NextInterval,
       LeaveLoop, Cleanup, ReportSkips, StoreStatus
<1>2. ASSUME NEW r \in Readers, Read(r) PROVE LockHasHolder'
  <2>1. CASE CallRead(r)
    <3>1. UNCHANGED <<buffer_lock, pc>> /\ \A s \in Readers : rpc[s] = "copy" => rpc'[s] = "copy"
      BY <2>1 DEF CallRead
    <3> QED
      BY <3>1
  <2>2. CASE ReadAcquires(r)
    BY <2>2 DEF ReadAcquires
  <2>3. CASE ReadFails(r) \/ ReadCopies(r)
    BY <2>3 DEF ReadFails, ReadCopies
  <2> QED
    BY <1>2, <2>1, <2>2, <2>3 DEF Read
<1>3. ASSUME Control PROVE LockHasHolder'
  <2>1. ASSUME StartSucceeds PROVE LockHasHolder'
    <3>1. UNCHANGED <<buffer_lock, rpc>> /\ pc[starts] = "none"
      BY <2>1 DEF StartSucceeds, BufferInv, JobOfThread, Thread
    <3>2. \A t \in Thread : pc[t] = "write" => pc'[t] = "write"
      BY <2>1, <3>1 DEF StartSucceeds
    <3> QED
      BY <3>1, <3>2
  <2>2. ASSUME ~StartSucceeds PROVE UNCHANGED <<buffer_lock, pc, rpc>>
    BY <1>3, <2>2 DEF Control, CallStart, StartFails, CallStop, StopStep, StopWakes,
       StopResets, StopFreesBuffer, StopClosesFile
  <2> QED
    BY <2>1, <2>2
<1>4. ASSUME UNCHANGED vars PROVE LockHasHolder'
  BY <1>4 DEF vars
<1> QED
  BY <1>1, <1>2, <1>3, <1>4 DEF Next, Terminated

(***************************************************************************)
(* In the first session, whatever fails, buffer_lock is never left behind. *)
(***************************************************************************)
THEOREM LockIsGivenBack == ASSUME OneSession PROVE Spec => []LockHasHolder
<1>1. TypeOK /\ WholeInv /\ LockHasHolder /\ [Next]_vars => LockHasHolder'
  BY HolderStep DEF WholeInv
<1>2. Init => LockHasHolder
  BY DEF Init, LockHasHolder
<1> QED
  BY <1>1, <1>2, OneSession, TypeCorrect, WholeInvariant, PTL DEF Spec
=============================================================================
