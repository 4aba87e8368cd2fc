------------------------ MODULE SessionDevices_proofs -----------------------
(***************************************************************************)
(* Theorems about sessions and the devices they read, for any number of    *)
(* sessions, readers and DIMMs.                                            *)
(***************************************************************************)
EXTENDS SessionDevices, CollectApi_proofs, FiniteSetTheorems

(***************************************************************************)
(* The composition implements CollectApi: PMW_COMM_Init's steps stutter.   *)
(***************************************************************************)
LEMMA StepsAreSessions == [DevicesNext]_allVars => [Next]_vars
<1>1. ASSUME StartStep PROVE Next \/ UNCHANGED vars
  BY <1>1 DEF StartStep, EnterInit, CreateContext, ReadTopology, FailsBefore,
     InitFails, InitSucceeds, Next, Control
<1>2. ASSUME OtherStep PROVE Next
  BY <1>2 DEF OtherStep, Next, Control
<1> QED
  BY <1>1, <1>2 DEF DevicesNext, allVars

(***************************************************************************)
(* Sessions with the steps of PMW_COMM_Init in them are sessions of        *)
(* CollectApi, so that its theorems hold of them.                          *)
(***************************************************************************)
THEOREM SessionsRefine == DevicesSpec => SessionSpec
<1>1. DevicesInit => Init
  BY DEF DevicesInit
<1> QED
  BY <1>1, StepsAreSessions, PTL DEF DevicesSpec, SessionSpec, Spec

LEMMA DevicesInvInit == DevicesInit => DevicesInv
BY ConstantsOK DEF DevicesInit, Init, DevicesInv, NULL, Thread

LEMMA DevicesInvStep ==
  ASSUME TypeOK, JobOfThread, DevicesInv, [DevicesNext]_allVars
  PROVE  DevicesInv'
<1> USE DEF DevicesInv, devices, NULL, TypeOK, Thread, config, shared, buffer, thread,
            control, reader
<1>1. ASSUME EnterInit \/ CreateContext \/ ReadTopology PROVE DevicesInv'
  <2>1. CASE EnterInit
    BY <2>1 DEF EnterInit, Forgotten, vars
  <2>2. CASE CreateContext
    BY <2>2 DEF CreateContext, vars
  <2>3. CASE ReadTopology
    BY <2>3 DEF ReadTopology, vars, JobOfThread
  <2> QED
    BY <1>1, <2>1, <2>2, <2>3
<1>2. ASSUME FailsBefore PROVE DevicesInv'
  BY <1>2 DEF FailsBefore, StartFails
<1>3. ASSUME InitFails PROVE DevicesInv'
  BY <1>3 DEF InitFails, GivesBack, Freed, StartFails, JobOfThread
<1>4. ASSUME InitSucceeds PROVE DevicesInv'
  BY <1>4 DEF InitSucceeds, StartSucceeds
<1>5. ASSUME OtherStep PROVE DevicesInv'
  <2>1. ASSUME NEW k, CallStart(k), UNCHANGED devices PROVE DevicesInv'
    BY <2>1 DEF CallStart, MayStart
  <2>2. ASSUME CallStop \/ StopStep, UNCHANGED devices PROVE DevicesInv'
    BY <2>2 DEF CallStop, StopStep, StopWakes, StopResets, StopFreesBuffer, StopClosesFile
  <2>3. ASSUME NEW t \in Thread, Collect(t), UNCHANGED devices PROVE DevicesInv'
    <3>1. UNCHANGED control /\ pc[t] # "none" /\ \A s \in Thread : s # t => pc'[s] = pc[s]
      BY <2>3 DEF Collect, ThreadEntry, ThreadSecond, RunsJob, Allocate, AllocateFails,
         Baseline, BaselineFails, InTime, Overrun, Rescale, NextInterval, LeaveLoop,
         LockBuffer, WriteRow, DeviceFails, Publish, Cleanup, ReportSkips, StoreStatus,
         Goto
    <3> QED
      BY <2>3, <3>1
  <2>4. ASSUME NEW r \in Readers, Read(r), UNCHANGED devices PROVE DevicesInv'
    <3>1. UNCHANGED <<ctl, starts, what, pc>>
      BY <2>4 DEF Read, CallRead, ReadAcquires, ReadFails, ReadCopies
    <3> QED
      BY <2>4, <3>1
  <2> QED
    BY <1>5, <2>1, <2>2, <2>3, <2>4 DEF OtherStep, Terminated, vars
<1>6. ASSUME UNCHANGED allVars PROVE DevicesInv'
  BY <1>6 DEF allVars, vars
<1> QED
  BY <1>1, <1>2, <1>3, <1>4, <1>5, <1>6 DEF DevicesNext, StartStep

(***************************************************************************)
(* The life of a thread and the types, in the composition.                 *)
(***************************************************************************)
LEMMA BaseInvariant == DevicesSpec => [](TypeOK /\ JobOfThread /\ DevicesInv)
<1>1. DevicesInit => TypeOK /\ JobOfThread /\ DevicesInv
  BY InitType, SessionInit, DevicesInvInit DEF DevicesInit, SessionInv
<1>2. TypeOK /\ JobOfThread /\ DevicesInv /\ [DevicesNext]_allVars
        => (TypeOK /\ JobOfThread /\ DevicesInv)'
  BY StepsAreSessions, TypeStep, JobStep, DevicesInvStep
<1> QED
  BY <1>1, <1>2, PTL DEF DevicesSpec

(***************************************************************************)
(* No array of devices is freed twice, whatever fails and however often    *)
(* the client starts, retries and stops.                                   *)
(***************************************************************************)
THEOREM DevicesFreedOnce == DevicesSpec => []FreedOnce
<1>1. DevicesInv => FreedOnce
  BY DEF DevicesInv, FreedOnce
<1> QED
  BY <1>1, BaseInvariant, PTL

(***************************************************************************)
(* A collector that has not finished is of the session that is open, and   *)
(* so gp_DIMM_devices is still what its Start made it.                     *)
(***************************************************************************)
LEMMA UnfinishedBefore ==
  ASSUME QuietSessions, TypeOK, JobOfThread, SessionInv', OtherStep,
         NEW t \in Thread, Unfinished(t)'
  PROVE  Unfinished(t)
<1> USE DEF Unfinished, InLoop, TypeOK, thread, control
<1>1. t = starts' /\ ctl' \in {"open", "wait"}
  BY DEF SessionInv, ThreadOfSession
<1>2. CASE UNCHANGED <<pc, job>>
  BY <1>2
<1>3. ASSUME NEW u \in Thread, Collect(u) PROVE Unfinished(t)
  <2>1. CASE ThreadEntry(u) \/ ThreadSecond(u)
    <3>1. "perf" \notin Kinds \/ "health" \notin Kinds
      BY DEF QuietSessions
    <3>2. CASE ThreadEntry(u)
      BY <3>2 DEF ThreadEntry, RunsJob, Goto
    <3>3. CASE ThreadSecond(u)
      BY <3>1, <3>3 DEF ThreadSecond, RunsJob, Goto, JobOfThread
    <3> QED
      BY <2>1, <3>2, <3>3
  <2>2. CASE pc[u] \in {"alloc", "baseline", "adjust", "rescale", "sleep", "lock",
                        "write", "cleanup"} /\ job' = job
    <3>1. \A s \in Thread : s # u => pc'[s] = pc[s]
      BY <1>3, <2>2 DEF Collect, ThreadEntry, ThreadSecond, Allocate, AllocateFails, Baseline, BaselineFails, InTime,
         Overrun, Rescale, NextInterval, LeaveLoop, LockBuffer, WriteRow, DeviceFails,
         Publish, Cleanup, ReportSkips, StoreStatus, Goto
    <3> QED
      BY <2>2, <3>1
  <2>3. CASE ReportSkips(u)
    BY <2>3 DEF ReportSkips, Goto
  <2>4. CASE StoreStatus(u)
    BY <2>4 DEF StoreStatus, Goto, JobOfThread
  <2> QED
    BY <1>3, <2>1, <2>2, <2>3, <2>4 DEF Collect, Allocate, AllocateFails, Baseline,
       BaselineFails, InTime, Overrun, Rescale, NextInterval, LeaveLoop, LockBuffer,
       WriteRow, DeviceFails, Publish, Cleanup
<1>4. ASSUME NEW k, CallStart(k) PROVE UNCHANGED <<pc, job>>
  BY <1>4 DEF CallStart
<1>5. ASSUME CallStop \/ StopStep PROVE UNCHANGED <<pc, job>>
  BY <1>5 DEF CallStop, StopStep, StopWakes, StopResets, StopFreesBuffer, StopClosesFile
<1>6. ASSUME NEW r \in Readers, Read(r) PROVE UNCHANGED <<pc, job>>
  BY <1>6 DEF Read, CallRead, ReadAcquires, ReadFails, ReadCopies
<1>7. ASSUME Terminated PROVE UNCHANGED <<pc, job>>
  BY <1>7 DEF Terminated, vars
<1> QED
  BY <1>2, <1>3, <1>4, <1>5, <1>6, <1>7 DEF OtherStep

LEMMA HasDevicesStep ==
  ASSUME QuietSessions, TypeOK, JobOfThread, DevicesInv, SessionInv, SessionInv',
         CollectorHasDevices, [DevicesNext]_allVars
  PROVE  CollectorHasDevices'
<1>1. SUFFICES ASSUME NEW t \in Thread, Unfinished(t)' PROVE gp_DIMM_devices' = t
  BY DEF CollectorHasDevices
<1>2. t = starts' /\ ctl' \in {"open", "wait"}
  BY <1>1 DEF SessionInv, ThreadOfSession
<1>3. CASE EnterInit \/ CreateContext \/ ReadTopology
  BY <1>2, <1>3 DEF EnterInit, CreateContext, ReadTopology, DevicesInv, vars, control
<1>4. CASE FailsBefore \/ InitFails
  BY <1>2, <1>4 DEF FailsBefore, InitFails, StartFails
<1>5. CASE InitSucceeds
  BY <1>2, <1>5 DEF InitSucceeds, StartSucceeds, DevicesInv
<1>6. CASE OtherStep
  BY <1>1, <1>6, UnfinishedBefore DEF OtherStep, devices, CollectorHasDevices
<1>7. CASE UNCHANGED allVars
  BY <1>1, <1>7 DEF allVars, vars, thread, devices, CollectorHasDevices, Unfinished, InLoop
<1> QED
  BY <1>3, <1>4, <1>5, <1>6, <1>7 DEF DevicesNext, StartStep

(***************************************************************************)
(* Over any number of sessions whose collectors do not fail, a collector   *)
(* reads the devices its own Start found, and they are still allocated.    *)
(***************************************************************************)
THEOREM CollectorsReadTheirDevices ==
  ASSUME QuietSessions PROVE DevicesSpec => []DevicesInSession
<1> DEFINE All == /\ TypeOK /\ JobOfThread /\ DevicesInv
                  /\ SessionInv /\ CollectorHasDevices
<1>1. DevicesInit => All
  <2>1. Init => CollectorHasDevices
    BY DEF Init, CollectorHasDevices, Unfinished, InLoop
  <2> QED
    BY <2>1, InitType, SessionInit, DevicesInvInit DEF DevicesInit, SessionInv
<1>2. All /\ [DevicesNext]_allVars => All'
  BY QuietSessions, StepsAreSessions, TypeStep, SessionStep, DevicesInvStep,
     HasDevicesStep DEF SessionInv
<1>3. All => DevicesInSession
  BY DEF DevicesInSession, DevicesInv, CollectorHasDevices, Unfinished, InLoop
<1> QED
  BY <1>1, <1>2, <1>3, PTL DEF DevicesSpec

(***************************************************************************)
(* Only InitSucceeds adds to the Starts that have succeeded, and it adds   *)
(* one.                                                                    *)
(***************************************************************************)
LEMMA SucceededIsFinite == IsFiniteSet(Succeeded) /\ Cardinality(Succeeded) \in Nat
<1>1. IsFiniteSet(Thread)
  BY ConstantsOK, FS_Interval DEF Thread
<1> QED
  BY <1>1, FS_Subset, FS_CardinalityType DEF Succeeded

LEMMA SucceededGrows ==
  ASSUME TypeOK, JobOfThread, [DevicesNext]_allVars
  PROVE  /\ InitSucceeds => Cardinality(Succeeded') = Cardinality(Succeeded) + 1
                              /\ Succeeded' = Succeeded \cup {starts}
         /\ InitSucceeds \/ Succeeded' = Succeeded
<1> USE DEF Succeeded, TypeOK, control, thread
<1>1. ASSUME InitSucceeds
      PROVE  Cardinality(Succeeded') = Cardinality(Succeeded) + 1
             /\ Succeeded' = Succeeded \cup {starts}
  <2>1. starts \in Thread /\ starts \notin Succeeded
    BY <1>1, ConstantsOK DEF InitSucceeds, StartSucceeds, Thread, JobOfThread
  <2>2. Succeeded' = Succeeded \cup {starts}
    BY <1>1, <2>1 DEF InitSucceeds, StartSucceeds
  <2> HIDE DEF Succeeded
  <2>3. Cardinality(Succeeded \cup {starts}) = Cardinality(Succeeded) + 1
    BY <2>1, SucceededIsFinite, FS_AddElement
  <2> QED
    BY <2>2, <2>3
<1>2. ASSUME UNCHANGED pc PROVE Succeeded' = Succeeded
  BY <1>2
<1>3. ASSUME EnterInit \/ CreateContext \/ ReadTopology \/ FailsBefore \/ InitFails
      PROVE  UNCHANGED pc
  BY <1>3 DEF EnterInit, CreateContext, ReadTopology, FailsBefore, InitFails, StartFails, vars
<1>4. ASSUME NEW t \in Thread, Collect(t) PROVE Succeeded' = Succeeded
  <2>1. pc[t] # "none" /\ pc'[t] # "none"
    BY <1>4 DEF Collect, ThreadEntry, ThreadSecond, RunsJob, Allocate, AllocateFails,
       Baseline, BaselineFails, InTime, Overrun, Rescale, NextInterval, LeaveLoop,
       LockBuffer, WriteRow, DeviceFails, Publish, Cleanup, ReportSkips, StoreStatus, Goto
  <2>2. \A s \in Thread : s # t => pc'[s] = pc[s]
    BY <1>4, CollectFrame
  <2> QED
    BY <2>1, <2>2
<1>5. ASSUME NEW r \in Readers, Read(r) PROVE UNCHANGED pc
  BY <1>5 DEF Read, CallRead, ReadAcquires, ReadFails, ReadCopies
<1>6. ASSUME NEW k, CallStart(k) PROVE UNCHANGED pc
  BY <1>6 DEF CallStart
<1>7. ASSUME CallStop \/ StopStep \/ Terminated \/ UNCHANGED allVars PROVE UNCHANGED pc
  BY <1>7 DEF CallStop, StopStep, StopWakes, StopResets, StopFreesBuffer, StopClosesFile,
     Terminated, vars, allVars
<1> HIDE DEF Succeeded
<1> QED
  BY <1>1, <1>2, <1>3, <1>4, <1>5, <1>6, <1>7 DEF DevicesNext, StartStep, OtherStep

LEMMA KeepStep ==
  ASSUME TypeOK, JobOfThread, DevicesInv, KeepInv, [DevicesNext]_allVars PROVE KeepInv'
<1> USE DEF KeepInv, devices
<1>1. Cardinality(Succeeded) \in Nat /\ contexts \in Nat
  BY SucceededIsFinite DEF DevicesInv
<1>2. CASE InitSucceeds
  BY <1>1, <1>2, SucceededGrows DEF InitSucceeds, StartSucceeds
<1>3. CASE EnterInit \/ CreateContext \/ ReadTopology \/ FailsBefore \/ InitFails
  <2>1. Succeeded' = Succeeded
    BY <1>3, SucceededGrows DEF InitSucceeds, StartSucceeds, EnterInit, CreateContext,
       ReadTopology, FailsBefore, InitFails, StartFails, vars, control
  <2>2. CASE EnterInit
    BY <2>1, <2>2 DEF EnterInit, vars, control
  <2>3. CASE CreateContext
    BY <1>1, <2>1, <2>3 DEF CreateContext, vars, control
  <2>4. CASE ReadTopology
    BY <2>1, <2>4 DEF ReadTopology, vars, control, DevicesInv
  <2>5. CASE FailsBefore
    BY <2>1, <2>5 DEF FailsBefore, StartFails
  <2>6. CASE InitFails
    <3>1. /\ UNCHANGED starts /\ init \in {"context", "devices"} /\ init' = "out"
          /\ contexts' = IF contexts > 0 THEN contexts - 1 ELSE 0
      BY <2>6 DEF InitFails, StartFails, GivesBack
    <3>2. ASSUME NEW s \in Thread, arrays'[s] = "live" PROVE s \in Succeeded
      <4>1. arrays[s] = "live" /\ (gp_DIMM_devices = NULL \/ s # gp_DIMM_devices)
        BY <2>6, <3>2 DEF InitFails, GivesBack, Freed, DevicesInv
      <4>2. init = "devices" => gp_DIMM_devices = starts
        BY DEF DevicesInv
      <4>3. NULL \notin Thread
        BY DEF NULL, Thread
      <4> QED
        BY <4>1, <4>2, <4>3
    <3> QED
      BY <1>1, <2>1, <3>1, <3>2
  <2> QED
    BY <1>3, <2>2, <2>3, <2>4, <2>5, <2>6
<1>4. CASE OtherStep \/ UNCHANGED allVars
  <2>1. UNCHANGED devices
    BY <1>4 DEF OtherStep, allVars
  <2>2. init = "devices" => ctl = "opening"
    BY DEF DevicesInv
  <2>3. ctl = "opening" => UNCHANGED starts
    <3>1. ASSUME NEW k, CallStart(k) PROVE ctl # "opening"
      BY <3>1 DEF CallStart, MayStart
    <3>2. ASSUME NEW t \in Thread, Collect(t) PROVE UNCHANGED starts
      BY <3>2, CollectFrame DEF control
    <3>3. ASSUME NEW r \in Readers, Read(r) PROVE UNCHANGED starts
      BY <3>3 DEF Read, CallRead, ReadAcquires, ReadFails, ReadCopies, control
    <3>4. ASSUME CallStop \/ StopStep \/ Terminated \/ UNCHANGED allVars PROVE UNCHANGED starts
      BY <3>4 DEF CallStop, StopStep, StopWakes, StopResets, StopFreesBuffer,
         StopClosesFile, Terminated, vars, allVars, control
    <3> QED
      BY <1>4, <3>1, <3>2, <3>3, <3>4 DEF OtherStep
  <2>4. Succeeded' = Succeeded \/ InitSucceeds
    BY SucceededGrows
  <2> QED
    BY <1>2, <2>1, <2>2, <2>3, <2>4
<1> QED
  BY <1>2, <1>3, <1>4 DEF DevicesNext, StartStep

(***************************************************************************)
(* Whatever fails and however often the client starts and stops: what a    *)
(* process keeps allocated is an array of devices and at most one context  *)
(* for each Start that succeeded.                                          *)
(***************************************************************************)
THEOREM FailedStartsKeepNothing == DevicesSpec => []OnlySuccessKeeps
<1>1. DevicesInit => KeepInv
  <2>1. DevicesInit => contexts = 0 /\ init = "out" /\ \A s \in Thread : arrays[s] # "live"
    BY DEF DevicesInit
  <2> QED
    BY <2>1, SucceededIsFinite DEF KeepInv
<1>2. DevicesInv /\ KeepInv => OnlySuccessKeeps
  <2> SUFFICES ASSUME DevicesInv, KeepInv, ctl # "opening"
               PROVE  Kept = Succeeded /\ contexts <= Cardinality(Succeeded)
    BY DEF OnlySuccessKeeps, Succeeded
  <2>1. init = "out"
    BY DEF DevicesInv
  <2>2. Kept = Succeeded
    BY <2>1 DEF KeepInv, DevicesInv, Kept, Succeeded
  <2> QED
    BY <2>1, <2>2, SucceededIsFinite DEF KeepInv, DevicesInv
<1> QED
  BY <1>1, <1>2, BaseInvariant, KeepStep, PTL DEF DevicesSpec
=============================================================================
