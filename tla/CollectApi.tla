----------------------------- MODULE CollectApi -----------------------------
(***************************************************************************)
(* A collection session of the library: src/pmw_collect.c behind          *)
(* src/pmw_api.c.                                                          *)
(*                                                                         *)
(* One controller calls PMWAPIStart and PMWAPIStop, any number of Readers  *)
(* call PMWAPIRead, and every successful Start creates a collector thread  *)
(* that fills output_buf once per interval until Stop clears infinite_run. *)
(* The parties share plain globals; only output_buf, write_count and       *)
(* collection_done are (mostly) accessed under buffer_lock.                *)
(*                                                                         *)
(* Abstractions.  A row of output_buf is the number of the interval that   *)
(* wrote its time stamp and of the one that wrote its metrics, 0 as        *)
(* calloc leaves it.  Time is the choice, in adjust_for_overhead, between  *)
(* an interval that fits the sampling time and one that does not.  fout    *)
(* stands for fout and filename, which are acquired and released together. *)
(* what stands for the pair collect_lifetime, collect_health, of which     *)
(* Start lets at most one be set.  Accesses to one int are atomic.  The    *)
(* polls of Stop and Read that find nothing take the lock and give it back *)
(* with nothing changed, so only the poll that ends the wait is a step; no *)
(* fairness is assumed of anyone.                                          *)
(***************************************************************************)
EXTENDS Integers

CONSTANTS
  Readers,      \* threads of the client that call PMWAPIRead
  count,        \* DIMMs found by PMW_COMM_Init
  MaxStarts,    \* bound: calls of PMWAPIStart
  MaxInterval,  \* bound: intervals a collector completes
  Kinds,        \* collections the client asks for
  Faults,       \* what may go wrong: see ConstantsOK
  Client        \* liberties the client takes: see ConstantsOK

(* "start": Start fails; "alloc": calloc fails in the collector; "device": *)
(* a DIMM does not answer; "slow": an interval outlasts its sampling time. *)
(* "overlap": Stop is called while Reads are running; "retry": a failed    *)
(* Start is followed by another Start without a Stop between them.         *)
ASSUME ConstantsOK ==
  /\ count \in Nat \ {0}
  /\ MaxStarts \in Nat
  /\ MaxInterval \in Nat \ {0}
  /\ Kinds \subseteq {"perf", "health"}
  /\ Faults \subseteq {"start", "alloc", "device", "slow"}
  /\ Client \subseteq {"overlap", "retry"}

VARIABLES
  ctl,              \* where the controller is
  starts,           \* calls of Start so far
  loops, infinite_run, using_api, what,
  write_count, collection_done, thread_status,
  buffer_lock,      \* "free" or "held"
  output_buf,       \* "null", "live" or "freed"
  rows,             \* what the memory of output_buf holds
  fout,             \* "null", "open" or "closed"
  pc, job,          \* of each collector thread, and its locals:
  iter, dimm, ret_code, num_skips,
  rpc, got          \* of each reader: where it is, what its last Read gave

config  == <<loops, infinite_run, using_api, what>>
shared  == <<write_count, collection_done, thread_status>>
buffer  == <<output_buf, rows>>
thread  == <<pc, job, iter, dimm, ret_code, num_skips>>
control == <<ctl, starts>>
reader  == <<rpc, got>>
vars == <<control, config, shared, buffer_lock, buffer, fout, thread, reader>>

DIMM == 0 .. count - 1
Thread == 1 .. MaxStarts      \* a collector is named by the Start that made it
Flag == {0, 1}
Row(n) == [stamp |-> n, metrics |-> n]
RowSet == [stamp : Nat, metrics : Nat]
Zeroed == [d \in DIMM |-> Row(0)]
NoRead == [status |-> "none", session |-> 0, rows |-> Zeroed]

Init ==
  /\ ctl = "idle" /\ starts = 0
  /\ loops = 0 /\ infinite_run = 0 /\ using_api = 0 /\ what = "none"
  /\ write_count = 0 /\ collection_done = 0 /\ thread_status = 0
  /\ buffer_lock = "free" /\ output_buf = "null" /\ rows = Zeroed
  /\ fout = "null"
  /\ pc = [t \in Thread |-> "none"] /\ job = [t \in Thread |-> "none"]
  /\ iter = [t \in Thread |-> 0] /\ dimm = [t \in Thread |-> 0]
  /\ ret_code = [t \in Thread |-> 0] /\ num_skips = [t \in Thread |-> 0]
  /\ rpc = [r \in Readers |-> "out"] /\ got = [r \in Readers |-> NoRead]

(***************************************************************************)
(* The controller: PMWAPIStart and PMWAPIStop.                             *)
(***************************************************************************)
\* The definitions whose names end in a capitalised fault (_NotSet, _Kept...)
\* are the ones they precede with that fault planted.  The specification does
\* not use them: they show which properties would notice.
ReportsDone_NotSet == UNCHANGED collection_done
ReportsDone == collection_done' = 1

MayStart == ctl = "idle" \/ (ctl = "failed" /\ "retry" \in Client)

\* Up to the first thing that can fail: the globals of the new session.
\* "none" is a configuration that enables neither collection.
CallStart(k) ==
  /\ MayStart /\ starts < MaxStarts
  /\ ctl' = "opening" /\ starts' = starts + 1
  /\ loops' = 1 /\ using_api' = 1 /\ infinite_run' = 1
  /\ what' = k
  /\ UNCHANGED <<shared, buffer_lock, buffer, fout, thread, reader>>

\* Every failure of Start reports itself as the end of a collection, with
\* the output file as far as it came: not opened, or closed again.
StartFails ==
  /\ ctl = "opening" /\ "start" \in Faults
  /\ buffer_lock = "free"
  /\ ReportsDone
  /\ \/ UNCHANGED fout
     \/ what # "none" /\ fout' \in {"null", "closed"}
  /\ ctl' = "failed"
  /\ UNCHANGED <<starts, config, write_count, thread_status, buffer_lock,
                 buffer, thread, reader>>

StartSucceeds ==
  /\ ctl = "opening" /\ what # "none"
  /\ fout' = "open"
  /\ pc' = [pc EXCEPT ![starts] = "entry"]
  /\ ctl' = "open"
  /\ UNCHANGED <<starts, config, shared, buffer_lock, buffer, job, iter, dimm,
                 ret_code, num_skips, reader>>

CallStop ==
  /\ ctl \in {"open", "failed"}
  /\ "overlap" \in Client \/ \A r \in Readers : rpc[r] = "out"
  /\ infinite_run' = 0
  /\ ctl' = "wait"
  /\ UNCHANGED <<starts, loops, using_api, what, shared, buffer_lock, buffer,
                 fout, thread, reader>>

CollectionOver_NotAwaited == TRUE
CollectionOver == collection_done = 1 \/ thread_status # 0

\* Stop polls under buffer_lock; only the poll that leaves the loop is a step.
StopWakes ==
  /\ ctl = "wait" /\ buffer_lock = "free" /\ CollectionOver
  /\ ctl' = "reset"
  /\ UNCHANGED <<starts, config, shared, buffer_lock, buffer, fout, thread,
                 reader>>

ForgetsEnd_DoneKept == UNCHANGED collection_done
ForgetsEnd == collection_done' = 0

\* Five stores without the lock, one after the other: loops, using_api,
\* collect_health, collection_done, collect_lifetime.  write_count and
\* thread_status are not reset.
Resetting == {"reset", "reset_api", "reset_health", "reset_done", "reset_lifetime"}

StopResets ==
  /\ \/ /\ ctl = "reset" /\ ctl' = "reset_api"
        /\ loops' = 0 /\ UNCHANGED <<using_api, what, collection_done>>
     \/ /\ ctl = "reset_api" /\ ctl' = "reset_health"
        /\ using_api' = 0 /\ UNCHANGED <<loops, what, collection_done>>
     \/ /\ ctl = "reset_health" /\ ctl' = "reset_done"
        /\ what' = IF what = "health" THEN "none" ELSE what
        /\ UNCHANGED <<loops, using_api, collection_done>>
     \/ /\ ctl = "reset_done" /\ ctl' = "reset_lifetime"
        /\ ForgetsEnd /\ UNCHANGED <<loops, using_api, what>>
     \/ /\ ctl = "reset_lifetime" /\ ctl' = "free"
        /\ what' = "none" /\ UNCHANGED <<loops, using_api, collection_done>>
  /\ UNCHANGED <<starts, infinite_run, write_count, thread_status, buffer_lock,
                 buffer, fout, thread, reader>>

\* free(NULL) does nothing; the pointer is not cleared.
StopFreesBuffer ==
  /\ ctl = "free"
  /\ output_buf' = IF output_buf = "null" THEN "null" ELSE "freed"
  /\ ctl' = "close"
  /\ UNCHANGED <<starts, config, shared, buffer_lock, rows, fout, thread,
                 reader>>

StopClosesFile ==
  /\ ctl = "close"
  /\ fout' = IF fout = "open" THEN "closed" ELSE fout
  /\ ctl' = "idle"
  /\ UNCHANGED <<starts, config, shared, buffer_lock, buffer, thread, reader>>

StopStep == StopWakes \/ StopResets \/ StopFreesBuffer \/ StopClosesFile

Control ==
  \/ \E k \in Kinds \cup (IF "start" \in Faults THEN {"none"} ELSE {}) :
       CallStart(k)
  \/ StartFails \/ StartSucceeds
  \/ CallStop \/ StopStep

(***************************************************************************)
(* The collector thread: threadable_func and the loop that                 *)
(* Print_Smart_Counters ("perf") and Print_Health_Info ("health") share.   *)
(***************************************************************************)
Goto(t, label) == pc' = [pc EXCEPT ![t] = label]
Fails_NotReported(t) == UNCHANGED ret_code
Fails(t) == ret_code' = [ret_code EXCEPT ![t] = 1]

RunsJob(t, j) ==
  /\ Goto(t, "alloc")
  /\ job' = [job EXCEPT ![t] = j]
  /\ iter' = [iter EXCEPT ![t] = 0]
  /\ num_skips' = [num_skips EXCEPT ![t] = 0]
  /\ ret_code' = [ret_code EXCEPT ![t] = 0]
  /\ UNCHANGED dimm

\* collect_lifetime is read before collect_health.
ThreadEntry(t) ==
  /\ pc[t] = "entry"
  /\ \/ what = "perf" /\ RunsJob(t, "perf")
     \/ /\ what # "perf" /\ Goto(t, "second")
        /\ UNCHANGED <<job, iter, dimm, ret_code, num_skips>>
  /\ UNCHANGED <<control, config, shared, buffer_lock, buffer, fout, reader>>

ThreadSecond(t) ==
  /\ pc[t] = "second"
  /\ \/ what = "health" /\ RunsJob(t, "health")
     \/ /\ what # "health" /\ Goto(t, "exit")
        /\ UNCHANGED <<job, iter, dimm, ret_code, num_skips>>
  /\ UNCHANGED <<control, config, shared, buffer_lock, buffer, fout, reader>>

Allocate(t) ==
  /\ pc[t] = "alloc"
  /\ IF using_api = 1 THEN output_buf' = "live" /\ rows' = Zeroed
                      ELSE UNCHANGED buffer
  /\ Goto(t, "baseline")
  /\ UNCHANGED <<control, config, shared, buffer_lock, fout, job, iter, dimm,
                 ret_code, num_skips, reader>>

\* Either calloc of output_buf fails, or a later one, after which output_buf
\* is freed.  Neither return passes through cleanup.
AllocateFails(t) ==
  /\ pc[t] = "alloc" /\ "alloc" \in Faults
  /\ IF using_api = 1
     THEN output_buf' \in {"null", "freed"} /\ UNCHANGED rows
     ELSE UNCHANGED buffer
  /\ Fails(t) /\ Goto(t, "status")
  /\ UNCHANGED <<control, config, shared, buffer_lock, fout, job, iter, dimm,
                 num_skips, reader>>

\* Interval 0; only performance metrics read the DIMMs for it.
Baseline(t) ==
  /\ pc[t] = "baseline"
  /\ Goto(t, "adjust")
  /\ UNCHANGED <<control, config, shared, buffer_lock, buffer, fout, job, iter,
                 dimm, ret_code, num_skips, reader>>

BaselineFails(t) ==
  /\ pc[t] = "baseline" /\ job[t] = "perf" /\ "device" \in Faults
  /\ Fails(t) /\ Goto(t, "cleanup")
  /\ UNCHANGED <<control, config, shared, buffer_lock, buffer, fout, job, iter,
                 dimm, num_skips, reader>>

\* C's integer division truncates.
Quotient(n, p) == IF n >= 0 THEN n \div p ELSE -((-n) \div p)

\* The interval fits the sampling time: adjust_for_overhead changes nothing.
InTime(t) ==
  /\ pc[t] = "adjust"
  /\ Goto(t, "sleep")
  /\ UNCHANGED <<control, config, shared, buffer_lock, buffer, fout, job, iter,
                 dimm, ret_code, num_skips, reader>>

\* It does not: the sampling time is doubled itr times (bound: twice, as for an
\* interval of up to four times the sampling time), which fails a run
\* that has fewer intervals left.  The baseline of health info takes no time.
Overrun(t, itr) ==
  /\ pc[t] = "adjust" /\ "slow" \in Faults
  /\ job[t] = "perf" \/ iter[t] > 0
  /\ IF iter[t] + itr > loops /\ infinite_run = 0
     THEN Fails(t) /\ Goto(t, "cleanup")
     ELSE Goto(t, "rescale") /\ UNCHANGED ret_code
  /\ UNCHANGED <<control, config, shared, buffer_lock, buffer, fout, job, iter,
                 dimm, num_skips, reader>>

\* The rest of adjust_for_overhead, which reads infinite_run again: Stop may
\* have cleared it since the doubling.  itr is chosen again rather than kept.
Rescale(t, itr) ==
  /\ pc[t] = "rescale"
  /\ IF infinite_run = 1
     THEN UNCHANGED <<loops, num_skips>>
     ELSE LET left == loops - iter[t]
              loops_left == Quotient(left, 2 ^ itr)
          IN /\ loops' = iter[t] + loops_left
             /\ num_skips' = [num_skips EXCEPT ![t] = @ + left - loops_left]
  /\ Goto(t, "sleep")
  /\ UNCHANGED <<control, infinite_run, using_api, what, shared, buffer_lock,
                 buffer, fout, job, iter, dimm, ret_code, reader>>

Continues(t) == iter[t] + 1 <= loops \/ infinite_run = 1

\* After the sleep, the loop's increment and test.
NextInterval(t) ==
  /\ pc[t] = "sleep" /\ iter[t] < MaxInterval
  /\ Continues(t)
  /\ iter' = [iter EXCEPT ![t] = @ + 1]
  /\ Goto(t, "lock")
  /\ UNCHANGED <<control, config, shared, buffer_lock, buffer, fout, job, dimm,
                 ret_code, num_skips, reader>>

LeaveLoop(t) ==
  /\ pc[t] = "sleep" /\ ~Continues(t)
  /\ Goto(t, "cleanup")
  /\ UNCHANGED <<control, config, shared, buffer_lock, buffer, fout, job, iter,
                 dimm, ret_code, num_skips, reader>>

Acquires_NotLocked == UNCHANGED buffer_lock
Acquires == IF using_api = 1 THEN buffer_lock = "free" /\ buffer_lock' = "held"
                             ELSE UNCHANGED buffer_lock
Releases_NotUnlocked == UNCHANGED buffer_lock
Releases == buffer_lock' = IF using_api = 1 THEN "free" ELSE buffer_lock

LockBuffer(t) ==
  /\ pc[t] = "lock"
  /\ Acquires
  /\ dimm' = [dimm EXCEPT ![t] = 0]
  /\ Goto(t, "write")
  /\ UNCHANGED <<control, config, shared, buffer, fout, job, iter, ret_code,
                 num_skips, reader>>

WriteRow_PastEnd(t) ==
  /\ pc[t] = "write" /\ dimm[t] <= count
  /\ rows' = [rows EXCEPT ![dimm[t]] = Row(iter[t])]
  /\ dimm' = [dimm EXCEPT ![t] = @ + 1]
  /\ UNCHANGED <<control, config, shared, buffer_lock, output_buf, fout, pc,
                 job, iter, ret_code, num_skips, reader>>

WriteRow(t) ==
  /\ pc[t] = "write" /\ dimm[t] < count
  /\ rows' = IF using_api = 1 THEN [rows EXCEPT ![dimm[t]] = Row(iter[t])]
                              ELSE rows
  /\ dimm' = [dimm EXCEPT ![t] = @ + 1]
  /\ UNCHANGED <<control, config, shared, buffer_lock, output_buf, fout, pc,
                 job, iter, ret_code, num_skips, reader>>

\* The row has its new stamp when the DIMM does not answer; the rows before
\* it are new, the ones after it old, and buffer_lock is given up.
DeviceFails(t) ==
  /\ pc[t] = "write" /\ dimm[t] < count /\ "device" \in Faults
  /\ rows' = IF using_api = 1
             THEN [rows EXCEPT ![dimm[t]] =
                     [stamp |-> iter[t], metrics |-> rows[dimm[t]].metrics]]
             ELSE rows
  /\ Releases
  /\ Fails(t) /\ Goto(t, "cleanup")
  /\ UNCHANGED <<control, config, shared, output_buf, fout, job, iter, dimm,
                 num_skips, reader>>

Publish(t) ==
  /\ pc[t] = "write" /\ dimm[t] = count
  /\ write_count' = IF using_api = 1 THEN write_count + 1 ELSE write_count
  /\ Releases
  /\ Goto(t, "adjust")
  /\ UNCHANGED <<control, config, collection_done, thread_status, buffer, fout,
                 job, iter, dimm, ret_code, num_skips, reader>>

Cleanup_BufferFreed(t) ==
  /\ pc[t] = "cleanup" /\ buffer_lock = "free" /\ ReportsDone
  /\ output_buf' = "freed"
  /\ Goto(t, "tail")
  /\ UNCHANGED <<control, config, write_count, thread_status, buffer_lock, rows,
                 fout, job, iter, dimm, ret_code, num_skips, reader>>

\* collection_done is set under the lock; the thread still has to print the
\* skipped intervals to fout, return, and store thread_status.
Cleanup(t) ==
  /\ pc[t] = "cleanup"
  /\ IF using_api = 1 THEN buffer_lock = "free" /\ ReportsDone
                      ELSE UNCHANGED collection_done
  /\ Goto(t, "tail")
  /\ UNCHANGED <<control, config, write_count, thread_status, buffer_lock,
                 buffer, fout, job, iter, dimm, ret_code, num_skips, reader>>

ReportSkips(t) ==
  /\ pc[t] = "tail"
  /\ Goto(t, "status")
  /\ UNCHANGED <<control, config, shared, buffer_lock, buffer, fout, job, iter,
                 dimm, ret_code, num_skips, reader>>

StoreStatus(t) ==
  /\ pc[t] = "status"
  /\ thread_status' = ret_code[t]
  /\ Goto(t, IF job[t] = "perf" THEN "second" ELSE "exit")
  /\ UNCHANGED <<control, config, write_count, collection_done, buffer_lock,
                 buffer, fout, job, iter, dimm, ret_code, num_skips, reader>>

Collect(t) ==
  \/ ThreadEntry(t) \/ ThreadSecond(t)
  \/ Allocate(t) \/ AllocateFails(t)
  \/ Baseline(t) \/ BaselineFails(t)
  \/ InTime(t) \/ (\E itr \in 1 .. 2 : Overrun(t, itr) \/ Rescale(t, itr))
  \/ NextInterval(t) \/ LeaveLoop(t)
  \/ LockBuffer(t) \/ WriteRow(t) \/ DeviceFails(t) \/ Publish(t)
  \/ Cleanup(t) \/ ReportSkips(t) \/ StoreStatus(t)

(***************************************************************************)
(* The readers: PMWAPIRead.                                                *)
(***************************************************************************)
CallRead(r) ==
  /\ rpc[r] = "out" /\ ctl = "open"
  /\ rpc' = [rpc EXCEPT ![r] = "in"]
  /\ UNCHANGED <<control, config, shared, buffer_lock, buffer, fout, thread, got>>

ReadReady_NotAwaited == TRUE
ReadReady_Allocated == output_buf # "null" \/ thread_status # 0
ReadReady == write_count # 0 \/ thread_status # 0

\* Read polls under buffer_lock and leaves its loop holding the lock.
ReadAcquires(r) ==
  /\ rpc[r] = "in" /\ buffer_lock = "free" /\ ReadReady
  /\ buffer_lock' = "held"
  /\ rpc' = [rpc EXCEPT ![r] = "copy"]
  /\ UNCHANGED <<control, config, shared, buffer, fout, thread, got>>

\* thread_status is read again: the collector stores it without the lock.
ReadFails(r) ==
  /\ rpc[r] = "copy" /\ thread_status # 0
  /\ got' = [got EXCEPT ![r] =
               [status |-> "error", session |-> starts, rows |-> got[r].rows]]
  /\ buffer_lock' = "free"
  /\ rpc' = [rpc EXCEPT ![r] = "out"]
  /\ UNCHANGED <<control, config, shared, buffer, fout, thread>>

\* The copy of freed memory may or may not hold what was written there.
ReadCopies(r) ==
  /\ rpc[r] = "copy" /\ thread_status = 0
  /\ \E data \in (IF output_buf = "live" THEN {rows} ELSE {rows, Zeroed}) :
       got' = [got EXCEPT ![r] =
                 [status |-> "ok", session |-> starts, rows |-> data]]
  /\ buffer_lock' = "free"
  /\ rpc' = [rpc EXCEPT ![r] = "out"]
  /\ UNCHANGED <<control, config, shared, buffer, fout, thread>>

Read(r) == CallRead(r) \/ ReadAcquires(r) \/ ReadFails(r) \/ ReadCopies(r)

\* The bound MaxStarts is reached and everything has come to rest.
Terminated ==
  /\ ctl = "idle" /\ starts = MaxStarts
  /\ \A t \in Thread : pc[t] \in {"none", "exit"}
  /\ \A r \in Readers : rpc[r] = "out"
  /\ UNCHANGED vars

Next ==
  \/ Control
  \/ \E t \in Thread : Collect(t)
  \/ \E r \in Readers : Read(r)
  \/ Terminated

Spec == Init /\ [][Next]_vars
=============================================================================
