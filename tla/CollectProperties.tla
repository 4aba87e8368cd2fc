-------------------------- MODULE CollectProperties -------------------------
(***************************************************************************)
(* What a collection session must and must not do: the properties of      *)
(* CollectApi that the runs check and CollectApi_proofs proves.            *)
(***************************************************************************)
EXTENDS CollectApi

(***************************************************************************)
(* Every variable has its type: a flag of the C code is 0 or 1, an index  *)
(* stays inside its array, a counter that the code only increments is     *)
(* never negative.                                                         *)
(***************************************************************************)
ControlAt == {"idle", "opening", "failed", "open", "wait", "free", "close"}
               \cup Resetting
ThreadAt == {"none", "entry", "second", "alloc", "baseline", "adjust",
             "rescale", "sleep", "lock", "write", "cleanup", "tail", "status",
             "exit"}
ReadResult == [status : {"none", "ok", "error"}, session : 0 .. MaxStarts,
               rows : [DIMM -> RowSet]]
TypeOK ==
  /\ ctl \in ControlAt /\ starts \in 0 .. MaxStarts
  /\ ctl # "idle" => starts > 0
  /\ loops \in Int /\ infinite_run \in Flag /\ using_api \in Flag
  /\ what \in Kinds \cup {"none"}
  /\ write_count \in Nat /\ collection_done \in Flag /\ thread_status \in Flag
  /\ buffer_lock \in {"free", "held"}
  /\ output_buf \in {"null", "live", "freed"}
  /\ rows \in [DIMM -> RowSet]
  /\ fout \in {"null", "open", "closed"}
  /\ pc \in [Thread -> ThreadAt]
  /\ job \in [Thread -> {"none", "perf", "health"}]
  /\ iter \in [Thread -> 0 .. MaxInterval]
  /\ dimm \in [Thread -> 0 .. count]
  /\ ret_code \in [Thread -> Flag]
  /\ num_skips \in [Thread -> Int]
  /\ rpc \in [Readers -> {"out", "in", "copy"}]
  /\ got \in [Readers -> ReadResult]

(***************************************************************************)
(* A collector that is writing rows has a buffer to write them to: Stop,   *)
(* which clears using_api and then frees output_buf, both without the      *)
(* lock, has waited for it.  The collector's test of using_api before each *)
(* store is no protection: both may happen between the test and the store. *)
(***************************************************************************)
CollectorBufferSafe == \A t \in Thread : pc[t] = "write" => output_buf = "live"

(***************************************************************************)
(* A Read that is about to copy output_buf finds it allocated              *)
(* (PMW_COLLECT_Read_Data against the collector's calloc and Stop's free). *)
(***************************************************************************)
ReaderBufferSafe ==
  \A r \in Readers : rpc[r] = "copy" /\ thread_status = 0 => output_buf = "live"

(***************************************************************************)
(* Stop frees output_buf and closes fout only once each.  This leaves out  *)
(* a session whose Start failed, which has closed fout already, and one    *)
(* whose collector failed before its first interval: one that got no       *)
(* memory has freed output_buf itself.                                     *)
(***************************************************************************)
FailedEarly(t) == ret_code[t] = 1 /\ iter[t] = 0
ReleaseOnce ==
  ctl \in {"free", "close"} /\ pc[starts] # "none" =>
    /\ ctl = "free" /\ ~FailedEarly(starts) => output_buf # "freed"
    /\ ctl = "close" => fout = "open"

(***************************************************************************)
(* A thread that is about to print to fout finds it open: the rows of an   *)
(* interval, its end of line, and the count of skipped intervals that is   *)
(* printed after collection_done was set.                                  *)
(***************************************************************************)
PrintsToFile(t) ==
  \/ pc[t] \in {"alloc", "lock", "write"}
  \/ pc[t] = "adjust" /\ iter[t] > 0
  \/ pc[t] = "tail" /\ num_skips[t] # 0
FileOpenWhenUsed == \A t \in Thread : PrintsToFile(t) => fout = "open"

(***************************************************************************)
(* No two threads run a collection loop at the same time: when Stop has    *)
(* returned, the session's collector is past its loop.                     *)
(***************************************************************************)
InLoop(t) == pc[t] \in {"baseline", "adjust", "rescale", "sleep", "lock",
                        "write", "cleanup"}
OneCollector ==
  \A t, u \in Thread : InLoop(t) /\ InLoop(u) => t = u

(***************************************************************************)
(* A Read that returns 0 never gives the zeros that calloc left: every row *)
(* of it has metrics that a collector wrote (the wait at the top of        *)
(* PMW_COLLECT_Read_Data).  Of which interval is SnapshotOrFailed's part.  *)
(***************************************************************************)
ReadAfterFirstWrite ==
  \A r \in Readers :
    got[r].status = "ok" => \A d \in DIMM : got[r].rows[d].metrics > 0

\* What the buffer holds when interval n has been written to every DIMM's row.
Whole(n) == [d \in DIMM |-> Row(n)]

(***************************************************************************)
(* All rows of a Read that returns 0 come from one interval, unless the    *)
(* collector of its session had failed on DIMM k: then the rows before k   *)
(* are one interval ahead of those after it, and k has the new stamp on    *)
(* the old metrics.                                                        *)
(***************************************************************************)
TornAt(n, k) ==
  [d \in DIMM |-> IF d < k THEN Row(n + 1)
                  ELSE IF d = k THEN [stamp |-> n + 1, metrics |-> n]
                  ELSE Row(n)]
SnapshotOrFailed ==
  \A r \in Readers :
    got[r].status = "ok" =>
      \E n \in 0 .. MaxInterval :
        \/ got[r].rows = Whole(n)
        \/ ret_code[got[r].session] = 1 /\ \E k \in DIMM : got[r].rows = TornAt(n, k)

(***************************************************************************)
(* A Read reports an error only when the collector of its own session has  *)
(* failed, whatever happened in earlier sessions.                          *)
(***************************************************************************)
ReadErrorIsCurrent ==
  \A r \in Readers : got[r].status = "error" => ret_code[got[r].session] = 1

(***************************************************************************)
(* A session implements the metrics feed: what its readers see is one      *)
(* interval after the other, each of them whole until the collector fails. *)
(***************************************************************************)
CollectorFailed == \E t \in Thread : ret_code[t] = 1
Feed == INSTANCE MetricsFeed WITH
  open <- ctl \in {"open", "wait"},
  published <- write_count,
  failed <- CollectorFailed,
  view <- [r \in Readers |-> got[r].rows]
FeedSpec == Feed!Spec

(***************************************************************************)
(* What becomes of a thread that has not reported yet: it comes to its     *)
(* cleanup with using_api set, or it has failed before its loop and is     *)
(* about to store thread_status.                                           *)
(***************************************************************************)
Enters(t) ==
  \/ pc[t] = "entry" /\ what # "none"
  \/ pc[t] = "second" /\ job[t] = "none" /\ what = "health"
WillReport(t) ==
  \/ Enters(t)
  \/ (pc[t] = "alloc" \/ InLoop(t)) /\ using_api = 1
  \/ pc[t] = "status" /\ ret_code[t] = 1

(***************************************************************************)
(* Stop never waits for an answer that nobody is going to give: as long as *)
(* it polls, collection_done or thread_status is set, or a thread is on    *)
(* its way to set one of them - also after a failed Start, a failed calloc *)
(* and a DIMM that does not answer.                                        *)
(***************************************************************************)
StopIsAnswered ==
  ctl = "wait" => CollectionOver \/ \E t \in Thread : WillReport(t)

(***************************************************************************)
(* Nor does a Read: as long as it polls, an interval is published or the   *)
(* collector's failure stored, or a collector is on its way to its first   *)
(* interval, with no end of the loop before it, or to store its failure.   *)
(***************************************************************************)
WillAnswer(t) ==
  \/ Enters(t)
  \/ /\ pc[t] = "alloc" \/ (InLoop(t) /\ pc[t] # "cleanup")
     /\ using_api = 1 /\ infinite_run = 1
  \/ pc[t] \in {"cleanup", "tail", "status"} /\ ret_code[t] = 1
ReadIsAnswered ==
  \A r \in Readers :
    rpc[r] = "in" => ReadReady \/ \E t \in Thread : WillAnswer(t)

(***************************************************************************)
(* buffer_lock is never left behind: whoever holds it is still between the *)
(* lock and the unlock.  The collector's three ways out of its rows, the   *)
(* two of a Read, and using_api, which decides whether the collector       *)
(* unlocks, all have to agree with that.                                   *)
(***************************************************************************)
LockHasHolder ==
  buffer_lock = "held" =>
    \/ \E t \in Thread : pc[t] = "write"
    \/ \E r \in Readers : rpc[r] = "copy"

(***************************************************************************)
(* Why: from the Start that created the thread, or failed to, somebody is  *)
(* on the way to report.                                                   *)
(***************************************************************************)
Answerable ==
  /\ ctl = "failed" => CollectionOver
  /\ ctl \in {"open", "wait"} => CollectionOver \/ \E t \in Thread : WillReport(t)
ReadAnswerable ==
  /\ ctl \in {"opening", "open"} => infinite_run = 1
  /\ ctl = "open" => ReadReady \/ \E t \in Thread : WillAnswer(t)

(***************************************************************************)
(* The life of a thread: it is created by the Start it is numbered after,  *)
(* performance metrics come before health info, and it collects what some  *)
(* Start asked for.                                                        *)
(***************************************************************************)
JobOfThread ==
  \A t \in Thread :
    /\ (starts < t \/ (starts = t /\ ctl = "opening")) => pc[t] = "none"
    /\ pc[t] \in {"none", "entry"} => job[t] = "none"
    /\ pc[t] = "second" => job[t] # "health"
    /\ pc[t] \notin {"none", "entry", "second", "exit"} => job[t] # "none"
    /\ job[t] # "none" => job[t] \in Kinds

(***************************************************************************)
(* Why the buffer is safe over any number of sessions, when no collector   *)
(* fails and the client asks for one kind of collection: a thread that has *)
(* not set collection_done belongs to the session that is open, so Stop's  *)
(* wait is for that thread.                                                *)
(***************************************************************************)
Unfinished(t) ==
  pc[t] \in {"entry", "alloc"} \/ InLoop(t) \/ (pc[t] = "second" /\ job[t] = "none")
NeverFailed == thread_status = 0 /\ \A t \in Thread : ret_code[t] = 0
ThreadOfSession ==
  /\ ctl \in {"idle", "opening", "reset_lifetime", "free", "close"} =>
       collection_done = 0
  /\ ctl = "opening" => using_api = 1
  /\ \A t \in Thread :
       Unfinished(t) => /\ t = starts /\ ctl \in {"open", "wait"}
                        /\ using_api = 1 /\ collection_done = 0
  /\ \A t \in Thread : InLoop(t) => output_buf = "live"
SessionInv == NeverFailed /\ JobOfThread /\ ThreadOfSession

(***************************************************************************)
(* Why Stop releases once: from the Start that created the thread until    *)
(* Stop closes it the file is open, and when no collector fails the thread *)
(* goes from its start to a buffer of its own, which only Stop frees.      *)
(***************************************************************************)
FileInv ==
  /\ ctl = "failed" => pc[starts] = "none"
  /\ ctl \in {"open", "wait", "free", "close"} \cup Resetting /\ pc[starts] # "none" =>
       fout = "open"
Unallocated(t) == pc[t] \in {"entry", "alloc"} \/ (pc[t] = "second" /\ job[t] = "none")
OwnBuffer ==
  ctl \in {"open", "wait", "free"} \cup Resetting /\ pc[starts] # "none" =>
    /\ ctl \in {"open", "wait"} => what \in Kinds
    /\ pc[starts] = "second" /\ job[starts] = "none" => "health" \in Kinds
    /\ ~Unallocated(starts) => output_buf = "live"
ReleaseInv == FileInv /\ OwnBuffer

\* The same for a first session that may fail: a collector that has got no
\* memory does not come back to its loop.
FreedByCollector ==
  \A t \in Thread :
    /\ pc[t] = "none" => output_buf = "null"
    /\ ctl \in {"open", "wait", "free"} \cup Resetting /\ output_buf = "freed" =>
         pc[t] \in {"status", "second", "exit"} /\ job[t] # "none" /\ FailedEarly(t)

(***************************************************************************)
(* Why a session implements the feed: buffer_lock has one holder, the      *)
(* collector is one interval ahead of write_count from its increment to    *)
(* Publish, and whenever no row is being written the buffer is the         *)
(* published interval, or what a DIMM's failure made of it.                *)
(***************************************************************************)
OneHolder ==
  /\ \A t \in Thread :
       pc[t] = "write" => buffer_lock = "held" /\ \A r \in Readers : rpc[r] # "copy"
  /\ \A r, s \in Readers : rpc[r] = "copy" /\ rpc[s] = "copy" => r = s
  /\ \A r \in Readers : rpc[r] = "copy" => buffer_lock = "held"

WrittenTo(k, n) == [d \in DIMM |-> Row(IF d < k THEN n ELSE n - 1)]

Settled(t) ==
  \/ rows = Whole(write_count)
  \/ ret_code[t] = 1 /\ \E k \in DIMM : rows = TornAt(write_count, k)

CollectorAhead ==
  \A t \in Thread :
    /\ pc[t] = "none" => ctl # "open" /\ write_count = 0
    /\ ctl \in {"opening", "failed"} => pc[t] = "none"
    /\ ctl = "opening" => using_api = 1
    /\ ctl = "opening" \/ starts = 0 => collection_done = 0
    /\ Unfinished(t) => /\ ctl \in {"open", "wait"}
                        /\ using_api = 1 /\ collection_done = 0
    /\ pc[t] \notin {"second", "exit"} \/ job[t] = "none" => thread_status = 0
    /\ job[t] = "perf" => what # "health"
    /\ job[t] = "none" \/ (Unfinished(t) /\ pc[t] # "cleanup") => ret_code[t] = 0
    /\ thread_status # 0 => ret_code[t] = 1
    /\ Unfinished(t) /\ ~InLoop(t) => write_count = 0
    /\ InLoop(t) => output_buf = "live"
    /\ InLoop(t) /\ pc[t] \notin {"write", "cleanup"} => rows = Whole(write_count)
    /\ pc[t] = "cleanup" => Settled(t)
    /\ pc[t] = "alloc" => iter[t] = 0
    /\ pc[t] \in {"baseline", "adjust", "rescale", "sleep"} => write_count = iter[t]
    /\ pc[t] \in {"lock", "write"} => write_count = iter[t] - 1
    /\ pc[t] = "write" => rows = WrittenTo(dimm[t], iter[t])

ReadersInSession ==
  \A r \in Readers :
    /\ rpc[r] # "out" => ctl = "open"
    /\ rpc[r] = "copy" => thread_status # 0 \/ write_count > 0

PublishedWhole ==
  /\ write_count <= MaxInterval
  /\ write_count > 0 /\ ctl \in {"open", "wait"} => output_buf = "live"
  /\ write_count > 0 => \A t \in Thread : pc[t] = "write" \/ Settled(t)

ReadsAreSettled ==
  \A r \in Readers :
    /\ got[r].status # "none" => got[r].session \in Thread
    /\ got[r].status = "error" => ret_code[got[r].session] = 1
    /\ got[r].status = "ok" =>
         \E n \in 1 .. MaxInterval :
           \/ got[r].rows = Whole(n)
           \/ ret_code[got[r].session] = 1 /\ \E k \in DIMM : got[r].rows = TornAt(n, k)

BufferInv ==
  JobOfThread /\ OneHolder /\ CollectorAhead /\ ReadersInSession /\ PublishedWhole
WholeInv == BufferInv /\ ReadsAreSettled
=============================================================================
