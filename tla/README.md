# pmwatch: specification, model checking and proofs

TLA+ specifications of [Intel PMWatch](../src/README.md), the tool and library
that sample the performance and health counters of Optane persistent memory
modules (DIMMs) through libipmctl. `pmw_collect.c:1303` is short for
line 1303 of `src/pmw_collect.c` in the repository.

- [The system](#the-system): its parts, their state, how they interact
- [The modules](#the-modules): which models what, and what each abstracts
- [What is checked](#what-is-checked): runs, bounds, fairness, disagreements
  found
- [What is proved](#what-is-proved): theorems, hypotheses, inductive invariants
- [What is not modelled](#what-is-not-modelled) and [the plan](#plan)

To check: `tlc -config X.cfg M` for a run of the tables below, `tlapm M.tla` for
the seven `*_proofs` modules.

## The system

PMWatch is one code base with two faces. `pmwatch` is a single-threaded command
line program. `libpmw_api` gives a client process three calls, `PMWAPIStart`,
`PMWAPIRead` and `PMWAPIStop`; a background thread runs the same collection
loop as the tool. Both faces share plain globals of `pmw_collect.c` and
`pmw_comm.c`.

```
 client threads                         command line
   | Start  Read  Stop                      | main (pmwatch.c)
   v                                        |
 pmw_api.c                                  |
   |                                        |
   v                                        v
 pmw_collect.c  --- collector thread ---> Print_Smart_Counters / Print_Health_Info
   globals, output_buf, buffer_lock         |   adjust_for_overhead
   |                                        |   CALCULATE_DIFFERENCE (pmw_utils)
   v                                        v
 pmw_comm.c: context, gp_DIMM_devices, count  ---> libipmctl ---> DIMMs
```

### Components

| Component | Source | State | Operations | What makes it correct |
|---|---|---|---|---|
| Collection session | `pmw_api.c`, `pmw_collect.c` 1162-1323 and the loops of 418-814, 816-1106 | `output_buf`, `write_count`, `collection_done`, `thread_status`, `infinite_run`, `loops`, `using_api`, the two `collect_*` flags, `fout`, `filename`, `buffer_lock` | Start, Read, Stop; the collector's loop | the buffer is alive whenever someone uses it; a Read gives one interval of its own session; errors belong to the session that reports them; nobody polls for an answer that is not coming; one collector at a time |
| Sampling loop | `pmw_collect.c` 361-403, 418-814 | interval number, samples per DIMM, sampling time, skipped intervals | read, print, adjust, sleep | a row is the growth of the counters, the samples asked for are printed or reported as skipped, skipping does not prolong a run, a run ends |
| Derived metrics | `pmw_utils.h`, `pmw_collect.c` 560-668 | none | difference, totals, media operations, hit ratios | no wrap-around error, ratios in 0..1, totals that agree |
| Communication layer | `pmw_comm.c` | API context, `gp_DIMM_devices`, `count`, ipmctl version | find, sort, read and give back the DIMMs | array and count agree, freed once, every DIMM in exactly one place of a report |
| Command line and `main` | `pmwatch.c` | options, exit code | parse, check, run, clean up | exit code 0 is earned, everything is given back |
| Health rows | `pmw_collect.c` 816-1106 | the shared temperatures, the used share per DIMM | read a page, convert, print, store | a row describes its own DIMM; file and buffer tell the same |
| Report | `pmw_collect.c` 98-359 and the prints of the three loops, 1108-1159; `pmwatch.c` 84-244 | the settings, stdio's buffer, the file | understand the words, print headers and rows, flush | every word is understood; columns fit their header; finished rows are never lost |
| Stop scripts | `pmwatch-stop` | none | kill | nothing finished is lost |
| String helpers, key/value printing, packaging | see `PROJECT.json` | none or external | | layout |

### How they interact, and what is hard

Controller, readers and collector share plain globals. `buffer_lock` protects
the row loop of an interval together with `write_count`, the copy of Read, and
`collection_done`; it does not protect `infinite_run`, `loops`, `using_api`,
`thread_status`, nor the `calloc` and `free` of `output_buf`, nor `fout`. What
keeps those apart is only the order of steps: Stop clears `infinite_run`, polls
`collection_done || thread_status`, and takes everything apart afterwards. The
collector thread is never joined. Four things make this fragile, and are what
the properties are aimed at:

- *steps that come after the signal*: the collector prints after it has set
  `collection_done`, and reads `collect_health` after that;
- *state that outlives its session*: `write_count` and `thread_status` are never
  reset, `collection_done` only by Stop;
- *failure in the middle*: a DIMM that does not answer leaves rows of two
  intervals; a failed allocation leaves the loop by another way than the rest;
- *arithmetic at the edges*: unsigned time that steps back, counters that wrap,
  a sampling time that doubles, whole seconds through a `float`, products and
  casts that an `int` does not hold.

`gp_DIMM_devices`, too, is one global for all sessions: each Start clears and
replaces it while only Stop's wait keeps an older collector from reading it.

In the tool the hard part is partial failure: `PMW_COMM_Init` and
`PMW_COMM_Print_Topology` make the same checks in different orders, give up at
seven places each, and leave the release to different callers. Its output file
outlives the process: `pmwatch-stop` is a `kill -9`, a DIMM that does not answer
ends a row anywhere, and the next run may append to what is left.

`PROJECT.json` lists each hazard at its line with the properties that would
catch it.

## The modules

| Module | Models | Code it stands for |
|---|---|---|
| `MetricsFeed` | the promise to a reader: intervals 1, 2, 3, ... published one after the other, each whole until the collector fails | abstract |
| `CollectApi` | a client's calls and the collector threads they start | Start, Stop, Read, `threadable_func`, both collection loops with `using_api` set |
| `CollectProperties` | the properties of `CollectApi`, and the inductive invariants | |
| `SessionDevices` | `CollectApi` composed with what each Start does in the communication layer | `PMW_COMM_Init` and `PMW_COMM_Cleanup` as Start calls them |
| `HealthRow` | what a health row prints and stores | the row loop of `Print_Health_Info`, `PMW_COMM_Get_Health_Info_Page` |
| `Metrics` | the arithmetic of one row, as operators | the difference macro, the derived metrics |
| `Sampling` | the tool's loop over time, with real samples | the same loop with `using_api` clear, `adjust_for_overhead` |
| `Tool` | one process of the tool from `main` to its exit code | `main`, `PMW_COMM_Init`, `PMW_COMM_Print_Topology`, `PMW_COMM_Cleanup`, the warning |
| `CommandLine` | the words of the command line, as operators | `pmwatch_parse_cli` |
| `Report` | one output file over several runs of the tool | `pmwatch_parse_cli` step by step, all headers, rows and flushes, the lifetime snapshot, `pmwatch-stop` |
| `MCCollect`, `MCDevices`, `MCHealth`, `MCSampling`, `MCTool`, `MCReport` | instances for TLC | |
| `CollectApi_proofs`, `SessionDevices_proofs`, `HealthRow_proofs`, `Sampling_proofs`, `Tool_proofs`, `ReportColumns_proofs`, `Report_proofs` | theorems and proofs | |

`CollectApi` and `Sampling` model the same loop from two sides. The first keeps
every interleaving and abstracts a row to the number of its interval and time
to "fits or does not"; the second is sequential and keeps counters, wrap-around
and the clock. `HealthRow` and `Report` are the contents and the form of what the
loop prints. `Tool` takes the whole loop as one step.

In all of them, definitions whose names end in a capitalised fault
(`ForgetsEnd_DoneKept`, `Difference_NoWrap`) plant that fault in the definition
they stand in front of. No specification uses them. They are the record of
which property notices which mistake.

### CollectApi

The controller's `ctl`, each collector's `pc` and each reader's `rpc` are
program counters; every other variable has the name it has in the code. A
collector is named by the number of the Start that created it, so a thread of an
earlier session may still be there when the next one runs.

| Actions | Code |
|---|---|
| `CallStart`, `StartFails`, `StartSucceeds` | `PMW_COLLECT_Start_Collection`: up to the first thing that may fail, its error path, `pthread_create` |
| `CallStop`, `StopWakes`, `StopResets`, `StopFreesBuffer`, `StopClosesFile` | `PMW_COLLECT_Stop_Collection`; the poll is one step, then each store of 1280-1284 (`Resetting`: `loops`, `using_api`, `collect_health`, `collection_done`, `collect_lifetime`), `free` and `fclose` are a step each, because none of them holds the lock |
| `ThreadEntry`, `ThreadSecond`, `StoreStatus` | `threadable_func`: the two flags read one after the other, the status stored at the end |
| `Allocate` ... `ReportSkips` | the loop that both collections share: allocation, baseline, overhead, loop test, lock, one row per DIMM, `write_count`, cleanup, the line about skipped intervals |
| `CallRead`, `ReadAcquires`, `ReadFails`, `ReadCopies` | `PMW_COLLECT_Read_Data` |

`Faults` says what may go wrong (`start`, `alloc`, `device`, `slow`) and
`Client` which liberties the client takes (`overlap`: Stop while Reads run;
`retry`: Start again after one that failed). Empty sets are a well-behaved client
on a machine that works.

Abstractions: a row of `output_buf` is the interval that wrote its time stamp
and the interval that wrote its metrics. `fout` stands for `fout` and
`filename`. `what` stands for the pair of flags of which Start lets at most one
be set. An interval either fits its sampling time or does not; if not, the time
is doubled once or twice and `adjust_for_overhead` works with that, in two
steps, because it reads `infinite_run` twice and Stop may come in between. One
controller thread makes the Start and Stop calls. Sampling times are whole
seconds here; the division by zero that shorter ones lead to is in `Sampling`.
Accesses to one `int` are atomic. The number of DIMMs does not change.

### SessionDevices

Extends `CollectProperties` by four variables: where `PMW_COMM_Init` is, the
global `gp_DIMM_devices`, what became of the array of each Start, and how many
contexts are open. `CollectApi`'s one step from "Start called" to "Start
succeeded or failed" becomes `EnterInit`, `CreateContext`, `ReadTopology` and
one of `FailsBefore`, `InitFails`, `InitSucceeds`, between which Readers and old
collectors go on; every other step leaves the devices alone (`OtherStep`). An
array is named by the Start that allocated it, so "the collector of session 2
reads the array of session 1" can be said. That the composition is a refinement
of `CollectApi` is a theorem, `SessionsRefine`.

### HealthRow

One action reads a page and prints its row. `percentage_used` is per DIMM and
kept from page to page; `text` and `degrees` are the four temperatures as
printed and as stored, which all DIMMs share. `Unset` is what was on the stack.
Two history variables, the last page of each DIMM and the share it last said
remains, are what the properties compare rows with. What comes out:

- a DIMM whose page has all flags gets its own row (`OwnRow`), with one
  exception in the code that the property states as it is: the buffer drops the
  sign of a temperature (`pmw_collect.c:953`, 1029) that the file keeps, so a
  client sees -5 as 5;
- a DIMM whose page has no temperature shows the one of the DIMM printed before
  it, and, before any DIMM had one, whatever was on the stack. `docs/README:85`
  and the lines after it define the columns as the current temperatures of the
  media and the controller, which is what `TemperaturesAreOwn` says and
  `stale_temperature.cfg` refutes.

### Sampling and Metrics

`phase` is where the loop is; `i`, `j`, `loops`, `itr`, `num_skips`,
`usec_sample_time` and its `_prev` are the code's. `sample[d]` holds the two
samples of DIMM `d` and `pre[d]` says which is the older one, as the swapped
pointers do. `hw`, `growth`, `lines` and `overflow` are history: what the
hardware counter really is, how far it got between two reads, how many lines
were finished, and whether `adjust_for_overhead` ever computed what an `int`
cannot hold. The clock is the choice, at the end of a row, of how long it took,
where a clock that was set back gives `Word - 1`.

Numbers keep their width:

- unsigned 64-bit arithmetic is arithmetic modulo `Word`;
- an `int` wraps at `IntWord`, as it does in the compiled program: the cast of
  the sampling time (`pmw_collect.c:391`), the product of samples and seconds
  (397), the new number of loops and the number of skipped ones. Overflow of a
  signed product is undefined in C, and `overflow` marks every run that met it;
- the old sampling time goes through a `float` (381) with `FloatBits` bits of
  significand: `Float` rounds the microseconds to the nearest that has so few
  bits, `FloatSeconds` the quotient, and `FloatToInt` cuts it;
- `usleep` takes the lowest bits that fit an `unsigned int` (`slept`).

### Tool

`at` is where `main` is, `option` what it was called for. `machine` (devices in
libipmctl's order, root) never changes. Each device has its firmware: supported,
too old, or a version that cannot be parsed. `is_prer_fw` is what
`pmw_comm_Check_PreR_FW` finds: a version that cannot be parsed makes it return
(`pmw_comm.c:577`, `Exiting...`) before the unsupported ones that it has counted
(599), also of the DIMMs before, have set its result (604), and no caller looks
at the error it returns. So `SuccessIsEarned` speaks of machines all of whose
versions can be parsed; that unsupported firmware is always refused is
`OnlySupportedFirmware`, which `firmware_unparsed.cfg` refutes. A failing
action of the communication layer goes to where its caller's error path leads,
which depends on the option (`FailsWith`, `FailsLate`). Sorting is what `qsort`
promises: the devices in any order that `Compare_Topology` agrees with, with the
`int` its unsigned subtraction yields. Assumed of the hardware: a handle orders
as its socket does and leaves its top bit clear, which is how `pmw_comm.c` uses
it. Assumed of libipmctl: a call that fails leaves the number of devices alone,
and calls that succeed agree on it.

### CommandLine and Report

A command line is a sequence of words; `Numeral` says which are numbers and what
`atof` makes of them, `TooLong` which do not fit in a file name. The first two
words decide between the snapshot, a finite and an endless run (`FirstWords`);
from the second word on every word is tried as an option (`Scan`), whatever the
words before it meant, so that the name after `-f` may be taken for an option, a
second `-f` overrides the first, and `-F` before `-f` still appends.
`AskedIsDone` says what all this amounts to, in terms of the words alone.
Without `-td` the delimiter is a semicolon; the help names a comma
(`default_delimiter`). A number of samples that is not a number, or is less than
one (`0.5`), counts as 0 and gives an endless run.

`Report` follows a run from there, with `at` for the program counter. A report
is a sequence of pieces, what one `fprintf` prints: a header, a time stamp, the
cells of a DIMM (or of a package, in the grouped format), the end of the row.
`buffer` is stdio's; `PrintsFlushed` is a print followed by `fflush`, `Spill` is
libc making room at any time, `Exit` is `fclose`. `Stop` is `pmwatch-stop`, at
any step, and loses the buffer; it also stands for the crash of
`subsecond_overrun` and any other sudden end. The file stays for the next run,
which empties it with `-f`, before it has checked that it can run at all, or
appends with `-F`. `kept` and `cut` are history: the rows printed since the file
was last emptied, and the runs that were cut short.

The formats are sequences of column names. Header and row of the default and the
health format are two constants; those of the grouped format are built by two
different nests of loops, `HeaderOfPackage` (four loops over the DIMMs one after
the other, `pmw_collect.c` 246-269) and `Cells` (one loop over the groups around
one over the DIMMs, 687-776), and depend on the sockets of the DIMMs.

The file's name in the model contains ".csv": the code then adds no extension.
Two spellings of an option are one word.

## What is checked

### Runs that pass

| Run | Instance | Distinct states | Shows |
|---|---|---|---|
| `first_session` | 1 session, 2 readers, 2 DIMMs, 3 intervals, either kind; Start, calloc and devices fail, overruns | 24,499 | `CollectApi` implements `MetricsFeed` (`FeedSpec`); a Read copies a live buffer (`ReaderBufferSafe`), which is freed once (`ReleaseOnce`); a successful Read never gives the zeros of `calloc` (`ReadAfterFirstWrite`) and is one interval, or the mixed rows of a collector that has failed (`SnapshotOrFailed`); the inductive `WholeInv`; nobody polls for an answer that is not coming (`StopIsAnswered`, `ReadIsAnswered`), and the lock always has a holder who will give it back (`LockHasHolder`) |
| `repeated_sessions` | 2 Starts that may fail at any step of `PMW_COMM_Init`, 1 reader, Stop during Reads, performance metrics | 139,819 | Stop's wait separates the two sessions' collectors (`OneCollector`, `CollectorBufferSafe`) and their devices (`DevicesInSession`), arrays are freed once (`FreedOnce`), a failed Start keeps nothing (`OnlySuccessKeeps`), `SessionInv`, and Stop's poll is answered in every session (`StopIsAnswered`) |
| `health_rows` | 2 DIMMs, 3 intervals, full, partial and empty pages, with and without a buffer | 4,600 | a full page is its DIMM's printed row, the used share is the DIMM's own on any page, file and buffer agree |
| `sampling` | words of 1024, ints of 512, floats of 2 bits, 2 DIMMs, times of 1, 1.5, 3.5 and 100 s (an int ends at 128 s), 0, 1, 3 or 5 samples, rows up to 6.5 s or of 150 s, errors and a clock that steps back | 152,756 | rows print growth across wrap-arounds, metrics agree with each other, samples are printed or reported as skipped unless an int overflows, skipping prolongs a run only by a rounded float, finite runs end |
| `tool` | every machine of at most 3 of 4 DIMMs on 3 sockets, in every order, with any firmware on up to 2 of them; both calls; all failures | 21,488 | devices are there when used, freed once, everything given back, exit code 0 only for a machine the tool can collect on (where all versions can be parsed), every DIMM in every report under the same number |
| `report` | 2 runs on one file, the first with every command line of up to 3 of 13 words and eight longer ones; 1 DIMM or 3 on 2 sockets; killed anywhere, DIMMs that do not answer | 53,218 | words are understood in any order (`AskedIsDone`), finished rows stay (`RowsSurvive`), columns fit their header (`RowsFitHeader`), a line breaks off only where its run was cut short (`CutOnlyAtEnd`) |

### Why the bounds are enough

Two DIMMs are the least that a torn interval needs. Three intervals are the
first (which Read waits for), one that a second Read sees, and one the collector
may be writing meanwhile; after that the collector's state repeats except for
the number. Two readers compete for the lock with each other and with the
collector. Two Starts are the least for state that outlives its session, and for
a thread of one session that meets the next. Two readers are few enough to do
without symmetry. In `Sampling` the second step of `SomeAdvances` wraps three of
the four counters and has more writes than reads, the first has not; elapsed
times of 1, 4 and 13 units against times of 2 and 3 fit, double once or twice,
and double three times; a time of 200 doubles past the sign change of the `int`;
one of 7 (3.5 s) is 8 in a float of two bits, and so 4 s; a request of 5 leaves
samples after an overrun, 1 does not. `MaxInterval`, `MaxStarts` and `MaxRows`
bound counters in guards; the doublings of an overrun are bounded by 2 in
`CollectApi` and unbounded in `Sampling`. In `Tool` nothing but the machine is
bounded: two DIMMs are the least for which the check of the firmware can meet
one before the one it cannot parse.

In `HealthRow` two DIMMs are the least that share a temperature, and the third
interval is the first that can show what the second DIMM left in the second one.
In `Report` three DIMMs on two sockets are the least for which the order of
packages, groups and DIMMs can be confused; two runs, for one that appends to
what another left; `MaxRows` bounds the rows of an endless run, and two rows
show what is flushed and what is not.

Deadlock is checked in every run. `Terminated` and `Exited` are the states in
which the bound is reached, or `main` has returned for the last time.

### Progress and fairness

The one liveness property is `FiniteRunEnds`: a run of the tool with a number of
samples ends, whatever the clock shows. It needs weak fairness of `Sampling`'s
step, that is, a process with one thread that goes on running.

That Stop or Read *return* is not claimed, because the code does not ensure it.
Both poll in tight loops, without a sleep, that lock and unlock `buffer_lock`
(`pmw_collect.c` 1271-1277, 1301-1307); it is a default mutex, which promises
nobody a turn. A poller may keep the collector from its lock, and the collector
and other Reads may keep a Read from it. What the code is responsible for are
the three safety properties that have to hold for progress to be possible at
all:

- `StopIsAnswered`: while Stop polls, `collection_done` or `thread_status` is
  set, or a thread is at a place from which every way on leads to setting one of
  them;
- `ReadIsAnswered`: the same of a Read that waits for the first interval or an
  error;
- `LockHasHolder`: whoever holds the lock is between a lock and its unlock.

Losing the wakeup on one of the error paths (a calloc, the baseline, a row, a
Start that fails), storing `thread_status` only when the collection succeeds, or
returning without an unlock would violate them. `ReadIsAnswered` is checked for
a client that does not call Stop during a Read: a Stop that clears
`infinite_run` before the first interval ends the loop without one, and a Read
that was waiting polls for ever.

### Disagreements between the code and what it says

Each stops at one property. Of the six runs of this table `PROJECT.json` quotes
the line of the code that says otherwise.

| Run | Property | What happens |
|---|---|---|
| `stop_closes_file` | `FileOpenWhenUsed` | after a run that skipped intervals the collector prints to `fout` (`pmw_collect.c:809`) after it has set `collection_done`; Stop may have closed the file by then |
| `start_retried` | `CollectorBufferSafe` | a Start that failed leaves `collection_done` set; the next session's Stop does not wait and frees the buffer its collector writes to |
| `second_session_read` | `ReadAfterFirstWrite` | `write_count` is never reset: in a second session a Read does not wait for the first interval |
| `second_session_error` | `ReadErrorIsCurrent` | `thread_status` is never reset: a Read of the next session reports the last one's error |
| `subsecond_overrun` | `NeverCrashes` | a finite run with a sampling time below a second divides by zero at its first overrun (`pmw_collect.c:397`) |
| `avail_warning` | `WarningReadsDevices` | `pmwatch -a` frees the array of devices after a failed discovery, and the warning it then prints reads it (`pmw_comm.c:831`) |

The second table are configurations beside them, for what the properties of the
passing runs except (`SuccessIsEarned`, `EverySampleAccounted`,
`RunNotProlonged`), and for what a document promises and the code does not keep.
`tlc -config firmware_unparsed.cfg MCTool` and so on (`MCSampling`, `MCHealth`
and `MCReport` for the others) end in a counterexample.

| Configuration | Property | What happens |
|---|---|---|
| `firmware_unparsed` | `OnlySupportedFirmware` | a version that cannot be parsed ends the check before the unsupported ones it has counted are reported, and nobody looks at its error: the tool says "Exiting...", collects, and exits with 0 (`pmw_comm.c:577`, 599, 604) |
| `many_samples` | `NoSampleLost` | the product of samples and seconds overflows an `int` (`pmw_collect.c:397`): `pmwatch 2 2000000000` ends at its first overrun, with more intervals skipped than were asked for |
| `long_interval` | `NoSampleLost` | from 2147.5 to 4295 s `(int) usec_sample_time` is negative (391): `pmwatch 1100 10` with one longer row reports 15 of its 10 samples as skipped |
| `float_rounding` | `NeverProlonged` | above 2^24 microseconds (16.8 s) a `float` may round the old sampling time up to the next second (381): an overrun turns the 561 s of `pmwatch 16.999999 33` into 578 s |
| `long_sleep` | `SleepsAsTold` | `usleep` takes 32 bits (`pmw_utils.c:427`), 71.6 minutes: a sampling time of two hours sleeps 2905 s |
| `read_hit_ratio` | `ReadHitRatioInRange` | a ratio up to 1 is printed, where `docs/README:30` gives 0.75 as the most; so is `write_hit_ratio`, for which line 31 gives 0.1 |
| `total_transacted` | `TotalTransacted` | of a row with more writes than reads the documented sum (`docs/README:23`) is more than what was transacted, as the reads are printed as 0 |
| `stale_temperature` | `TemperaturesAreOwn` | a row shows another DIMM's temperature, or the stack's, as the current one |
| `default_delimiter` | `DelimiterAsHelped` | the help names the comma as default delimiter (`pmwatch.c:78`), the default is the semicolon (95) |

The passing runs exclude exactly these: `first_session` has one session,
`repeated_sessions` no collector that fails and no Start retried without a Stop,
`sampling` no sampling time below a second. `EverySampleAccounted` excepts runs
with `overflow`, `RunNotProlonged` these and the sampling times that the float
rounds up, and `sampling` reaches both. That a Read may return 0 with rows of
two intervals, between the failure of a DIMM and the moment `thread_status` is
stored, is part of what `MetricsFeed` promises (its `Fail`): `SnapshotOrFailed`
says which rows they are.

Smaller things met on the way, on which the repository's texts take no position:
with `-g -hi` the report says "# Metric Grouping Format" above health rows; with
`-l -hi` it names the health columns as averages above a snapshot; the count of
skipped intervals is printed into the unfinished row of a run that a DIMM ended;
`pmwatch-stop` kills the first process it finds and looks at the status of an
`echo` (`pmwatch-stop:45`), so it reports success even when the kill failed; the
tool exits with 0 when a DIMM that does not answer ended its collection.

## What is proved

For every value of the constants that satisfies the modules' assumptions.

| Theorem (module) | Says | Hypothesis |
|---|---|---|
| `TypeCorrect` (`CollectApi_proofs`) | `Spec => []TypeOK` | none |
| `SessionsAreSafe` | no collector writes to a buffer that is not allocated, no two collectors run, over any number of sessions | `QuietSessions`: only Start fails, the client does not retry, one kind of collection |
| `WholeInvariant` | `Spec => []WholeInv`: the buffer is the published interval, the one being written row by row under the lock, or what a failure left of it | `OneSession`: at most one Start, no Stop during a Read; anything may fail |
| `SessionImplementsFeed` | such a session implements `MetricsFeed` | the same |
| `SessionBufferSafe` | neither the collector nor a Read uses a buffer that is not allocated | the same |
| `ReadsAreExplained` | a Read gives one interval or what a failure left of it (`SnapshotOrFailed`), never the zeros of `calloc`, and an error only of a collector that failed | the same |
| `FirstStopIsAnswered` | a Stop that polls has its answer or a thread on its way to give it | the same |
| `FirstReadIsAnswered` | so has a Read that polls | the same |
| `LockIsGivenBack` | `buffer_lock` is held only between a lock and its unlock | the same |
| `SessionsRefine` (`SessionDevices_proofs`) | the composition implements `CollectApi` | none |
| `CollectorsReadTheirDevices` | a collector reads the live array of its own Start, over any number of sessions | `QuietSessions` |
| `DevicesFreedOnce` | no array of devices is freed twice, whatever fails | none |
| `QuietInvariant` (`CollectApi_proofs`) | `Spec => []SessionInv`: an unfinished thread is of the session that is open | `QuietSessions` |
| `SessionsReleaseOnce` | Stop frees the buffer and closes the file of its own session, once each, over any number of sessions | `QuietSessions` |
| `FirstStopReleasesOnce` | the same of the first session, whatever fails, unless the collector failed before its first interval | `OneSession` |
| `StopsAreAnswered` | Stop's poll has its answer, or a thread on its way to give it, over any number of sessions and during Reads | `QuietSessions` |
| `FailedStartsKeepNothing` | what stays allocated is one array and at most one context for each Start that succeeded | none |
| `HealthTypes` (`HealthRow_proofs`) | every value of a health row fits its C type | none |
| `FullPagesAreReported` | the printed row of a DIMM whose page has every flag says what that page says, and the used share in any row is the DIMM's own | none |
| `FileAndBuffer` | file and buffer tell the same but for the sign | none |
| `SamplingTypes` (`Sampling_proofs`) | samples, differences and times fit their C types | none |
| `RowsAgree` | the derived metrics of every row agree with each other: totals, media operations, ratios in 0..1 | none |
| `SkippingShortens` | `Spec => RunNotProlonged`: the samples left take no more time at the doubled sampling time, where no int has overflowed and the float has not rounded the old time up to the next second (both in the property) | `ClockOK`: no row lasts half as long as a `uint64_t` counts |
| `RowsPrintGrowth` | every row prints how far the counters got, on both sides of a wrap-around, for every word size | none |
| `SamplesAccounted` | a finite run prints or reports as skipped every sample asked for, for all sampling times, requests, overruns and float roundings | no int has overflowed (in the property) |
| `ToolTypes` (`Tool_proofs`) | every variable of the tool's process keeps its type | none |
| `CountIsRight` | `Spec => []DevicesInUse`: where devices are read, the array is live and has `count` of them | none |
| `NoDimmMissing` | `Spec => []EveryDimmReported`: in whatever order libipmctl names the DIMMs, each is in the report once, under the same number, in a package that is printed | none |
| `OrderExists` | the order `qsort` is asked for exists, on every machine | none |
| `EverythingGivenBack` | a collecting process gives back context, array and file on every path; no process frees the array twice | none |
| `SuccessIsForFitMachines` | exit code 0 only for root, on a machine whose DIMMs are all counted and, if every version can be parsed, none with unsupported firmware | none |
| `CommandLineUnderstood` (`Report_proofs`) | any words, however many, are refused for a reason or give each option its own effect and no other, in any order | none |
| `ReportTypes` | every piece that is printed, and every variable of a run, keeps its type | none |
| `FinishedRowsSurvive` | `Spec => []RowsSurvive`: a finished row stays in the file, whole and once, until a run with `-f` and without `-F` | none |
| `LinesBreakAtCuts` | `Spec => []CutOnlyAtEnd`: a line breaks off only where its run was cut short | none |
| `HeaderFits` (`ReportColumns_proofs`) | the columns of a row are those of the header, in every format, for any number of DIMMs and packages | the format has rows |
| `RowsHaveHeaders` (`Report_proofs`) | `Spec => []RowsFitHeader`: a row that ends is whole, below its run's header, with its columns | none |

### The arguments

**Sessions** (`SessionInv`). `CollectorBufferSafe` is not inductive: nothing in
it says that Stop's wait was for the thread that writes. The strengthening is
`ThreadOfSession`: a thread that has not set `collection_done` belongs to the
Start counted last, that session is still open or being waited for,
`collection_done` is 0 and `using_api` is 1. So Stop cannot leave its wait
before that thread is past its loop, and no new session can begin. `NeverFailed`
is needed because `thread_status` also ends the wait and survives it.
`JobOfThread` says which threads exist at all and that a thread of a session of
one kind runs one collection. The hypothesis is what the code needs:
`start_retried` is the counterexample without its part about the client, and
`second_session_error` shows the `thread_status` that the part about device
errors excludes.

**Releases** (`ReleaseInv`, on top of `SessionInv`). `FileInv` ties `fout` to
where Start and Stop are. `OwnBuffer` says that from the collector's `calloc` to
Stop's `free` the buffer is allocated: nobody else frees it, because an error
path of the collector needs a failure, and the next collector needs the next
Start. In the first session failures are allowed, and `FreedByCollector` says
which: a buffer freed before Stop was freed by a collector that failed before
its first interval. That is the one case `ReleaseOnce` leaves out, as `free`
then gets the pointer of a buffer that the collector has given back.

**Answers.** `StopIsAnswered` becomes inductive when it starts with Start
(`Answerable`): from the step that creates the thread, or fails to, somebody is
on the way to report. A thread on its way is one that will run its job, is in
its loop with `using_api` set, or has failed and is about to store that
(`WillReport`). Each step of a collector keeps it there or sets the answer; a
step that is not a collector's cannot take it off, because Stop clears
`using_api` only after its wait. That is where both kinds of sessions enter:
`CollectorInSession` follows from `SessionInv` and from `WholeInv`, so one lemma
(`AnswerStep`) serves both theorems. For a Read the way is narrower: the loop
must not end before its first interval, which `infinite_run` ensures until Stop
is called (`ReadAnswerable`).

**Whole intervals** (`WholeInv`). The refinement maps the session to the feed by
`open <- ctl \in {"open", "wait"}`, `published <- write_count`, `view <- ` what
each reader got. A Read step implements the feed's only if the buffer it copies
is interval `write_count` for every DIMM, or `TornAt` it for a DIMM that failed
(`Settled`). That needs: one holder of the lock (`OneHolder`); the collector
being exactly one interval ahead from its increment until `Publish`, and its
rows before `dimm` new and from `dimm` old (`CollectorAhead`, `WrittenTo`),
which is what a failure leaves; Reads only in an open session and never before
the first interval (`ReadersInSession`); and the buffer staying in place between
the end of the collector and Stop's free (`PublishedWhole`). `Publish` and the
failure of a DIMM map to the feed's; the other steps of the collector to
stutters. `ReadsAreSettled` keeps what a Read got after the buffer has moved on.

**Devices.** The composition's steps are steps of `CollectApi` or leave it alone
(`SessionsRefine`), so its theorems carry over. `DevicesInv` adds that
`PMW_COMM_Init` begins without an array and has its own once the topology is
read; that alone gives `DevicesFreedOnce`. For `CollectorsReadTheirDevices`,
`SessionInv` says that an unfinished thread belongs to the last Start, which is
therefore over, so nobody can have replaced the array since. `OnlySuccessKeeps`
counts, so `KeepInv` says which Starts have a live array (those that succeeded,
and one that has read the topology) and bounds the contexts by their number;
`SucceededGrows` is the step from one cardinality to the next.

**Samples** (`PlanInv`). As long as nothing has overflowed, `loops + num_skips`
is the number asked for after every rescaling, `lines` follows `i`, and `loops`
stays ahead of `i` because a quotient of seconds that are not negative is not
either (`QuotientType`, `SecondsFit`). `Int32Same` is where `overflow` enters:
what an `int` holds does not wrap, so the sums are those of the code's comments
(`RescaledPlan`). The float plays no part: whatever it makes of the old time,
what is not left is skipped.

**Skipping** (`StretchInv`). `RescaleIsShort` is the arithmetic: when the
sampling time becomes a multiple of itself, with the quotient of the seconds
rounded down, the intervals left shrink by at least that factor
(`FewerIntervals`; the float's seconds only have to be no more than the exact
ones, `RoundedDown`). `StretchInv` adds that the new time is such a multiple
while overhead is accounted for. That is false of a doubling that passes the
largest `uint64_t`, which only a row that took half of it leads to: 292 000
years, ruled out by `ClockOK`. A clock that stepped back, which reads as `Word -
1`, needs no assumption: the doubled time is even (`EvenWraps`) and so never
reaches it, and the run ends with an error, not with a new sampling time.

**Metrics.** `DifferencesAgree` has no steps: whatever differences the macro can
yield, the derived counts are differences of them that cannot be negative
(`MediaOperations`), and a hit ratio is a fraction (`RatioIsFraction`).

**Health rows.** The invariant relates each DIMM's line and buffer to the page
it gave last and to the shared texts and numbers at that moment; a text and its
number differ by the sign only, because every conversion sets both
(`FileAndBuffer`), and are unset together.

**Growth.** `DifferenceIsAdvance` is the arithmetic: the difference macro undoes
an addition modulo the word for any advance below the word. The invariant adds
that `sample[d][pre[d]]` is the hardware counter as last read.

**Command line** (`ScanInv`). The state of the scan is what the first two words
say (`FromHead`) and what the options before `itr` add (`FromOptions`,
`FormatSeen`). Each step adds the word at `itr`; at the end of the words the
options seen are the options given.

**Tool** (`ToolInv`). `GivenBack` follows the array and the context along every
path: no array before the topology is read, one Cleanup on every way on from
there, a context count of 0 or 1. `CodeIsRight` follows the exit code: it is
`success` until something fails, the checks already passed are known at each
place, and nothing clears a failure. `FirmwareFound` is what the check has
established when it lets the tool go on: the sorted array holds the machine's
devices, so if all versions can be parsed and none is found unsupported, none
is.

**Order of the DIMMs** (`TopologyInv`). The array is one that `qsort` may leave:
a permutation of the devices in which no later one compares less
(`SortedDevices`). Handles are below half of an `unsigned int`'s range, so the
`int` that `Compare_Topology` returns is the difference
(`ComparisonIsDifference`) and the order is that of the handles; handles order
as sockets do, so the last device's socket bounds the number of packages.
`OrderExists` shows that this asks something possible of `qsort`: the place of a
device is one more than the number of devices below it, and places are distinct
because handles are.

**The file** (`FileInv`). The properties are about `file`, but what is lost or
kept is decided in the buffer, so the invariant is about `printed`, the file
followed by the buffer: `Spill` and `Exit` leave it alone, a print appends one
piece, and only `Stop` takes something away. Its parts are the row in progress
(`RowInv`: a stamp and the cells that `j` counts are the end of `printed`, and
of no other row are there pieces of this interval), the rows that are over
(`WholeInv`; `KeptInv`, which adds that they are in the file already, because
the end of a row is flushed), the headers above them (`HeadedInv`) and the rows
that are not over (`CutInv`: followed by their next piece, in progress, or of a
run in `cut`, which prints nothing more than its skipped intervals). `OrderInv`
keeps the rows of runs and intervals apart. `RowsSurvive` and `CutOnlyAtEnd`
follow because the file is a prefix of `printed`; the second needs `ProcessInv`
where that prefix ends, as the buffer is the running process's and empty without
one.

**Columns** (`HeaderFits`). Header and row are lists of lists, joined.
`FlattenSeq` is a recursive function, and `FlattenJoins` takes the recursion out
of it: there is a function `f` with `f[k] = f[k - 1] \o seqs[k]`, whose last
value is the list. It exists because a shorter one can be prolonged
(`JoinMore`), and two of them agree (`OneJoin`); both are inductions over the
set of numbers for which the claim holds (`CountUp`: a least number outside the
set would have its predecessor in it). Giving every column its title then
commutes with joining (`TitledConcat`, `TitledFlatten`), which leaves equations
between lists of two to ten names.

`WholeInv` and `SessionInv` are invariants of passing runs. The invariants of
the other proofs hold on the instances of `tool`, `sampling`, `health_rows` and
`report` too, where their consequences are the properties checked.

### Only model-checked

- Liveness: `FiniteRunEnds`. Fairness is about `ENABLED`, which none of the
  provers reasons about.
- Over more than one session in which collectors fail, or whose client retries:
  the code does not keep `CollectorBufferSafe`, `ReadAfterFirstWrite` and
  `ReadErrorIsCurrent` there, as the runs of the table above show. Nor does it
  keep `ReaderBufferSafe` over several sessions, since `write_count` survives
  Stop and a Read may copy before the next collector has allocated.
- The instances themselves: that their words, times and pages meet every case is
  the argument [above](#why-the-bounds-are-enough), and not a theorem.

Every invariant that a passing run checks is the conclusion of a theorem, most
of them for all constants, those of the sessions under the hypothesis the table
names.

## What is not modelled

- **A driver that changes its answer** about the number of DIMMs during a run:
  `PMW_COMM_Get_Number_of_DIMM` asks again and rewrites the global `count`.
- **A `pthread_create` that fails**: Start ignores its result, and then every
  Read and Stop polls for ever.
- **A Read that Stop overtakes before the first interval**: it polls for ever,
  or reads what the next session leaves (see
  [progress](#progress-and-fairness)); no document says what it should do.
- **Wording and layout**: texts, digits, where the delimiter is printed, the
  extension added to a file name, key/value printing of `pmwatch -a`.
- **The width of the number of samples**: a number above that of an `int`, which
  `pmwatch_parse_cli` casts without a test.
- **`PMW_COMM_Get_Count_by_Topology`**, which nothing calls, and the Windows
  loader of the DLL, which is the same calls by other names.
- **How the stop scripts find the process**, build, packaging and installation:
  shell scripts without state.

## Plan

Done, in this order: `CollectApi` with its faults and client liberties, and
`MetricsFeed` above it; `Metrics` and `Sampling`; `Tool`; `HealthRow`;
`SessionDevices`; `CommandLine` and `Report`; the theorems above.

Next:

1. A refinement above `Report`: a log of whole rows to which a run appends, and
   of which only `-f` takes anything away.
2. `ReadsAreExplained` for every session whose first interval has been written,
   which is what remains true over several of them.
3. The time of a session: `adjust_for_overhead` of `CollectApi` shown to be an
   abstraction of `Sampling`'s.
