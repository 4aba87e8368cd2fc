------------------------------- MODULE Sampling -----------------------------
(***************************************************************************)
(* One run of the command line tool's collection loop:                     *)
(* PMW_COLLECT_Print_Smart_Counters with using_api clear, and              *)
(* adjust_for_overhead.                                                    *)
(*                                                                         *)
(* Each DIMM has two samples; a row prints the difference between the one  *)
(* just read and the one before, and the two change roles.  When reading   *)
(* and printing a row outlasts the sampling time, that is doubled until it *)
(* does not, and the intervals that no longer fit are skipped.             *)
(*                                                                         *)
(* Time is counted in units of which Second make a second.  hw, growth,    *)
(* lines and overflow are not in the program: the DIMMs' own counters, how *)
(* far they got between two reads, how many lines of output were finished, *)
(* and whether adjust_for_overhead ever computed what an int cannot hold.  *)
(* An int wraps then, as it does in the compiled program.                  *)
(***************************************************************************)
EXTENDS Metrics

CONSTANTS
  count,       \* DIMMs
  Second,      \* units in a second (MICRO_SEC)
  IntWord,     \* the number of values of an int
  FloatBits,   \* bits in the significand of a float
  Intervals,   \* sampling times the user may ask for, in units
  Requests,    \* numbers of samples the user may ask for, 0 for no end
  Elapsed,     \* how long a row may take, in units
  Advances,    \* how far the counters of a DIMM may get between two reads
  MaxRows,     \* bound: rows of an endless run
  Faults       \* "device": a DIMM does not answer; "clock": time steps back

ASSUME SamplingOK ==
  /\ count \in Nat \ {0} /\ Second \in Nat \ {0} /\ IntWord \in Nat \ {0}
  /\ FloatBits \in Nat
  /\ Intervals \subseteq Unsigned /\ Requests \subseteq 0 .. IntWord \div 2 - 1
  /\ Elapsed \subseteq Unsigned /\ Advances \subseteq Sample
  /\ MaxRows \in Nat /\ Faults \subseteq {"device", "clock"}

VARIABLES
  phase,       \* "read", "adjust", "sleep", "done" or "crashed"
  i, j,        \* interval and DIMM
  asked, loops, infinite_run,
  usec_sample_time, usec_sample_time_prev,
  elapsed_time, itr, num_skips, ret_code,
  slept,       \* for how long usleep was called last
  sample,      \* of each DIMM: sample1 and sample2
  pre,         \* of each DIMM: which of the two is pre_sample
  diff,
  hw, growth, lines, overflow

time  == <<usec_sample_time, usec_sample_time_prev>>
run   == <<asked, infinite_run>>
plan  == <<loops, num_skips, overflow>>
dimms == <<sample, pre, diff, hw, growth>>
vars  == <<phase, i, j, run, plan, time, elapsed_time, itr, ret_code, slept, dimms,
          lines>>

DIMM == 0 .. count - 1
Zero == [c \in Counters |-> 0]
Other(s) == 3 - s

Init ==
  /\ phase = "read" /\ i = 0 /\ j = 0
  /\ asked \in Requests /\ loops = asked
  /\ infinite_run = (IF asked = 0 THEN 1 ELSE 0)
  /\ usec_sample_time \in Intervals /\ usec_sample_time_prev = usec_sample_time
  /\ elapsed_time = 0 /\ itr = 0 /\ num_skips = 0 /\ ret_code = 0 /\ slept = 0
  /\ sample = [d \in DIMM |-> [s \in {1, 2} |-> Zero]]
  /\ pre = [d \in DIMM |-> 1]
  /\ diff = [d \in DIMM |-> Zero]
  /\ hw = [d \in DIMM |-> Zero] /\ growth = [d \in DIMM |-> Zero]
  /\ lines = 0 /\ overflow = FALSE

\* The DIMM's counters are as wide as the program's and wrap like them.
Advanced(h, a) ==
  [c \in Counters |-> IF h[c] + a[c] < Word THEN h[c] + a[c] ELSE h[c] + a[c] - Word]

Observe(a) ==
  /\ hw' = [hw EXCEPT ![j] = Advanced(hw[j], a)]
  /\ growth' = [growth EXCEPT ![j] = a]

\* Interval 0 fills pre_sample.
ReadBaseline(a) ==
  /\ phase = "read" /\ i = 0 /\ j < count
  /\ Observe(a)
  /\ sample' = [sample EXCEPT ![j][pre[j]] = hw'[j]]
  /\ j' = j + 1
  /\ UNCHANGED <<phase, i, run, plan, time, elapsed_time, itr, ret_code, slept,
                 pre, diff, lines>>

\* Every later interval fills cur_sample, prints the difference and switches.
ReadRow(a) ==
  /\ phase = "read" /\ i > 0 /\ j < count
  /\ Observe(a)
  /\ LET cur == Other(pre[j]) IN
       /\ sample' = [sample EXCEPT ![j][cur] = hw'[j]]
       /\ diff' = [diff EXCEPT ![j] = Cal_Diff(sample[j][pre[j]], hw'[j])]
       /\ pre' = [pre EXCEPT ![j] = cur]
  /\ j' = j + 1
  /\ UNCHANGED <<phase, i, run, plan, time, elapsed_time, itr, ret_code, slept,
                 lines>>

DeviceFails ==
  /\ phase = "read" /\ j < count /\ "device" \in Faults
  /\ ret_code' = 1 /\ phase' = "done"
  /\ UNCHANGED <<i, j, run, plan, time, elapsed_time, itr, slept, dimms, lines>>

\* The end of the line, and of the interval that start_time began.  When the
\* clock has stepped back, cur_time - start_time is close to the largest
\* uint64_t.
EndRow(e) ==
  /\ phase = "read" /\ j = count
  /\ lines' = IF i > 0 THEN lines + 1 ELSE lines
  /\ elapsed_time' = e /\ itr' = 0
  /\ phase' = "adjust"
  /\ UNCHANGED <<i, j, run, plan, time, ret_code, slept, dimms>>

\* One turn of the loop of adjust_for_overhead.
\* (See Metrics about the definitions with a planted fault.)
Overhead == elapsed_time > usec_sample_time
OutOfLoops_NotCounted == i > loops /\ infinite_run = 0
OutOfLoops == i + itr + 1 > loops /\ infinite_run = 0
DoubleTime ==
  /\ phase = "adjust" /\ Overhead
  /\ usec_sample_time' = (usec_sample_time * 2) % Word
  /\ itr' = IF infinite_run = 0 /\ itr <= loops THEN itr + 1 ELSE itr   \* as far as it matters
  /\ IF OutOfLoops THEN ret_code' = 1 /\ phase' = "done"
                   ELSE UNCHANGED <<ret_code, phase>>
  /\ UNCHANGED <<i, j, run, plan, usec_sample_time_prev, elapsed_time, slept, dimms,
                 lines>>

\* (int) x for an x that an int may be too narrow for, the ints that a product
\* or a sum should be, and C's truncating division.
Int32(x) == ((x + IntWord \div 2) % IntWord) - IntWord \div 2
PositiveInt == 0 .. IntWord \div 2 - 1
Abs(n) == IF n < 0 THEN -n ELSE n
Quotient(n, p) ==
  IF (n < 0) = (p < 0) THEN Abs(n) \div Abs(p) ELSE -(Abs(n) \div Abs(p))

\* (float) x / Second, cut to an int.  A float is a multiple of the least power
\* of two that leaves its significand FloatBits bits; what lies between two of
\* them is rounded to the nearer one, and half way to the even one.  Below
\* one, where floats are finer, only the int counts, which is 0.
Unit(n, m) ==
  2 ^ (CHOOSE e \in 0 .. 64 : n < m * 2 ^ e /\ \A d \in 0 .. e - 1 : n >= m * 2 ^ d)
Nearest(n, unit) ==
  LET below == n \div unit
      rest  == n % unit
  IN IF 2 * rest < unit \/ (2 * rest = unit /\ below % 2 = 0) THEN below ELSE below + 1
Float(n) == LET unit == Unit(n, 2 ^ FloatBits) IN Nearest(n, unit) * unit
FloatSeconds(f) ==   \* in units of 2 ^ -FloatBits
  LET unit == Unit(f, Second) IN Nearest(f * 2 ^ FloatBits, Second * unit) * unit
\* What an int cannot hold becomes the least int.
FloatToInt(n) ==
  IF n \div 2 ^ FloatBits \in PositiveInt THEN n \div 2 ^ FloatBits
                                          ELSE -(IntWord \div 2)
Seconds(t) == FloatToInt(FloatSeconds(Float(t)))

sample_time_sec      == Quotient(Int32(usec_sample_time), Second)
sample_time_sec_prev_New == sample_time_sec
sample_time_sec_prev == Seconds(usec_sample_time_prev)

\* The rest of adjust_for_overhead.  A finite run divides by the whole
\* seconds of the new sampling time, which traps when there are none, or when
\* the quotient is the one that no int holds.
KeepTime ==
  /\ phase = "adjust" /\ ~Overhead
  /\ usec_sample_time = usec_sample_time_prev
  /\ phase' = "sleep"
  /\ UNCHANGED <<i, j, run, plan, time, elapsed_time, itr, ret_code, slept, dimms,
                 lines>>

SamplesTime == (loops - i) * sample_time_sec_prev
Traps ==
  \/ sample_time_sec = 0
  \/ sample_time_sec = -1 /\ Int32(SamplesTime) = -(IntWord \div 2)

Rescale ==
  /\ phase = "adjust" /\ ~Overhead
  /\ usec_sample_time # usec_sample_time_prev
  /\ IF infinite_run = 1
     THEN /\ phase' = "sleep" /\ usec_sample_time_prev' = usec_sample_time
          /\ UNCHANGED plan
     ELSE IF Traps
     THEN phase' = "crashed" /\ UNCHANGED <<usec_sample_time_prev, plan>>
     ELSE LET left == loops - i
              loops_left == Quotient(Int32(SamplesTime), sample_time_sec)
          IN /\ num_skips' = Int32(num_skips + left - loops_left)
             /\ loops' = Int32(i + loops_left)
             /\ overflow' =
                  (overflow \/ ~({usec_sample_time, SamplesTime, i + loops_left}
                                  \subseteq PositiveInt))
             /\ phase' = "sleep" /\ usec_sample_time_prev' = usec_sample_time
  /\ UNCHANGED <<i, j, run, usec_sample_time, elapsed_time, itr, ret_code, slept,
                 dimms, lines>>

\* usleep takes an unsigned int, and sleep_time is a uint64_t.
Sleep == slept' = (usec_sample_time - elapsed_time) % IntWord

\* The sleep, and the loop's increment and test.
Continues_OneLess == i + 1 < loops \/ infinite_run = 1
Continues == i + 1 <= loops \/ infinite_run = 1
NextSample ==
  /\ phase = "sleep" /\ Continues
  /\ infinite_run = 1 => i < MaxRows
  /\ Sleep
  /\ i' = i + 1 /\ j' = 0 /\ phase' = "read"
  /\ UNCHANGED <<run, plan, time, elapsed_time, itr, ret_code, dimms, lines>>

Finish ==
  /\ phase = "sleep" /\ ~Continues
  /\ Sleep
  /\ phase' = "done"
  /\ UNCHANGED <<i, j, run, plan, time, elapsed_time, itr, ret_code, dimms, lines>>

\* main has no more to do, the run has crashed, or the bound is reached.
Terminated ==
  /\ phase \in {"done", "crashed"} \/ (phase = "sleep" /\ infinite_run = 1 /\ i = MaxRows)
  /\ UNCHANGED vars

RowTimes == Elapsed \cup (IF "clock" \in Faults THEN {Word - 1} ELSE {})

Step ==
  \/ \E a \in Advances : ReadBaseline(a) \/ ReadRow(a)
  \/ DeviceFails
  \/ \E e \in RowTimes : EndRow(e)
  \/ DoubleTime \/ KeepTime \/ Rescale
  \/ NextSample \/ Finish

Next == Step \/ Terminated

Spec == Init /\ [][Next]_vars
FairSpec == Spec /\ WF_vars(Step)   \* the one thread of the process runs

(***************************************************************************)
(* Every variable has its type.                                            *)
(***************************************************************************)
Ints == -(IntWord \div 2) .. IntWord - IntWord \div 2 - 1
TypeOK ==
  /\ phase \in {"read", "adjust", "sleep", "done", "crashed"}
  /\ i \in Nat /\ j \in 0 .. count /\ lines \in Nat
  /\ asked \in PositiveInt /\ loops \in Ints /\ infinite_run \in {0, 1}
  /\ usec_sample_time \in Unsigned /\ usec_sample_time_prev \in Unsigned
  /\ elapsed_time \in Unsigned /\ itr \in Nat
  /\ num_skips \in Ints /\ ret_code \in {0, 1}
  /\ slept \in 0 .. IntWord - 1 /\ overflow \in BOOLEAN
  /\ sample \in [DIMM -> [{1, 2} -> Sample]]
  /\ pre \in [DIMM -> {1, 2}]
  /\ diff \in [DIMM -> Sample] /\ hw \in [DIMM -> Sample] /\ growth \in [DIMM -> Sample]

(***************************************************************************)
(* What a row prints for a DIMM is how far its counters got since the row  *)
(* before, on whichever side of a wrap-around the two samples are.         *)
(***************************************************************************)
RowsAreGrowth ==
  i > 0 => \A d \in 0 .. j - 1 : diff[d] = growth[d]

(***************************************************************************)
(* The derived metrics of a row agree with each other: a ratio lies        *)
(* between 0 and 1 and never divides by zero; bytes and media operations   *)
(* agree as long as the bytes fit a uint64_t; and of a row with no more    *)
(* writes than reads bytes_read + 2 * bytes_written is what was            *)
(* transacted.  docs/README promises more than that: see the next two      *)
(* properties.                                                             *)
(***************************************************************************)
Fits(d) == 64 * (d.bytes_read + d.bytes_written) < Word
MetricsAgree ==
  \A n \in DIMM :
    LET d == diff[n] IN
    /\ \A ratio \in {read_hit_ratio(d), write_hit_ratio(d)} :
         ratio[2] > 0 /\ 0 <= ratio[1] /\ ratio[1] <= ratio[2]
    /\ Fits(d) => /\ total_bytes_read(d) - 256 * media_read(d) \in 0 .. 255
                  /\ total_bytes_written(d) - 256 * media_write(d) \in 0 .. 255
    /\ Fits(d) /\ d.bytes_read >= d.bytes_written =>
         total_bytes_read(d) + 2 * total_bytes_written(d)
           = 64 * (d.bytes_read + d.bytes_written)

(***************************************************************************)
(* read_hit_ratio has a "Range of 0.0 - 0.75" (docs/README:30).            *)
(***************************************************************************)
ReadHitRatioInRange ==
  \A n \in DIMM :
    LET ratio == read_hit_ratio(diff[n]) IN 4 * ratio[1] <= 3 * ratio[2]

(***************************************************************************)
(* "The total number of bytes transacted in any sample" is bytes_read +    *)
(* 2 * bytes_written (docs/README:23), reads and writes of 64 bytes.       *)
(***************************************************************************)
TotalTransacted ==
  \A n \in DIMM :
    LET d == diff[n] IN
    Fits(d) => total_bytes_read(d) + 2 * total_bytes_written(d)
                 = 64 * (d.bytes_read + d.bytes_written)

(***************************************************************************)
(* A finite run that ends without an error has accounted for every sample  *)
(* it was asked for: it has printed it, or reports it as skipped.  The     *)
(* loops left that adjust_for_overhead computes are left, and the rest     *)
(* skipped (its comments, pmw_collect.c:396-400).                          *)
(***************************************************************************)
NoSampleLost ==
  phase = "done" /\ ret_code = 0 /\ infinite_run = 0 => lines + num_skips = asked

(***************************************************************************)
(* The same, whatever the overruns were, as long as adjust_for_overhead    *)
(* only met times, products and sums that an int holds.                    *)
(***************************************************************************)
EverySampleAccounted == ~overflow => NoSampleLost

(***************************************************************************)
(* Skipping intervals never makes a run longer: the samples left take no   *)
(* more time at the new sampling time than at the old one, where an int    *)
(* holds what is computed and the float has not rounded the old sampling   *)
(* time up to the next second.                                             *)
(***************************************************************************)
Rescaled == usec_sample_time_prev' # usec_sample_time_prev
Shortened == (loops' - i) * usec_sample_time' <= (loops - i) * usec_sample_time_prev
RoundedDown == Seconds(usec_sample_time_prev) <= usec_sample_time_prev \div Second
RunNotProlonged ==
  [][infinite_run = 0 /\ ~overflow' /\ RoundedDown /\ Rescaled => Shortened]_vars

\* What the proof of it assumes: no row lasts half as long as a uint64_t can
\* count (292 000 years).
ClockOK == Word % 2 = 0 /\ \A e \in Elapsed : 2 * e <= Word

(***************************************************************************)
(* The same whichever way the float rounds: the samples left are those     *)
(* that fit the time left (pmw_collect.c:396).                             *)
(***************************************************************************)
NeverProlonged == [][infinite_run = 0 /\ ~overflow' /\ Rescaled => Shortened]_vars

(***************************************************************************)
(* The loop sleeps for the time that it has told PMW_UTILS_Sleep to sleep  *)
(* "the flow for the given time" (pmw_utils.c:414).                        *)
(***************************************************************************)
SleepsAsTold ==
  phase = "read" /\ i > 0 => slept = usec_sample_time - elapsed_time

(***************************************************************************)
(* Any sampling time the command line accepts works on a slow system: an   *)
(* overrun never divides by zero.                                          *)
(***************************************************************************)
NeverCrashes == phase # "crashed"

(***************************************************************************)
(* A finite run ends, whatever the clock does.                             *)
(***************************************************************************)
FiniteRunEnds == asked > 0 ~> phase \in {"done", "crashed"}
=============================================================================
