--------------------------- MODULE Sampling_proofs --------------------------
(***************************************************************************)
(* Theorems about the collection loop, for every width of the counters and *)
(* of an int, every number of DIMMs, sampling time and request.            *)
(***************************************************************************)
EXTENDS Sampling, TLAPS

(***************************************************************************)
(* CALCULATE_DIFFERENCE undoes one wrap-around.                            *)
(***************************************************************************)
LEMMA DifferenceIsAdvance ==
  ASSUME NEW h \in Sample, NEW a \in Sample
  PROVE  /\ Advanced(h, a) \in Sample
         /\ Cal_Diff(h, Advanced(h, a)) = a
<1>1. Advanced(h, a) \in Sample
  BY WordOK DEF Advanced, Sample, Unsigned
<1>2. ASSUME NEW c \in Counters
      PROVE  Difference(Advanced(h, a)[c], h[c]) = a[c]
  BY WordOK DEF Difference, Advanced, Sample, Unsigned
<1>3. Cal_Diff(h, Advanced(h, a)) = [c \in Counters |-> a[c]]
  BY <1>2 DEF Cal_Diff
<1>4. a = [c \in Counters |-> a[c]]
  BY DEF Sample
<1> QED
  BY <1>1, <1>3, <1>4

(***************************************************************************)
(* The part of the state that rows are made of: types, and that pre_sample *)
(* of every DIMM is the last that was read from it.                        *)
(***************************************************************************)
RowType ==
  /\ i \in Nat /\ j \in 0 .. count
  /\ sample \in [DIMM -> [{1, 2} -> Sample]]
  /\ pre \in [DIMM -> {1, 2}]
  /\ diff \in [DIMM -> Sample] /\ hw \in [DIMM -> Sample] /\ growth \in [DIMM -> Sample]
PreIsLast == \A d \in DIMM : sample[d][pre[d]] = hw[d]
RowInv == RowType /\ PreIsLast /\ RowsAreGrowth

LEMMA RowInit == Init => RowInv
<1>1. Zero \in Sample
  BY WordOK DEF Zero, Sample, Unsigned
<1> QED
  BY <1>1, SamplingOK DEF Init, RowInv, RowType, PreIsLast, RowsAreGrowth

LEMMA RowStep == RowInv /\ [Next]_vars => RowInv'
<1> USE DEF RowInv, RowType, PreIsLast, RowsAreGrowth
<1>1. ASSUME RowInv, NEW a \in Advances, ReadBaseline(a) PROVE RowInv'
  <2>1. a \in Sample /\ j \in DIMM /\ pre[j] \in {1, 2}
    BY <1>1, SamplingOK DEF ReadBaseline, DIMM
  <2>2. Advanced(hw[j], a) \in Sample
    BY <1>1, <2>1, DifferenceIsAdvance
  <2>3. /\ hw' = [hw EXCEPT ![j] = Advanced(hw[j], a)]
        /\ growth' = [growth EXCEPT ![j] = a]
        /\ sample' = [sample EXCEPT ![j] = [sample[j] EXCEPT ![pre[j]] = hw'[j]]]
        /\ UNCHANGED <<i, pre, diff>> /\ j' = j + 1 /\ i = 0 /\ j < count
    BY <1>1 DEF ReadBaseline, Observe
  <2>4. RowType'
    BY <1>1, <2>1, <2>2, <2>3, SamplingOK
  <2>5. PreIsLast'
    BY <1>1, <2>1, <2>3
  <2> QED
    BY <2>3, <2>4, <2>5
<1>2. ASSUME RowInv, NEW a \in Advances, ReadRow(a) PROVE RowInv'
  <2>1. /\ a \in Sample /\ j \in DIMM /\ pre[j] \in {1, 2} /\ Other(pre[j]) \in {1, 2}
        /\ hw[j] \in Sample
    BY <1>2, SamplingOK DEF ReadRow, DIMM, Other
  <2>2. Advanced(hw[j], a) \in Sample /\ Cal_Diff(hw[j], Advanced(hw[j], a)) = a
    BY <2>1, DifferenceIsAdvance
  <2>3. /\ hw' = [hw EXCEPT ![j] = Advanced(hw[j], a)]
        /\ growth' = [growth EXCEPT ![j] = a]
        /\ sample' = [sample EXCEPT ![j] = [sample[j] EXCEPT ![Other(pre[j])] = hw'[j]]]
        /\ diff' = [diff EXCEPT ![j] = Cal_Diff(sample[j][pre[j]], hw'[j])]
        /\ pre' = [pre EXCEPT ![j] = Other(pre[j])]
        /\ i' = i /\ j' = j + 1 /\ i > 0 /\ j < count
    BY <1>2 DEF ReadRow, Observe
  <2>4. diff' = [diff EXCEPT ![j] = a]
    BY <1>2, <2>1, <2>2, <2>3
  <2>5. RowType'
    BY <1>2, <2>1, <2>2, <2>3, <2>4, SamplingOK
  <2>6. PreIsLast'
    BY <1>2, <2>1, <2>3
  <2>7. RowsAreGrowth'
    BY <1>2, <2>1, <2>3, <2>4, SamplingOK DEF DIMM
  <2> QED
    BY <2>5, <2>6, <2>7
<1>3. ASSUME RowInv, NextSample PROVE RowInv'
  BY <1>3, SamplingOK DEF NextSample, dimms
<1>4. ASSUME RowInv, UNCHANGED <<i, j, dimms>> PROVE RowInv'
  BY <1>4 DEF dimms
<1> QED
  BY <1>1, <1>2, <1>3, <1>4 DEF Next, Step, Terminated, DeviceFails, EndRow,
     DoubleTime, KeepTime, Rescale, Finish, vars

(***************************************************************************)
(* Every row prints how far the counters got since the row before.         *)
(***************************************************************************)
THEOREM RowsPrintGrowth == Spec => []RowsAreGrowth
<1>1. RowInv => RowsAreGrowth
  BY DEF RowInv
<1> QED
  BY <1>1, RowInit, RowStep, PTL DEF Spec

(***************************************************************************)
(* Times.                                                                  *)
(***************************************************************************)
TimeInv ==
  /\ elapsed_time \in Unsigned /\ usec_sample_time \in Unsigned
  /\ slept \in 0 .. IntWord - 1

LEMMA TimeStep == TimeInv /\ [Next]_vars => TimeInv'
<1> USE WordOK DEF TimeInv, Unsigned
<1>1. ASSUME TimeInv, NEW e \in RowTimes, EndRow(e) PROVE TimeInv'
  <2>1. e \in Unsigned
    BY SamplingOK DEF RowTimes
  <2> QED
    BY <1>1, <2>1 DEF EndRow, time
<1>2. ASSUME TimeInv, DoubleTime PROVE TimeInv'
  BY <1>2 DEF DoubleTime
<1>3. ASSUME TimeInv, NextSample \/ Finish PROVE TimeInv'
  <2>1. usec_sample_time - elapsed_time \in Int
    BY <1>3
  <2>2. slept' \in 0 .. IntWord - 1
    BY <1>3, <2>1, SamplingOK DEF NextSample, Finish, Sleep
  <2> QED
    BY <1>3, <2>2 DEF NextSample, Finish, time
<1>4. ASSUME TimeInv, UNCHANGED <<elapsed_time, usec_sample_time, slept>>
      PROVE  TimeInv'
  BY <1>4
<1> QED
  BY <1>1, <1>2, <1>3, <1>4 DEF Next, Step, Terminated, ReadBaseline, ReadRow,
     DeviceFails, KeepTime, Rescale, vars, time

(***************************************************************************)
(* An int that wraps is an int, and what an int holds does not wrap.       *)
(***************************************************************************)
LEMMA Int32Type == ASSUME NEW x \in Int PROVE Int32(x) \in Ints
<1>1. (x + IntWord \div 2) % IntWord \in 0 .. IntWord - 1
  BY SamplingOK
<1> QED
  BY <1>1, SamplingOK DEF Int32, Ints

LEMMA Int32Same ==
  ASSUME NEW x \in Int, -(IntWord \div 2) <= x, x < IntWord \div 2 PROVE Int32(x) = x
<1>1. IntWord \div 2 \in Nat /\ 2 * (IntWord \div 2) <= IntWord
  BY SamplingOK
<1> QED
  BY <1>1, SamplingOK DEF Int32

LEMMA SecondsType == ASSUME NEW t PROVE Seconds(t) \in Int
BY SamplingOK DEF Seconds, FloatToInt, PositiveInt

(***************************************************************************)
(* C's division gives an integer, and no negative one of natural numbers.  *)
(***************************************************************************)
LEMMA QuotientType ==
  ASSUME NEW n \in Int, NEW p \in Int, p # 0
  PROVE  Quotient(n, p) \in Int /\ (n >= 0 /\ p > 0 => Quotient(n, p) >= 0)
<1>1. Abs(n) \in Nat /\ Abs(p) \in Nat \ {0}
  BY DEF Abs
<1>2. Abs(n) \div Abs(p) \in Nat
  BY <1>1
<1> QED
  BY <1>2 DEF Quotient

LEMMA SecondsFit ==
  ASSUME usec_sample_time \in Unsigned
  PROVE  /\ sample_time_sec \in Int
         /\ usec_sample_time \in PositiveInt =>
              Int32(usec_sample_time) = usec_sample_time /\ sample_time_sec >= 0
<1> USE SamplingOK, WordOK DEF Unsigned
<1>1. Int32(usec_sample_time) \in Int
  BY DEF Int32
<1>2. usec_sample_time \in PositiveInt => Int32(usec_sample_time) = usec_sample_time
  BY Int32Same DEF PositiveInt
<1> QED
  BY <1>1, <1>2, QuotientType DEF sample_time_sec

(***************************************************************************)
(* Where the samples asked for are: ahead of i up to loops, in a line, or  *)
(* skipped, until adjust_for_overhead computes what no int holds.          *)
(***************************************************************************)
PlanType ==
  /\ i \in Nat /\ lines \in Nat /\ asked \in PositiveInt /\ infinite_run \in {0, 1}
  /\ loops \in Ints /\ num_skips \in Ints /\ overflow \in BOOLEAN
  /\ usec_sample_time \in Unsigned /\ usec_sample_time_prev \in Unsigned
PlanInv ==
  /\ PlanType
  /\ infinite_run = 0 /\ ~overflow => loops + num_skips = asked
  /\ phase = "read" => lines = IF i = 0 THEN 0 ELSE i - 1
  /\ phase \in {"adjust", "sleep"} => lines = i
  /\ infinite_run = 0 /\ ~overflow /\ phase \in {"read", "adjust", "sleep"} => i <= loops
  /\ phase \in {"read", "adjust", "sleep"} => ret_code = 0
  /\ EverySampleAccounted

(***************************************************************************)
(* What a finite run that does not crash is left with.                     *)
(***************************************************************************)
LEMMA RescaledPlan ==
  ASSUME PlanInv, Rescale, infinite_run = 0, ~Traps
  PROVE  /\ loops' \in Ints /\ num_skips' \in Ints /\ overflow' \in BOOLEAN
         /\ ~overflow' =>
              /\ ~overflow /\ sample_time_sec > 0 /\ SamplesTime \in Nat
              /\ usec_sample_time \in PositiveInt
              /\ loops' = i + Quotient(SamplesTime, sample_time_sec)
              /\ i <= loops' /\ loops' + num_skips' = asked
<1> DEFINE left == loops - i
           loops_left == Quotient(Int32(SamplesTime), sample_time_sec)
<1>1. /\ i \in Nat /\ loops \in Int /\ left \in Int /\ num_skips \in Int /\ asked \in Int
      /\ 0 <= asked /\ asked < IntWord \div 2 /\ overflow \in BOOLEAN
  BY SamplingOK DEF PlanInv, PlanType, Ints, PositiveInt
<1>2. SamplesTime \in Int
  BY <1>1, SecondsType DEF SamplesTime, sample_time_sec_prev
<1>3. sample_time_sec \in Int /\ sample_time_sec # 0
  BY SecondsFit DEF PlanInv, PlanType, Traps
<1>4. Int32(SamplesTime) \in Int
  BY <1>2, SamplingOK DEF Int32
<1>5. loops_left \in Int /\ (Int32(SamplesTime) >= 0 /\ sample_time_sec > 0 => loops_left >= 0)
  BY <1>3, <1>4, QuotientType
<1>6. /\ num_skips' = Int32(num_skips + left - loops_left)
      /\ loops' = Int32(i + loops_left)
      /\ overflow' = (overflow \/ ~({usec_sample_time, SamplesTime, i + loops_left}
                                       \subseteq PositiveInt))
  BY DEF Rescale
<1>7. ASSUME ~overflow'
      PROVE  /\ ~overflow /\ sample_time_sec > 0 /\ SamplesTime \in Nat
             /\ Int32(SamplesTime) = SamplesTime /\ usec_sample_time \in PositiveInt
             /\ i + loops_left \in PositiveInt
  <2>1. /\ ~overflow /\ usec_sample_time \in PositiveInt /\ SamplesTime \in PositiveInt
        /\ i + loops_left \in PositiveInt
    BY <1>1, <1>6, <1>7
  <2>2. sample_time_sec > 0
    BY <1>3, <2>1, SecondsFit DEF PlanInv, PlanType
  <2>3. Int32(SamplesTime) = SamplesTime /\ SamplesTime \in Nat
    BY <1>2, <2>1, Int32Same, SamplingOK DEF PositiveInt
  <2> QED
    BY <2>1, <2>2, <2>3
<1> HIDE DEF left, loops_left
<1>8. ASSUME ~overflow'
      PROVE  /\ loops' = i + loops_left /\ 0 <= loops_left
             /\ num_skips' = num_skips + left - loops_left
  <2>1. i + loops_left \in PositiveInt /\ 0 <= loops_left
    BY <1>5, <1>7, <1>8
  <2>2. loops' = i + loops_left
    BY <1>1, <1>5, <1>6, <2>1, Int32Same, SamplingOK DEF PositiveInt
  <2>3. num_skips + left - loops_left = asked - (i + loops_left)
    <3>1. infinite_run = 0 /\ ~overflow => loops + num_skips = asked
      BY DEF PlanInv
    <3> QED
      BY <1>1, <1>5, <1>7, <1>8, <3>1 DEF left
  <2>4. Int32(num_skips + left - loops_left) = num_skips + left - loops_left
    <3>1. /\ -(IntWord \div 2) <= asked - (i + loops_left)
          /\ asked - (i + loops_left) < IntWord \div 2
      BY <1>1, <1>5, <2>1, SamplingOK DEF PositiveInt
    <3> QED
      BY <1>1, <1>5, <2>3, <3>1, Int32Same
  <2> QED
    BY <1>6, <2>1, <2>2, <2>4
<1>9. loops' \in Ints /\ num_skips' \in Ints /\ overflow' \in BOOLEAN
  <2>1. i + loops_left \in Int /\ num_skips + left - loops_left \in Int
    BY <1>1, <1>5
  <2> QED
    BY <1>1, <1>6, <2>1, Int32Type
<1>10. ASSUME ~overflow' PROVE i <= loops' /\ loops' + num_skips' = asked
  <2>1. loops + num_skips = asked
    BY <1>7, <1>10 DEF PlanInv
  <2> QED
    BY <1>1, <1>5, <1>8, <1>10, <2>1 DEF left
<1>11. ASSUME ~overflow' PROVE loops' = i + Quotient(SamplesTime, sample_time_sec)
  BY <1>7, <1>8, <1>11 DEF loops_left
<1> QED
  BY <1>7, <1>9, <1>10, <1>11

LEMMA RescaleStep == ASSUME PlanInv, Rescale PROVE PlanInv'
<1> USE DEF PlanInv, PlanType, EverySampleAccounted, NoSampleLost
<1>1. CASE infinite_run = 1 \/ Traps
  BY <1>1 DEF Rescale, run, plan
<1>2. CASE infinite_run = 0 /\ ~Traps
  <2>1. /\ phase = "adjust" /\ phase' = "sleep" /\ usec_sample_time_prev' = usec_sample_time
        /\ UNCHANGED <<i, asked, infinite_run, usec_sample_time, lines, ret_code>>
    BY <1>2 DEF Rescale, run
  <2>2. /\ loops' \in Ints /\ num_skips' \in Ints /\ overflow' \in BOOLEAN
        /\ ~overflow' => ~overflow /\ i <= loops' /\ loops' + num_skips' = asked
    BY <1>2, RescaledPlan
  <2> QED
    BY <1>2, <2>1, <2>2
<1> QED
  BY <1>1, <1>2

LEMMA PlanInit == Init => PlanInv
<1>1. 0 \in Ints /\ PositiveInt \subseteq Ints
  BY SamplingOK DEF Ints, PositiveInt
<1>2. PositiveInt \subseteq Nat
  BY SamplingOK DEF PositiveInt
<1> SUFFICES ASSUME Init PROVE PlanInv
  OBVIOUS
<1>3. asked \in PositiveInt /\ infinite_run = (IF asked = 0 THEN 1 ELSE 0)
  BY SamplingOK DEF Init, PositiveInt
<1>4. /\ phase = "read" /\ i = 0 /\ loops = asked /\ lines = 0 /\ num_skips = 0
      /\ ret_code = 0 /\ overflow = FALSE /\ usec_sample_time \in Unsigned
      /\ usec_sample_time_prev = usec_sample_time
  BY SamplingOK DEF Init
<1>5. asked \in Nat
  BY <1>2, <1>3
<1>6. infinite_run \in {0, 1}
  BY <1>3
<1>7. PlanType
  BY <1>1, <1>3, <1>4, <1>6 DEF PlanType
<1>8. EverySampleAccounted
  BY <1>4 DEF EverySampleAccounted, NoSampleLost
<1>9. loops + num_skips = asked /\ i <= loops
  BY <1>4, <1>5
<1> QED
  BY <1>4, <1>7, <1>8, <1>9 DEF PlanInv

LEMMA PlanStep == PlanInv /\ [Next]_vars => PlanInv'
<1> SUFFICES ASSUME PlanInv, [Next]_vars PROVE PlanInv'
  OBVIOUS
<1> USE SamplingOK, WordOK DEF PlanInv, PlanType, EverySampleAccounted, NoSampleLost, Ints,
        run, plan, time
<1>1. ASSUME NEW a \in Advances, ReadBaseline(a) \/ ReadRow(a) PROVE PlanInv'
  BY <1>1 DEF ReadBaseline, ReadRow
<1>2. CASE DeviceFails
  BY <1>2 DEF DeviceFails
<1>3. ASSUME NEW e \in RowTimes, EndRow(e) PROVE PlanInv'
  BY <1>3 DEF EndRow
<1>4. CASE DoubleTime
  <2>1. usec_sample_time' \in Unsigned
    BY <1>4 DEF DoubleTime, Unsigned
  <2> QED
    BY <1>4, <2>1 DEF DoubleTime
<1>5. CASE KeepTime
  BY <1>5 DEF KeepTime
<1>6. CASE NextSample
  BY <1>6 DEF NextSample, Continues
<1>7. CASE Finish
  BY <1>7 DEF Finish, Continues
<1>8. CASE Terminated \/ UNCHANGED vars
  BY <1>8 DEF Terminated, vars
<1> QED
  BY <1>1, <1>2, <1>3, <1>4, <1>5, <1>6, <1>7, <1>8, RescaleStep DEF Next, Step

(***************************************************************************)
(* A finite run prints or reports as skipped every sample it was asked     *)
(* for, whatever its overruns are and however a float rounds its sampling  *)
(* times, unless adjust_for_overhead computes what no int holds.           *)
(***************************************************************************)
THEOREM SamplesAccounted == Spec => []EverySampleAccounted
<1>1. Init => PlanInv
  BY PlanInit
<1>2. PlanInv => EverySampleAccounted
  BY DEF PlanInv
<1> QED
  BY <1>1, <1>2, PlanStep, PTL DEF Spec

(***************************************************************************)
(* Every variable keeps its type: the two samples and their difference fit *)
(* the counters, and the times a uint64_t.                                 *)
(***************************************************************************)
FlowInv ==
  /\ phase \in {"read", "adjust", "sleep", "done", "crashed"}
  /\ itr \in Nat /\ ret_code \in {0, 1}

LEMMA FlowStep == FlowInv /\ [Next]_vars => FlowInv'
BY DEF FlowInv, Next, Step, Terminated, ReadBaseline, ReadRow, DeviceFails, EndRow,
   DoubleTime, KeepTime, Rescale, NextSample, Finish, vars

LEMMA TimeInit == Init => TimeInv
BY WordOK, SamplingOK DEF Init, TimeInv, Unsigned

(***************************************************************************)
(* Samples and differences fit the counters, times fit a uint64_t, and the *)
(* loop is in one of its places.                                           *)
(***************************************************************************)
THEOREM SamplingTypes == Spec => []TypeOK
<1>1. Init => RowInv /\ TimeInv /\ PlanInv /\ FlowInv
  BY RowInit, PlanInit, TimeInit DEF Init, FlowInv
<1>2. RowInv /\ TimeInv /\ PlanInv /\ FlowInv => TypeOK
  BY DEF RowInv, RowType, TimeInv, PlanInv, PlanType, FlowInv, TypeOK
<1> QED
  BY <1>1, <1>2, RowStep, TimeStep, PlanStep, FlowStep, PTL DEF Spec

(***************************************************************************)
(* A hit ratio is a fraction between 0 and 1.                              *)
(***************************************************************************)
LEMMA RatioIsFraction ==
  ASSUME NEW host \in Nat, NEW media \in Nat
  PROVE  LET ratio == HitRatio(host, media)
         IN  ratio[2] > 0 /\ 0 <= ratio[1] /\ ratio[1] <= ratio[2]
BY DEF HitRatio

(***************************************************************************)
(* 64 bytes move at a time, 256 in an operation on the media.              *)
(***************************************************************************)
LEMMA MediaOperations ==
  ASSUME NEW n \in Nat, 64 * n < Word
  PROVE  (n * 64) % Word = 64 * n /\ ((n * 64) % Word) - 256 * (n \div 4) \in 0 .. 255
<1>1. (n * 64) % Word = 64 * n
  BY WordOK
<1>2. n \div 4 \in Nat /\ 4 * (n \div 4) <= n /\ n < 4 * (n \div 4) + 4
  OBVIOUS
<1> QED
  BY <1>1, <1>2

LEMMA DifferencesAgree == RowType => MetricsAgree
<1> SUFFICES ASSUME RowType, NEW n \in DIMM
             PROVE  LET d == diff[n] IN
                    /\ \A ratio \in {read_hit_ratio(d), write_hit_ratio(d)} :
                         ratio[2] > 0 /\ 0 <= ratio[1] /\ ratio[1] <= ratio[2]
                    /\ Fits(d) =>
                         /\ total_bytes_read(d) - 256 * media_read(d) \in 0 .. 255
                         /\ total_bytes_written(d) - 256 * media_write(d) \in 0 .. 255
                    /\ Fits(d) /\ d.bytes_read >= d.bytes_written =>
                         total_bytes_read(d) + 2 * total_bytes_written(d)
                           = 64 * (d.bytes_read + d.bytes_written)
  BY DEF MetricsAgree
<1> DEFINE d == diff[n]
<1>1. /\ d.bytes_read \in Nat /\ d.bytes_written \in Nat
      /\ d.host_reads \in Nat /\ d.host_writes \in Nat
  BY WordOK DEF RowType, Sample, Counters, Unsigned
<1>2. Reads(d) \in Nat /\ Reads(d) <= d.bytes_read
  BY <1>1 DEF Reads
<1> HIDE DEF d
<1>3. ASSUME NEW ratio \in {read_hit_ratio(d), write_hit_ratio(d)}
      PROVE  ratio[2] > 0 /\ 0 <= ratio[1] /\ ratio[1] <= ratio[2]
  <2>1. media_read(d) \in Nat /\ media_write(d) \in Nat
    BY <1>1, <1>2 DEF media_read, media_write
  <2> QED
    BY <1>1, <1>3, <2>1, RatioIsFraction DEF read_hit_ratio, write_hit_ratio
<1>4. ASSUME Fits(d)
      PROVE  /\ total_bytes_read(d) = 64 * Reads(d)
             /\ total_bytes_written(d) = 64 * d.bytes_written
             /\ total_bytes_read(d) - 256 * media_read(d) \in 0 .. 255
             /\ total_bytes_written(d) - 256 * media_write(d) \in 0 .. 255
  <2>1. 64 * Reads(d) < Word /\ 64 * d.bytes_written < Word
    BY <1>1, <1>2, <1>4, WordOK DEF Fits
  <2> QED
    BY <1>1, <1>2, <2>1, MediaOperations
       DEF total_bytes_read, total_bytes_written, media_read, media_write
<1>5. ASSUME Fits(d), d.bytes_read >= d.bytes_written
      PROVE  total_bytes_read(d) + 2 * total_bytes_written(d)
               = 64 * (d.bytes_read + d.bytes_written)
  <2>1. Reads(d) = d.bytes_read - d.bytes_written
    BY <1>1, <1>5 DEF Reads
  <2> QED
    BY <1>1, <1>4, <1>5, <2>1
<1> QED
  BY <1>3, <1>4, <1>5 DEF d

(***************************************************************************)
(* The derived metrics of every row agree with each other, whatever the    *)
(* DIMMs counted.                                                          *)
(***************************************************************************)
THEOREM RowsAgree == Spec => []MetricsAgree
<1>1. RowInv => MetricsAgree
  BY DifferencesAgree DEF RowInv
<1> QED
  BY <1>1, RowInit, RowStep, PTL DEF Spec

(***************************************************************************)
(* Why skipping never makes a run longer.  While overhead is accounted for *)
(* the new sampling time is a multiple of the old one, unless the clock    *)
(* has stepped back, and then it never gets out of the loop: it is even,   *)
(* and so short of the largest uint64_t.                                   *)
(***************************************************************************)
StretchInv ==
  /\ phase \in {"read", "sleep"} => usec_sample_time = usec_sample_time_prev
  /\ phase = "adjust" =>
       \/ usec_sample_time = usec_sample_time_prev
       \/ /\ 2 * elapsed_time <= Word
          /\ \E m \in Nat : usec_sample_time = m * usec_sample_time_prev
       \/ elapsed_time = Word - 1 /\ usec_sample_time % 2 = 0
  /\ phase = "adjust" => 2 * elapsed_time <= Word \/ elapsed_time = Word - 1

LEMMA EvenWraps ==
  ASSUME NEW x \in Nat, NEW w \in Nat \ {0}, w % 2 = 0
  PROVE  ((x * 2) % w) % 2 = 0
<1> DEFINE q == (x * 2) \div w
           r == (x * 2) % w
           h == w \div 2
<1>1. w = 2 * h /\ h \in Nat
  OBVIOUS
<1>2. q \in Int /\ r \in Int /\ x * 2 = w * q + r
  OBVIOUS
<1> HIDE DEF q, r, h
<1>3. h * q \in Int /\ w * q = 2 * (h * q)
  BY <1>1, <1>2
<1>4. r = 2 * (x - h * q)
  BY <1>2, <1>3
<1> QED
  BY <1>3, <1>4 DEF r

LEMMA StretchStep ==
  ASSUME ClockOK, TimeInv, PlanInv, StretchInv, [Next]_vars PROVE StretchInv'
<1> USE DEF StretchInv, time
<1>1. /\ usec_sample_time \in Nat /\ usec_sample_time_prev \in Nat
      /\ elapsed_time \in Nat /\ Word \in Nat \ {0}
  BY WordOK DEF TimeInv, PlanInv, PlanType, Unsigned
<1>2. ASSUME NEW e \in RowTimes, EndRow(e) PROVE StretchInv'
  BY <1>2 DEF EndRow, RowTimes, ClockOK
<1>3. ASSUME DoubleTime, phase' = "adjust" PROVE StretchInv'
  <2>1. /\ usec_sample_time' = (usec_sample_time * 2) % Word
        /\ UNCHANGED <<usec_sample_time_prev, elapsed_time>>
        /\ phase = "adjust" /\ elapsed_time > usec_sample_time
    BY <1>3 DEF DoubleTime, Overhead
  <2>2. CASE 2 * elapsed_time <= Word
    <3>1. usec_sample_time' = 2 * usec_sample_time
      BY <1>1, <2>1, <2>2
    <3>2. \E m \in Nat : usec_sample_time = m * usec_sample_time_prev
      <4>1. CASE usec_sample_time = 1 * usec_sample_time_prev
        BY <4>1
      <4>2. CASE elapsed_time = Word - 1 /\ usec_sample_time % 2 = 0
        <5>1. usec_sample_time = 0 * usec_sample_time_prev
          BY <1>1, <2>1, <2>2, <4>2
        <5> QED
          BY <5>1
      <4> QED
        BY <1>1, <2>1, <4>1, <4>2
    <3>3. PICK m \in Nat : usec_sample_time = m * usec_sample_time_prev
      BY <3>2
    <3>4. usec_sample_time' = (2 * m) * usec_sample_time_prev' /\ 2 * m \in Nat
      BY <1>1, <2>1, <3>1, <3>3
    <3> QED
      BY <1>3, <2>1, <2>2, <3>4
  <2>3. CASE elapsed_time = Word - 1
    <3>1. usec_sample_time' % 2 = 0
      BY <1>1, <2>1, EvenWraps DEF ClockOK
    <3> QED
      BY <1>3, <2>1, <2>3, <3>1
  <2> QED
    BY <2>1, <2>2, <2>3
<1>4. ASSUME DoubleTime, phase' # "adjust" PROVE StretchInv'
  BY <1>4 DEF DoubleTime
<1>5. CASE KeepTime
  BY <1>5 DEF KeepTime
<1>6. CASE Rescale
  BY <1>6 DEF Rescale
<1>7. ASSUME NEW a \in Advances, ReadBaseline(a) \/ ReadRow(a) PROVE StretchInv'
  BY <1>7 DEF ReadBaseline, ReadRow
<1>8. CASE DeviceFails \/ Finish \/ NextSample
  BY <1>8 DEF DeviceFails, Finish, NextSample
<1>9. CASE Terminated \/ UNCHANGED vars
  BY <1>9 DEF Terminated, vars
<1> QED
  BY <1>2, <1>3, <1>4, <1>5, <1>6, <1>7, <1>8, <1>9 DEF Next, Step

(***************************************************************************)
(* As many new intervals as fit the old ones take no more time, though     *)
(* both times are cut to whole seconds, if the old one is not rounded up.  *)
(***************************************************************************)
LEMMA WholeSeconds ==
  ASSUME NEW p \in Nat, NEW m \in Nat, NEW s \in Nat \ {0}
  PROVE  m * (p \div s) <= (m * p) \div s
<1> DEFINE q == p \div s
           r == (m * p) \div s
<1>1. q \in Nat /\ s * q <= p /\ r \in Nat /\ m * p < s * r + s
  <2>1. m * p \in Nat
    OBVIOUS
  <2> QED
    BY <2>1
<1> HIDE DEF q, r
<1>2. m * (s * q) <= m * p
  BY <1>1
<1>3. s * (m * q) < s * (r + 1)
  BY <1>1, <1>2
<1>4. m * q < r + 1
  BY <1>1, <1>3
<1> QED
  BY <1>1, <1>4 DEF q, r

LEMMA FewerIntervals ==
  ASSUME NEW left \in Int, NEW p \in Nat, NEW m \in Nat, NEW s \in Nat \ {0}, NEW ps \in Int,
         ps <= p \div s, left * ps >= 0, left >= 0, (m * p) \div s > 0
  PROVE  ((left * ps) \div ((m * p) \div s)) * (m * p) <= left * p
<1> DEFINE us == (m * p) \div s
           n  == (left * ps) \div us
           all == m * p
<1>1. us \in Nat \ {0} /\ p \div s \in Nat /\ m * (p \div s) <= us
  <2>1. m * p \in Nat
    OBVIOUS
  <2> QED
    BY <2>1, WholeSeconds
<1>2. left * ps \in Nat
  OBVIOUS
<1>3. n \in Nat /\ n * us <= left * ps
  BY <1>1, <1>2
<1> HIDE DEF us, n
<1>4. CASE left * ps = 0
  <2>1. n * us = 0
    BY <1>1, <1>3, <1>4
  <2>2. n = 0
    BY <1>1, <1>3, <2>1
  <2> QED
    BY <2>2 DEF n, us
<1>5. CASE left * ps > 0
  <2>1. ps > 0 /\ ps \in Nat
    <3>1. ASSUME ps <= 0 PROVE FALSE
      BY <1>5, <3>1
    <3> QED
      BY <3>1
  <2>2. m * ps <= us
    <3>1. m * ps <= m * (p \div s)
      BY <1>1, <2>1
    <3> QED
      BY <1>1, <2>1, <3>1
  <2>3. n * (m * ps) <= n * us
    BY <1>1, <1>3, <2>1, <2>2
  <2>4. (n * m) * ps <= left * ps
    BY <1>1, <1>3, <2>1, <2>3
  <2>5. n * m <= left
    BY <1>3, <2>1, <2>4
  <2>6. (n * m) * p <= left * p
    BY <1>3, <2>5
  <2> QED
    BY <1>3, <2>6 DEF n, us
<1> QED
  BY <1>2, <1>4, <1>5

LEMMA RescaleIsShort ==
  ASSUME ClockOK, TimeInv, PlanInv, StretchInv, Rescale,
         infinite_run = 0, ~overflow', RoundedDown, ~Traps
  PROVE  (loops' - i) * usec_sample_time <= (loops - i) * usec_sample_time_prev
<1>1. /\ usec_sample_time \in Nat /\ usec_sample_time_prev \in Nat
      /\ elapsed_time \in Nat /\ Word \in Nat \ {0} /\ i \in Nat /\ loops \in Int
  BY WordOK, SamplingOK DEF TimeInv, PlanInv, PlanType, Unsigned, Ints
<1>2. PICK m \in Nat : usec_sample_time = m * usec_sample_time_prev
  <2>1. phase = "adjust" /\ elapsed_time <= usec_sample_time
        /\ usec_sample_time # usec_sample_time_prev
    BY <1>1 DEF Rescale, Overhead
  <2>2. ~(elapsed_time = Word - 1 /\ usec_sample_time % 2 = 0)
    BY <1>1, <2>1 DEF PlanInv, PlanType, Unsigned, ClockOK
  <2> QED
    BY <2>1, <2>2 DEF StretchInv
<1>3. /\ sample_time_sec > 0 /\ SamplesTime \in Nat /\ usec_sample_time \in PositiveInt
      /\ loops' = i + Quotient(SamplesTime, sample_time_sec) /\ ~overflow
  BY RescaledPlan
<1>4. sample_time_sec = (m * usec_sample_time_prev) \div Second
  <2>1. Int32(usec_sample_time) = usec_sample_time
    BY <1>3, SecondsFit DEF PlanInv, PlanType
  <2> QED
    BY <1>1, <1>2, <2>1, SamplingOK DEF sample_time_sec, Quotient, Abs
<1>5. sample_time_sec \in Nat \ {0}
  BY <1>3, SecondsFit DEF PlanInv, PlanType
<1>6. loops' - i = SamplesTime \div sample_time_sec
  <2>1. Quotient(SamplesTime, sample_time_sec) = SamplesTime \div sample_time_sec
    BY <1>3, <1>5 DEF Quotient, Abs
  <2>2. SamplesTime \div sample_time_sec \in Nat
    BY <1>3, <1>5
  <2> QED
    BY <1>1, <1>3, <2>1, <2>2
<1>7. loops - i \in Int /\ loops - i >= 0
  BY <1>1, <1>3 DEF PlanInv, Rescale
<1>8. sample_time_sec_prev \in Int /\ sample_time_sec_prev <= usec_sample_time_prev \div Second
  BY SecondsType DEF RoundedDown, sample_time_sec_prev
<1>9. (loops - i) * sample_time_sec_prev >= 0
  BY <1>3 DEF SamplesTime
<1>10. (loops' - i) * (m * usec_sample_time_prev) <= (loops - i) * usec_sample_time_prev
  BY <1>1, <1>3, <1>4, <1>6, <1>7, <1>8, <1>9, FewerIntervals, SamplingOK DEF SamplesTime
<1> QED
  BY <1>2, <1>10

(***************************************************************************)
(* The samples left take no more time at the new sampling time than at the *)
(* old one, for every sampling time and overrun, if no row takes longer    *)
(* than half of what a uint64_t can count, an int holds what is computed,  *)
(* and the float has not rounded the old sampling time up.                 *)
(***************************************************************************)
THEOREM SkippingShortens == ASSUME ClockOK PROVE Spec => RunNotProlonged
<1> DEFINE All == TimeInv /\ PlanInv /\ StretchInv
           Step1 == infinite_run = 0 /\ ~overflow' /\ RoundedDown /\ Rescaled => Shortened
<1>1. Init => All
  BY TimeInit, PlanInit DEF Init, StretchInv
<1>2. All /\ [Next]_vars => All'
  BY ClockOK, TimeStep, PlanStep, StretchStep
<1>3. All /\ [Next]_vars => [Step1]_vars
  <2> SUFFICES ASSUME All, Next, infinite_run = 0, ~overflow', RoundedDown, Rescaled
               PROVE  Shortened
    OBVIOUS
  <2>1. Rescale
    BY DEF Rescaled, Next, Step, Terminated, ReadBaseline, ReadRow, DeviceFails, EndRow,
       DoubleTime, KeepTime, NextSample, Finish, vars, time
  <2>2. usec_sample_time' = usec_sample_time /\ ~Traps
    BY <2>1 DEF Rescale, Rescaled
  <2> QED
    BY <2>1, <2>2, ClockOK, RescaleIsShort DEF Shortened
<1> QED
  BY <1>1, <1>2, <1>3, PTL DEF Spec, RunNotProlonged
=============================================================================
