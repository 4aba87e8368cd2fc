------------------------------- MODULE Metrics ------------------------------
(***************************************************************************)
(* The arithmetic of one row of performance metrics: CALCULATE_DIFFERENCE *)
(* and PMW_UTILS_Cal_Diff, and the derived metrics that                    *)
(* Print_Smart_Counters computes from the difference of two samples.       *)
(***************************************************************************)
EXTENDS Integers

CONSTANT Word   \* the number of values of a uint64_t

ASSUME WordOK == Word \in Nat \ {0}

Unsigned == 0 .. Word - 1
Counters == {"bytes_read", "bytes_written", "host_reads", "host_writes"}
Sample == [Counters -> Unsigned]

\* The definitions whose names end in a capitalised fault are the ones they
\* precede with that fault planted; nothing uses them.
Difference_NoWrap(cur, pre) == cur - pre
Difference_OffByOne(cur, pre) ==
  IF cur < pre THEN (Word - 1 - pre) + cur ELSE cur - pre
\* overflow_val is Word - 1.
Difference(cur, pre) ==
  IF cur < pre THEN (Word - 1 - pre) + 1 + cur ELSE cur - pre

Cal_Diff(pre, cur) == [c \in Counters |-> Difference(cur[c], pre[c])]

Reads_Negative(d) == d.bytes_read - d.bytes_written
\* Operations that reached the media as reads; never negative.
Reads(d) ==
  IF d.bytes_read > d.bytes_written THEN d.bytes_read - d.bytes_written ELSE 0

total_bytes_read(d)    == (Reads(d) * 64) % Word
total_bytes_written(d) == (d.bytes_written * 64) % Word
media_read(d)          == Reads(d) \div 4
media_write(d)         == d.bytes_written \div 4

\* A ratio is the pair of its numerator and denominator.
HitRatio(host, media) ==
  IF host > media THEN <<host - media, host>> ELSE <<0, 1>>
read_hit_ratio(d)  == HitRatio(d.host_reads, media_read(d))
write_hit_ratio(d) == HitRatio(d.host_writes, media_write(d))
=============================================================================
