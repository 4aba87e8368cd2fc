------------------------------ MODULE MCSampling ----------------------------
(***************************************************************************)
(* Instances of Sampling for TLC, one .cfg file for each question.         *)
(***************************************************************************)
EXTENDS Sampling

ASSUME ClockHolds == ClockOK

\* A float rounds no time up to the next second that its significand holds.
ASSUME ShortTimesRoundDown ==
  Second < 2 ^ FloatBits =>
    \A t \in 0 .. 2 ^ FloatBits - 1 : t < Word => Seconds(t) = t \div Second

Advance(r, w, hr, hwr) ==
  [c \in Counters |-> CASE c = "bytes_read" -> r [] c = "bytes_written" -> w
                        [] c = "host_reads" -> hr [] c = "host_writes" -> hwr]

\* Little traffic, more reads than writes; traffic that makes every counter
\* but one wrap in the row after, with more writes than reads.
SomeAdvances == {Advance(9, 4, 3, 0), Advance(1020, 1023, 1023, 1000)}
\* Less read than written.
MoreWritten == {Advance(4, 8, 8, 0)}
OneAdvance == {Advance(9, 4, 3, 0)}
=============================================================================
