---------------------------- MODULE MetricsFeed -----------------------------
(***************************************************************************)
(* What the library promises the reader of a collection session: while    *)
(* the session is open, intervals 1, 2, 3, ... are published one after     *)
(* the other, and a Read gives, for every DIMM, the metrics of the         *)
(* interval published last.  Once the collector has failed no interval     *)
(* follows, and a Read may find that interval half overwritten.            *)
(***************************************************************************)
EXTENDS Integers

CONSTANTS Readers, DIMM

VARIABLES
  open,       \* the session is running
  published,  \* the interval published last, 0 before the first
  failed,     \* its collector has given up
  view        \* what each reader's last Read gave

feedVars == <<open, published, failed, view>>

Mark(stamp, metrics) == [stamp |-> stamp, metrics |-> metrics]
Interval(n) == [d \in DIMM |-> Mark(n, n)]

\* The next interval had been begun and DIMM k did not answer.
Broken(n, k) ==
  [d \in DIMM |-> Mark(IF d <= k THEN n + 1 ELSE n, IF d < k THEN n + 1 ELSE n)]

Init ==
  /\ open = FALSE /\ published = 0 /\ failed = FALSE
  /\ view = [r \in Readers |-> Interval(0)]

Open ==
  /\ ~open
  /\ open' = TRUE /\ published' = 0 /\ failed' = FALSE
  /\ UNCHANGED view

Publish ==
  /\ open /\ ~failed
  /\ published' = published + 1
  /\ UNCHANGED <<open, failed, view>>

Fail ==
  /\ open
  /\ failed' = TRUE
  /\ UNCHANGED <<open, published, view>>

Read(r) ==
  /\ open /\ published > 0
  /\ \/ view' = [view EXCEPT ![r] = Interval(published)]
     \/ failed /\ \E k \in DIMM : view' = [view EXCEPT ![r] = Broken(published, k)]
  /\ UNCHANGED <<open, published, failed>>

Close ==
  /\ open
  /\ open' = FALSE
  /\ UNCHANGED <<published, failed, view>>

Next == Open \/ Publish \/ Fail \/ Close \/ \E r \in Readers : Read(r)

Spec == Init /\ [][Next]_feedVars
=============================================================================
