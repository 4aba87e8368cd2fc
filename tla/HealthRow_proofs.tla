-------------------------- MODULE HealthRow_proofs -------------------------
(***************************************************************************)
(* Theorems about the rows of health information, for any number of DIMMs, *)
(* any pages and any number of intervals.                                  *)
(***************************************************************************)
EXTENDS HealthRow, TLAPS

(***************************************************************************)
(* The conversions of one field.                                           *)
(***************************************************************************)
LEMMA TextShows ==
  ASSUME NEW raw \in 0 .. 2 * Half - 1
  PROVE  /\ Degrees(raw) \in Magnitude
         /\ Text(raw) \in SomeText /\ Shows(Text(raw), raw)
         /\ Stored(Text(raw)) = Degrees(raw)
<1>1. Degrees(raw) \in Magnitude
  BY HealthOK DEF Degrees, Magnitude
<1>2. Text(raw) \in [minus : BOOLEAN, degrees : Magnitude]
  <2>1. (raw >= Half) \in BOOLEAN
    BY HealthOK
  <2> QED
    BY <1>1, <2>1, Zenon DEF Text
<1>3. Text(raw) # Unset
  BY <1>2, HealthOK DEF Magnitude
<1>4. Text(raw).degrees = Degrees(raw) /\ (Text(raw).minus <=> raw >= Half)
  BY DEF Text
<1>5. Shows(Text(raw), raw)
  BY <1>3, <1>4, HealthOK DEF Degrees, Shows
<1> QED
  BY <1>1, <1>2, <1>3, <1>4, <1>5 DEF SomeText, Stored

LEMMA EmptyIsText ==
  /\ Empty \in SomeText /\ Stored(Empty) = 0 /\ 0 \in Magnitude /\ Empty # Unset
<1>1. 0 \in Magnitude
  BY HealthOK DEF Magnitude
<1>2. Empty \in [minus : BOOLEAN, degrees : Magnitude] /\ Empty.degrees = 0
  BY <1>1 DEF Empty
<1> QED
  BY <1>1, <1>2, HealthOK DEF SomeText, Stored, Magnitude

LEMMA StatusIsWorst ==
  ASSUME NEW bits \in Byte
  PROVE  Status(bits) \in Byte /\ WorstOf(bits, Status(bits))
<1> DEFINE set == {k \in 0 .. HEALTH_STATUS_FATAL : Bit(bits, k) = 1}
<1>1. CASE set = {}
  BY <1>1 DEF Status, WorstOf, Byte, HEALTH_STATUS_FATAL
<1>2. CASE set # {}
  <2>1. \E k \in set : \A m \in set : k >= m
    <3>1. CASE 2 \in set
      BY <3>1 DEF HEALTH_STATUS_FATAL
    <3>2. CASE 2 \notin set /\ 1 \in set
      BY <3>2 DEF HEALTH_STATUS_FATAL
    <3>3. CASE 2 \notin set /\ 1 \notin set
      BY <1>2, <3>3 DEF HEALTH_STATUS_FATAL
    <3> QED BY <3>1, <3>2, <3>3
  <2> DEFINE top == CHOOSE k \in set : \A m \in set : k >= m
  <2>2. top \in set /\ \A m \in set : top >= m
    BY <2>1
  <2>3. Status(bits) = 1 + top
    BY <1>2 DEF Status
  <2> HIDE DEF top
  <2> QED
    BY <2>2, <2>3 DEF WorstOf, Byte, HEALTH_STATUS_FATAL
<1> QED BY <1>1, <1>2

(***************************************************************************)
(* The inductive invariant: the properties, and that what the shared       *)
(* temperatures hold is the same twice, and percentage_used what the rows  *)
(* have shown.                                                             *)
(***************************************************************************)
Carried ==
  /\ \A t \in Temperatures : degrees[t] = Stored(text[t])
  /\ percentage_used = [d \in DIMM |-> line[d].percentage_used]
HealthInv == TypeOK /\ Carried /\ OwnRow /\ UsedIsOwn /\ FileAndBufferAgree

LEMMA HealthInit == Init => HealthInv
<1> SUFFICES ASSUME Init PROVE HealthInv
  OBVIOUS
<1> USE HealthOK
<1>1. /\ Empty \in SomeText /\ Stored(Empty) = 0 /\ 0 \in Magnitude /\ 0 \in Byte
      /\ {} # Flag
  BY EmptyIsText DEF Byte, Flag
<1>2. NoPage \in Page
  BY DEF NoPage, Page, Byte
<1>3. /\ NoRow \in RowOf(Magnitude \cup {Unset}) /\ NoLine \in RowOf(SomeText)
      /\ NoRow = [NoLine EXCEPT !.temps = [t \in Temperatures |-> Stored(NoLine.temps[t])]]
  <2>1. /\ NoRow.temps = [t \in Temperatures |-> 0]
        /\ NoLine = [health_status |-> 0, percentage_used |-> 0,
                     percentage_remaining |-> 0, times |-> 0,
                     temps |-> [t \in Temperatures |-> Empty]]
    BY DEF NoRow, NoLine
  <2>2. [t \in Temperatures |-> Stored(NoLine.temps[t])] = [t \in Temperatures |-> 0]
    BY <1>1, <2>1
  <2> QED
    BY <1>1, <2>1, <2>2 DEF NoRow, RowOf
<1>4. TypeOK
  BY <1>1, <1>2, <1>3 DEF Init, TypeOK, SomeText
<1>5. Carried
  BY DEF Init, Carried, NoPage, NoLine, NoRow, Stored
<1>6. OwnRow /\ UsedIsOwn
  BY <1>1 DEF Init, OwnRow, UsedIsOwn, NoPage, NoLine, NoRow
<1>7. FileAndBufferAgree
  BY <1>3 DEF Init, FileAndBufferAgree
<1> QED
  BY <1>4, <1>5, <1>6, <1>7 DEF HealthInv

LEMMA PrintRowStep ==
  ASSUME HealthInv, NEW p \in Pages, PrintRow(p)
  PROVE  HealthInv'
<1> DEFINE row == line'[j]
<1> USE HealthOK
<1>1. /\ p \in Page /\ j \in DIMM /\ j \in Nat
      /\ \A t \in Temperatures : p[t] \in 0 .. 2 * Half - 1
  <2>1. p \in Page /\ j \in DIMM /\ j \in Nat
    BY DEF PrintRow, DIMM, HealthInv, TypeOK
  <2>2. /\ p.media_temp \in 0 .. 2 * Half - 1 /\ p.controller_temp \in 0 .. 2 * Half - 1
        /\ p.max_media_temp \in 0 .. 2 * Half - 1
        /\ p.max_controller_temp \in 0 .. 2 * Half - 1
    BY <2>1 DEF Page
  <2> QED
    BY <2>1, <2>2 DEF Temperatures, Temperature, MaxTemperature
<1>2. ASSUME NEW t \in Temperatures
      PROVE  /\ text'[t] \in SomeText /\ degrees'[t] \in Magnitude \cup {Unset}
             /\ degrees'[t] = Stored(text'[t])
             /\ p.validation_flags = Flag =>
                  IF t \in Temperature \/ p.vendor_data_size > 0
                  THEN Shows(text'[t], p[t]) ELSE text'[t] = Empty
  <2>1. /\ text[t] \in SomeText /\ degrees[t] \in Magnitude \cup {Unset}
        /\ degrees[t] = Stored(text[t])
    BY DEF HealthInv, TypeOK, Carried
  <2>2. /\ Text(p[t]) \in SomeText /\ Shows(Text(p[t]), p[t])
        /\ Stored(Text(p[t])) = Degrees(p[t]) /\ Degrees(p[t]) \in Magnitude
        /\ Text(p[t]) # Unset
    BY <1>1, TextShows DEF Shows
  <2>3. /\ Empty \in SomeText /\ Stored(Empty) = 0 /\ 0 \in Magnitude /\ Empty # Unset
    BY EmptyIsText
  <2>4. /\ text'[t] = Converted(p, t, text[t], Text(p[t]), Empty)
        /\ degrees'[t] = Converted(p, t, degrees[t], Degrees(p[t]), 0)
    BY DEF PrintRow, NewText, NewDegrees
  <2> QED
    BY <2>1, <2>2, <2>3, <2>4 DEF Converted, Flag
<1>3. /\ text' \in [Temperatures -> SomeText]
      /\ degrees' \in [Temperatures -> Magnitude \cup {Unset}]
  <2>1. /\ text' = [t \in Temperatures |-> text'[t]]
        /\ degrees' = [t \in Temperatures |-> degrees'[t]]
    BY DEF PrintRow, NewText, NewDegrees
  <2> QED BY <1>2, <2>1
<1>4. /\ percentage_used' = [percentage_used EXCEPT ![j] = Used(p, percentage_used[j])]
      /\ Used(p, percentage_used[j]) \in Byte
      /\ p.percentage_remaining \in Byte /\ p.times \in Nat /\ Times(p) \in Nat
      /\ p.health_status \in Byte /\ Status(p.health_status) \in Byte
      /\ WorstOf(p.health_status, Status(p.health_status))
  <2>1. p.percentage_remaining \in Byte /\ p.times \in Nat /\ p.health_status \in Byte
    BY <1>1 DEF Page
  <2>2. percentage_used[j] \in Byte
    BY <1>1 DEF HealthInv, TypeOK
  <2>3. Used(p, percentage_used[j]) \in Byte
    BY <2>1, <2>2 DEF Used, Byte
  <2>4. Times(p) \in Nat
    BY <2>1 DEF Times
  <2> QED
    BY <2>1, <2>3, <2>4, StatusIsWorst DEF PrintRow, UsedBefore
<1>5. /\ row = Row(p, Used(p, percentage_used[j]), text')
      /\ line' = [line EXCEPT ![j] = row]
      /\ row \in RowOf(SomeText)
  BY <1>1, <1>3, <1>4 DEF PrintRow, Row, RowOf, HealthInv, TypeOK
<1>6. /\ Row(p, Used(p, percentage_used[j]), degrees') \in RowOf(Magnitude \cup {Unset})
      /\ Row(p, Used(p, percentage_used[j]), degrees')
         = [row EXCEPT !.temps = [t \in Temperatures |-> Stored(row.temps[t])]]
  BY <1>1, <1>2, <1>3, <1>4, <1>5 DEF Row, RowOf
<1>7. TypeOK'
  <2>1. output_buf' \in [DIMM -> RowOf(Magnitude \cup {Unset})]
    BY <1>1, <1>4, <1>6 DEF PrintRow, HealthInv, TypeOK
  <2>2. /\ page' \in [DIMM -> Page] /\ line' \in [DIMM -> RowOf(SomeText)]
        /\ percentage_used' \in [DIMM -> Byte]
        /\ lastRemaining' \in [DIMM -> Byte \cup {None}]
    BY <1>1, <1>4, <1>5 DEF PrintRow, HealthInv, TypeOK
  <2>3. j' \in 0 .. count
    BY <1>1 DEF PrintRow, DIMM
  <2> QED
    BY <1>3, <2>1, <2>2, <2>3 DEF PrintRow, HealthInv, TypeOK
<1>8. Carried'
  <2>1. percentage_used' = [d \in DIMM |-> line'[d].percentage_used]
    <3>1. row.percentage_used = Used(p, percentage_used[j])
      BY <1>5 DEF Row
    <3>2. line \in [DIMM -> RowOf(SomeText)] /\ percentage_used \in [DIMM -> Byte]
      BY DEF HealthInv, TypeOK
    <3>3. \A d \in DIMM : percentage_used'[d] = line'[d].percentage_used
      BY <1>1, <1>4, <1>5, <3>1, <3>2 DEF HealthInv, Carried
    <3> QED
      BY <1>4, <3>2, <3>3
  <2> QED
    BY <1>2, <2>1 DEF Carried
<1>9. OwnRow'
  <2>1. ASSUME p.validation_flags = Flag
        PROVE  /\ WorstOf(p.health_status, row.health_status)
               /\ (row.percentage_used + row.percentage_remaining) % 256 = 100
               /\ row.percentage_remaining = p.percentage_remaining
               /\ row.times = IF p.vendor_data_size = 0 THEN 0 ELSE p.times
               /\ row.temps = text'
    BY <1>1, <1>4, <1>5, <2>1 DEF Row, Used, Byte, Times, Flag
  <2>2. ASSUME p.validation_flags = Flag, NEW t \in Temperatures
        PROVE  IF t \in Temperature \/ p.vendor_data_size # 0
               THEN Shows(text'[t], p[t]) ELSE text'[t] = Empty
    BY <1>1, <1>2, <2>2 DEF Page
  <2>3. ASSUME p.validation_flags = Flag PROVE RowIsOwn(p, row)
    <3>1. /\ Temperature \subseteq Temperatures /\ MaxTemperature \subseteq Temperatures
          /\ \A t \in MaxTemperature : t \notin Temperature
      BY DEF Temperatures, Temperature, MaxTemperature
    <3> QED
      BY <2>1, <2>2, <2>3, <3>1 DEF RowIsOwn
  <2> QED
    BY <1>1, <1>5, <2>3 DEF PrintRow, OwnRow, HealthInv, TypeOK
<1>10. UsedIsOwn'
  BY <1>1, <1>4, <1>5 DEF PrintRow, HealthInv, UsedIsOwn, Carried, TypeOK, Row, Used, Byte, None
<1>11. FileAndBufferAgree'
  <2> SUFFICES ASSUME using_api = 1, NEW d \in DIMM
               PROVE  output_buf'[d] = [line'[d] EXCEPT !.temps =
                        [t \in Temperatures |-> Stored(line'[d].temps[t])]]
    BY DEF PrintRow, FileAndBufferAgree
  <2>1. output_buf' = [output_buf EXCEPT ![j] = Row(p, Used(p, percentage_used[j]), degrees')]
    BY <1>1, <1>4 DEF PrintRow, HealthInv, TypeOK
  <2>2. /\ output_buf \in [DIMM -> RowOf(Magnitude \cup {Unset})]
        /\ line \in [DIMM -> RowOf(SomeText)]
    BY DEF HealthInv, TypeOK
  <2>3. CASE d = j
    BY <1>1, <1>5, <1>6, <2>1, <2>2, <2>3
  <2>4. CASE d # j
    BY <1>1, <1>5, <2>1, <2>2, <2>4 DEF HealthInv, FileAndBufferAgree
  <2> QED
    BY <2>3, <2>4
<1> QED
  BY <1>7, <1>8, <1>9, <1>10, <1>11 DEF HealthInv

LEMMA HealthStep == HealthInv /\ [Next]_vars => HealthInv'
<1> SUFFICES ASSUME HealthInv, [Next]_vars PROVE HealthInv'
  OBVIOUS
<1> DEFINE Same == UNCHANGED <<using_api, percentage_used, text, degrees, line,
                               output_buf, page, lastRemaining>>
<1>1. ASSUME Same, UNCHANGED j \/ j' = 0,
             phase' \in {"rows", "done"}, i' \in 1 .. MaxRows
      PROVE  HealthInv'
  <2>1. TypeOK'
    <3>1. j' \in 0 .. count
      BY <1>1, HealthOK DEF HealthInv, TypeOK
    <3>2. UNCHANGED using_api /\ UNCHANGED <<percentage_used, text, degrees, line,
                                            output_buf, page, lastRemaining>>
      BY <1>1
    <3> QED
      BY <1>1, <3>1, <3>2 DEF HealthInv, TypeOK
  <2>2. Carried'
    BY <1>1 DEF HealthInv, Carried
  <2>3. OwnRow' /\ UsedIsOwn' /\ FileAndBufferAgree'
    BY <1>1 DEF HealthInv, OwnRow, UsedIsOwn, FileAndBufferAgree
  <2> QED
    BY <2>1, <2>2, <2>3 DEF HealthInv
<1>2. CASE \E p \in Pages : PrintRow(p)
  BY <1>2, PrintRowStep
<1>3. CASE DeviceFails
  BY <1>1, <1>3 DEF DeviceFails, shared, HealthInv, TypeOK
<1>4. CASE EndRow
  <2>1. i \in 1 .. MaxRows /\ phase \in {"rows", "done"}
    BY DEF HealthInv, TypeOK
  <2>2. /\ Same /\ (UNCHANGED j \/ j' = 0)
        /\ phase' \in {"rows", "done"} /\ i' \in 1 .. MaxRows
    BY <1>4, <2>1, HealthOK DEF EndRow, shared
  <2> QED
    BY <1>1, <2>2
<1>5. CASE UNCHANGED vars
  BY <1>1, <1>5 DEF vars, shared, HealthInv, TypeOK
<1> QED
  BY <1>2, <1>3, <1>4, <1>5 DEF Next, Terminated

LEMMA HealthInvariant == Spec => []HealthInv
BY HealthInit, HealthStep, PTL DEF Spec

(***************************************************************************)
(* Every printed and stored value fits its C type, on any page.            *)
(***************************************************************************)
THEOREM HealthTypes == Spec => []TypeOK
<1>1. HealthInv => TypeOK
  BY DEF HealthInv
<1> QED
  BY HealthInvariant, <1>1, PTL

(***************************************************************************)
(* The printed row of a DIMM whose page has every flag says what the page  *)
(* says; and the share of its life used that any row prints is the DIMM's  *)
(* own (the row loop of Print_Health_Info).                                *)
(***************************************************************************)
THEOREM FullPagesAreReported == Spec => [](OwnRow /\ UsedIsOwn)
<1>1. HealthInv => OwnRow /\ UsedIsOwn
  BY DEF HealthInv
<1> QED
  BY HealthInvariant, <1>1, PTL

(***************************************************************************)
(* The file and the client's buffer have the same rows up to the sign of a *)
(* temperature.                                                            *)
(***************************************************************************)
THEOREM FileAndBuffer == Spec => []FileAndBufferAgree
<1>1. HealthInv => FileAndBufferAgree
  BY DEF HealthInv
<1> QED
  BY HealthInvariant, <1>1, PTL
=============================================================================
