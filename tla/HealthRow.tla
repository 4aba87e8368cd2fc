------------------------------ MODULE HealthRow -----------------------------
(***************************************************************************)
(* The rows of health information: PMW_COMM_Get_Health_Info_Page and the   *)
(* row loop of PMW_COLLECT_Print_Health_Info.                              *)
(*                                                                         *)
(* Every interval reads one page from every DIMM.  The page's validation   *)
(* flags say which of its fields mean something, and only those are        *)
(* converted.  The results are kept per DIMM, but the four temperatures    *)
(* are local variables of the loop that all DIMMs share, twice each: as    *)
(* the text printed to fout and as the number stored in output_buf.        *)
(*                                                                         *)
(* Abstractions.  times stands for power_on_time, uptime and               *)
(* last_shutdown_time.  A text is its sign and its magnitude; Unset is     *)
(* whatever an uninitialised variable happens to hold.  How the rows of an *)
(* interval are published is CollectApi's part.                            *)
(***************************************************************************)
EXTENDS Integers, FiniteSets

CONSTANTS
  count,      \* DIMMs
  Pages,      \* health pages a DIMM may give
  Half,       \* TEMP_VALUE_MASK + 1: half the values of a 16 bit temperature
  Unset,      \* what was on the stack
  MaxRows,    \* bound: intervals
  Faults      \* "device": a DIMM does not answer

Temperature == {"media_temp", "controller_temp"}
MaxTemperature == {"max_media_temp", "max_controller_temp"}
Temperatures == Temperature \cup MaxTemperature

\* The bits of validation_flags that the loop looks at: 0, 1, 3, 4 and 11.
Flag == {"health_status", "percentage_remaining", "vendor"} \cup Temperature

Byte == 0 .. 255
Page ==
  [validation_flags : SUBSET Flag, health_status : Byte,
   percentage_remaining : Byte, vendor_data_size : Nat, times : Nat,
   media_temp : 0 .. 2 * Half - 1, controller_temp : 0 .. 2 * Half - 1,
   max_media_temp : 0 .. 2 * Half - 1, max_controller_temp : 0 .. 2 * Half - 1]

ASSUME HealthOK ==
  /\ count \in Nat \ {0} /\ Half \in Nat \ {0} /\ MaxRows \in Nat \ {0}
  /\ Pages \subseteq Page
  /\ Faults \subseteq {"device"}
  /\ Unset \notin [minus : BOOLEAN, degrees : 0 .. Half - 1]

VARIABLES
  phase,            \* "rows" or "done"
  i, j,             \* interval and DIMM
  using_api,
  percentage_used,  \* of each DIMM: the one field no page overwrites
  text, degrees,    \* the shared temperatures: as printed, as stored
  line, output_buf, \* of each DIMM: what was printed and what was stored last
  page, lastRemaining \* not in the program: the page each DIMM gave last, and
                    \* the percentage remaining it gave last, None before

shared == <<text, degrees>>
vars == <<phase, i, j, using_api, percentage_used, shared, line, output_buf,
          page, lastRemaining>>

DIMM == 0 .. count - 1
\* raw & TEMP_VALUE_MASK, which leaves the highest bit for the sign.
Degrees(raw) == IF raw >= Half THEN raw - Half ELSE raw
Text(raw) == [minus |-> raw >= Half, degrees |-> Degrees(raw)]
Empty == [minus |-> FALSE, degrees |-> 0]   \* an empty text

NoRow == [health_status |-> 0, percentage_used |-> 0, percentage_remaining |-> 0,
          times |-> 0, temps |-> [t \in Temperatures |-> 0]]
NoLine == [NoRow EXCEPT !.temps = [t \in Temperatures |-> Empty]]
NoPage ==
  [validation_flags |-> {}, health_status |-> 0, percentage_remaining |-> 0,
   vendor_data_size |-> 0, times |-> 0, media_temp |-> 0, controller_temp |-> 0,
   max_media_temp |-> 0, max_controller_temp |-> 0]
None == -1

Init ==
  /\ phase = "rows" /\ i = 1 /\ j = 0 /\ using_api \in {0, 1}
  /\ percentage_used = [d \in DIMM |-> 0]
  /\ text = [t \in Temperatures |-> Unset] /\ degrees = [t \in Temperatures |-> Unset]
  /\ line = [d \in DIMM |-> NoLine] /\ output_buf = [d \in DIMM |-> NoRow]
  /\ page = [d \in DIMM |-> NoPage] /\ lastRemaining = [d \in DIMM |-> None]

\* The definitions whose names end in a capitalised fault are the ones they
\* precede with that fault planted; nothing uses them.
Bit(n, k) == (n \div 2 ^ k) % 2
HEALTH_STATUS_FATAL == 2
Status_LowestBit(bits) ==
  LET set == {k \in 0 .. HEALTH_STATUS_FATAL : Bit(bits, k) = 1}
  IN IF set = {} THEN 0 ELSE 1 + CHOOSE k \in set : \A m \in set : k <= m
\* One more than the highest bit set, of the three that mean something.
Status(bits) ==
  LET set == {k \in 0 .. HEALTH_STATUS_FATAL : Bit(bits, k) = 1}
  IN IF set = {} THEN 0 ELSE 1 + CHOOSE k \in set : \A m \in set : k >= m

\* A bare conversion is done when the page's flag for it is set.  Flag 11 is
\* for all that depends on the vendor's data, which may be there or not.
Converted(p, t, old, conversion, none) ==
  IF t \in Temperature
  THEN IF t \in p.validation_flags THEN conversion ELSE old
  ELSE IF "vendor" \notin p.validation_flags THEN old
       ELSE IF p.vendor_data_size > 0 THEN conversion ELSE none

Used_Signed(p, old) ==
  IF "percentage_remaining" \in p.validation_flags
  THEN 100 - p.percentage_remaining ELSE old
Used(p, old) ==
  IF "percentage_remaining" \in p.validation_flags
  THEN (100 - p.percentage_remaining) % 256 ELSE old

\* What the row shows of a DIMM that does not say how much of it remains.
UsedBefore_OfFirst == percentage_used[0]
UsedBefore == percentage_used[j]

Times(p) ==
  IF "vendor" \in p.validation_flags /\ p.vendor_data_size = 0 THEN 0 ELSE p.times

Row(p, used, temps) ==
  [health_status |->
     IF "health_status" \in p.validation_flags THEN Status(p.health_status)
                                               ELSE p.health_status,
   percentage_used |-> used, percentage_remaining |-> p.percentage_remaining,
   times |-> Times(p), temps |-> temps]

NewText(p) ==
  [t \in Temperatures |-> Converted(p, t, text[t], Text(p[t]), Empty)]

NewDegrees_OnlyValid(p) ==
  [t \in Temperatures |-> Converted(p, t, 0, Degrees(p[t]), 0)]
NewDegrees(p) ==
  [t \in Temperatures |-> Converted(p, t, degrees[t], Degrees(p[t]), 0)]

PrintRow(p) ==
  /\ phase = "rows" /\ j < count
  /\ percentage_used' = [percentage_used EXCEPT ![j] = Used(p, UsedBefore)]
  /\ text' = NewText(p)
  /\ degrees' = NewDegrees(p)
  /\ line' = [line EXCEPT ![j] = Row(p, percentage_used'[j], text')]
  /\ output_buf' =
       IF using_api = 1 THEN [output_buf EXCEPT ![j] = Row(p, percentage_used'[j], degrees')]
                        ELSE output_buf
  /\ page' = [page EXCEPT ![j] = p]
  /\ lastRemaining' =
       IF "percentage_remaining" \in p.validation_flags
       THEN [lastRemaining EXCEPT ![j] = p.percentage_remaining] ELSE lastRemaining
  /\ j' = j + 1
  /\ UNCHANGED <<phase, i, using_api>>

\* The time stamps are printed before the devices are asked; CollectApi has
\* what the buffer shows then.
DeviceFails ==
  /\ phase = "rows" /\ j < count /\ "device" \in Faults
  /\ phase' = "done"
  /\ UNCHANGED <<i, j, using_api, percentage_used, shared, line, output_buf, page,
                 lastRemaining>>

EndRow ==
  /\ phase = "rows" /\ j = count
  /\ IF i < MaxRows THEN i' = i + 1 /\ j' = 0 /\ UNCHANGED phase
                    ELSE phase' = "done" /\ UNCHANGED <<i, j>>
  /\ UNCHANGED <<using_api, percentage_used, shared, line, output_buf, page,
                 lastRemaining>>

Terminated == phase = "done" /\ UNCHANGED vars

Next == (\E p \in Pages : PrintRow(p)) \/ DeviceFails \/ EndRow \/ Terminated

Spec == Init /\ [][Next]_vars

(***************************************************************************)
(* A text is Unset or has a sign and a magnitude, a stored temperature is  *)
(* Unset or a magnitude, and every other number fits its C type.           *)
(***************************************************************************)
Magnitude == 0 .. Half - 1
SomeText == [minus : BOOLEAN, degrees : Magnitude] \cup {Unset}
RowOf(T) ==
  [health_status : Byte, percentage_used : Byte, percentage_remaining : Byte,
   times : Nat, temps : [Temperatures -> T]]
TypeOK ==
  /\ phase \in {"rows", "done"} /\ i \in 1 .. MaxRows /\ j \in 0 .. count
  /\ using_api \in {0, 1}
  /\ percentage_used \in [DIMM -> Byte]
  /\ text \in [Temperatures -> SomeText]
  /\ degrees \in [Temperatures -> Magnitude \cup {Unset}]
  /\ line \in [DIMM -> RowOf(SomeText)]
  /\ output_buf \in [DIMM -> RowOf(Magnitude \cup {Unset})]
  /\ page \in [DIMM -> Page]
  /\ lastRemaining \in [DIMM -> Byte \cup {None}]

(***************************************************************************)
(* The printed row of a DIMM whose page has every flag says what that page *)
(* says: the worst of its states of health, shares of its life that add    *)
(* up, and every temperature with its sign.                                *)
(***************************************************************************)
WorstOf(bits, status) ==
  /\ \A k \in 0 .. HEALTH_STATUS_FATAL : Bit(bits, k) = 1 => k < status
  /\ status > 0 => Bit(bits, status - 1) = 1
Shows(cell, raw) ==
  cell # Unset /\ raw = cell.degrees + (IF cell.minus THEN Half ELSE 0)
RowIsOwn(p, row) ==
  /\ WorstOf(p.health_status, row.health_status)
  /\ (row.percentage_used + row.percentage_remaining) % 256 = 100
  /\ row.percentage_remaining = p.percentage_remaining
  /\ \A t \in Temperature : Shows(row.temps[t], p[t])
  /\ IF p.vendor_data_size = 0
     THEN row.times = 0 /\ \A t \in MaxTemperature : row.temps[t] = Empty
     ELSE row.times = p.times /\ \A t \in MaxTemperature : Shows(row.temps[t], p[t])
OwnRow == \A d \in DIMM : page[d].validation_flags = Flag => RowIsOwn(page[d], line[d])

(***************************************************************************)
(* The share of its life that a DIMM has used is its own: the complement   *)
(* of what it last said remains, or 0 as long as it has not said so.       *)
(***************************************************************************)
UsedIsOwn ==
  \A d \in DIMM :
    line[d].percentage_used =
      IF lastRemaining[d] = None THEN 0 ELSE (100 - lastRemaining[d]) % 256

(***************************************************************************)
(* The client's buffer and the file tell the same of every DIMM, stale and *)
(* unset temperatures included, but for the sign, which the buffer loses.  *)
(***************************************************************************)
Stored(cell) == IF cell = Unset THEN Unset ELSE cell.degrees
FileAndBufferAgree ==
  using_api = 1 =>
    \A d \in DIMM :
      output_buf[d] =
        [line[d] EXCEPT !.temps = [t \in Temperatures |-> Stored(line[d].temps[t])]]

(***************************************************************************)
(* The temperatures that a row shows of a DIMM's media and controller are  *)
(* their current ones (docs/README:85-89): those of the page the DIMM has  *)
(* just given, if it gives them.                                           *)
(***************************************************************************)
TemperaturesAreOwn ==
  \A d \in DIMM : \A t \in Temperature :
    line[d].temps[t] # Empty =>
      t \in page[d].validation_flags /\ Shows(line[d].temps[t], page[d][t])
=============================================================================
