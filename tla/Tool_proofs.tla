----------------------------- MODULE Tool_proofs ----------------------------
(***************************************************************************)
(* Theorems about the tool's process, for every machine and every set of  *)
(* faults.                                                                 *)
(***************************************************************************)
EXTENDS Tool, FiniteSetTheorems, FunctionTheorems, TLAPS

(***************************************************************************)
(* The comparison that qsort is given never overflows on the handles of a  *)
(* machine: it says which of the two is smaller.                           *)
(***************************************************************************)
LEMMA ComparisonIsDifference ==
  ASSUME NEW hw \in Hardware, NEW m \in DOMAIN hw, NEW n \in DOMAIN hw
  PROVE  /\ hw[m] \in Device /\ hw[n] \in Device
         /\ Compare_Topology(hw[m], hw[n]) = hw[m].handle - hw[n].handle
<1>1. hw \in Seq(Device)
  BY ToolOK
<1>2. hw[m] \in Device /\ hw[n] \in Device
  BY <1>1
<1>3. 2 * hw[m].handle < IntWord /\ 2 * hw[n].handle < IntWord /\ IntWord \in Nat \ {0}
  BY ToolOK
<1> DEFINE x == hw[m].handle
           y == hw[n].handle
<1>4. x \in Nat /\ y \in Nat
  BY <1>2 DEF Device
<1> HIDE DEF x, y
<1>5. Int32(x - y) = x - y
  <2> DEFINE half == IntWord \div 2
  <2>1. half \in Nat /\ 2 * half <= IntWord /\ IntWord <= 2 * half + 1
    BY <1>3
  <2>2. 2 * x < IntWord /\ 2 * y < IntWord
    BY <1>3 DEF x, y
  <2> HIDE DEF half
  <2>3. x - y + half \in 0 .. IntWord - 1
    BY <1>3, <1>4, <2>1, <2>2
  <2>4. (x - y + half) % IntWord = x - y + half
    BY <1>3, <2>3
  <2> QED
    BY <1>4, <2>1, <2>4 DEF Int32, half
<1> QED
  BY <1>2, <1>5 DEF Compare_Topology, x, y

(***************************************************************************)
(* What qsort leaves in the array: every device of the machine, once, in   *)
(* the order of the handles.                                               *)
(***************************************************************************)
LEMMA SortedDevices ==
  ASSUME NEW hw \in Hardware, NEW t \in Sort_DIMM_Topology(hw)
  PROVE  /\ t \in Seq(Device) /\ Len(t) = Len(hw)
         /\ \A m, n \in 1 .. Len(t) : m < n => t[m].handle < t[n].handle
         /\ \A m, n \in 1 .. Len(t) : m < n => t[m].socket_id <= t[n].socket_id
         /\ \A h \in DOMAIN hw : \E d \in 1 .. Len(hw) : t[d] = hw[h]
         /\ \A d \in 1 .. Len(hw) : \E h \in DOMAIN hw : t[d] = hw[h]
<1> DEFINE place == 1 .. Len(hw)
<1>1. hw \in Seq(Device) /\ DOMAIN hw = place /\ Len(hw) \in Nat
  BY ToolOK
<1>2. PICK o \in Bijection(place, place) :
        /\ t = [n \in place |-> hw[o[n]]]
        /\ \A m, n \in place : m < n => Compare_Topology(hw[o[m]], hw[o[n]]) <= 0
  BY DEF Sort_DIMM_Topology
<1>3. /\ o \in [place -> place]
      /\ \A m, n \in place : o[m] = o[n] => m = n
      /\ \A h \in place : \E d \in place : o[d] = h
  BY DEF Bijection, Injection, Surjection, IsInjective
<1> HIDE DEF place
<1>4. \A n \in place : t[n] = hw[o[n]] /\ t[n] \in Device
  BY <1>1, <1>2, <1>3, ComparisonIsDifference
<1>5. t \in Seq(Device) /\ Len(t) = Len(hw)
  <2>1. t \in [1 .. Len(hw) -> Device]
    BY <1>2, <1>4 DEF place
  <2> QED
    BY <1>1, <2>1
<1>6. ASSUME NEW m \in place, NEW n \in place, m < n
      PROVE  t[m].handle < t[n].handle /\ t[m].socket_id <= t[n].socket_id
  <2>1. o[m] \in place /\ o[n] \in place /\ o[m] # o[n]
    <3>1. m # n
      BY <1>1, <1>6 DEF place
    <3> QED
      BY <1>3, <3>1
  <2>2. Compare_Topology(hw[o[m]], hw[o[n]]) = hw[o[m]].handle - hw[o[n]].handle
    BY <1>1, <2>1, ComparisonIsDifference
  <2>3. hw[o[m]].handle - hw[o[n]].handle <= 0
    BY <1>2, <1>6, <2>2
  <2>4. hw[o[m]] \in Device /\ hw[o[n]] \in Device
    BY <1>4
  <2>5. hw[o[m]].handle < hw[o[n]].handle
    <3>1. hw[o[m]].handle # hw[o[n]].handle
      BY <1>1, <2>1, ToolOK
    <3> QED
      BY <2>3, <2>4, <3>1 DEF Device
  <2>6. hw[o[m]].socket_id <= hw[o[n]].socket_id
    <3>1. ~(hw[o[n]].socket_id < hw[o[m]].socket_id)
      <4>1. hw[o[n]].socket_id < hw[o[m]].socket_id
              => hw[o[n]].handle < hw[o[m]].handle
        BY <1>1, <2>1, ToolOK
      <4> QED
        BY <2>4, <2>5, <4>1 DEF Device
    <3> QED
      BY <2>4, <3>1 DEF Device
  <2> QED
    BY <1>4, <2>5, <2>6
<1>7. ASSUME NEW h \in DOMAIN hw PROVE \E d \in 1 .. Len(hw) : t[d] = hw[h]
  <2>1. PICK d \in place : o[d] = h
    BY <1>1, <1>3
  <2>2. t[d] = hw[h]
    BY <1>4, <2>1
  <2> QED
    BY <2>2 DEF place
<1>8. ASSUME NEW d \in place PROVE \E h \in DOMAIN hw : t[d] = hw[h]
  BY <1>1, <1>3, <1>4
<1> QED
  BY <1>5, <1>6, <1>7, <1>8 DEF place

LEMMA ToolInit == Init => ToolInv
BY DEF Init, ToolInv, GivenBack, CodeIsRight, Fit, Early, Late, Collecting

LEMMA TopologyStep == TopologyInv /\ [Next]_vars => TopologyInv'
<1> SUFFICES ASSUME TopologyInv, [Next]_vars PROVE TopologyInv'
  OBVIOUS
<1> USE DEF TopologyInv, Goto, machine, comm
<1>1. CASE ReadTopology
  BY <1>1 DEF ReadTopology, FailsLate
<1>2. CASE CheckFirmware
  BY <1>2 DEF CheckFirmware
<1>3. ASSUME UNCHANGED hardware, at' \notin {"firmware", "work"} PROVE TopologyInv'
  BY <1>3
<1>4. CASE UNCHANGED vars
  BY <1>4 DEF vars
<1> QED
  BY <1>1, <1>2, <1>3, <1>4 DEF Next, Call, CheckPermission, CreateContext, GetVersion,
     IsAvailable, GetNumber, Work, Cleanup, AfterCleanup, Failed, AfterFailure,
     PrintWarning, CloseFile, Exited, FailsWith

(***************************************************************************)
(* pmw_comm_Check_PreR_FW looks at the machine's own firmware: when it has *)
(* found no reason to refuse, none is unsupported or one is unparsed.      *)
(***************************************************************************)
LEMMA FirmwareFound ==
  ASSUME ToolInv, TopologyInv, at = "firmware", ~is_prer_fw
  PROVE  AllParsed => AllSupported
<1>1. /\ hardware \in Hardware /\ topology \in Sort_DIMM_Topology(hardware)
      /\ count = Len(hardware)
  BY DEF TopologyInv, ToolInv, CodeIsRight
<1>2. /\ \A h \in DOMAIN hardware : \E d \in 1 .. count : topology[d] = hardware[h]
      /\ \A d \in 1 .. count : \E h \in DOMAIN hardware : topology[d] = hardware[h]
  BY <1>1, SortedDevices
<1> QED
  BY <1>2 DEF is_prer_fw, Finds, AllParsed, AllSupported

(***************************************************************************)
(* Every step of the process keeps the invariant: one case for each action. *)
(* Only the check of the firmware needs more than its own definition: the  *)
(* devices it looks at are the machine's.                                  *)
(***************************************************************************)
LEMMA ToolStep == ToolInv /\ TopologyInv /\ [Next]_vars => ToolInv'
<1> SUFFICES ASSUME ToolInv, TopologyInv, [Next]_vars PROVE ToolInv'
  OBVIOUS
<1> USE DEF ToolInv, GivenBack, CodeIsRight, Fit, AllParsed, AllSupported, Early, Late,
            Goto, Collecting, machine, comm
<1>1. ASSUME NEW o \in Options, Call(o) PROVE ToolInv'
  BY <1>1 DEF Call
<1>2. CASE CheckPermission
  BY <1>2 DEF CheckPermission, FailsWith
<1>3. CASE CreateContext
  BY <1>3 DEF CreateContext
<1>4. CASE GetVersion
  BY <1>4 DEF GetVersion
<1>5. CASE IsAvailable
  BY <1>5 DEF IsAvailable, FailsWith, ErrorCode
<1>6. CASE GetNumber
  BY <1>6 DEF GetNumber, FailsWith, ErrorCode
<1>7. CASE ReadTopology
  BY <1>7 DEF ReadTopology, FailsLate, ErrorCode
<1>8. CASE CheckFirmware
  <2>1. CASE is_prer_fw
    BY <1>8, <2>1 DEF CheckFirmware, FirmwareRefused, FailsLate
  <2>2. CASE ~is_prer_fw
    <3>1. AllParsed => AllSupported
      BY <1>8, <2>2, FirmwareFound DEF CheckFirmware
    <3> QED
      BY <1>8, <2>2, <3>1 DEF CheckFirmware, AllParsed, AllSupported
  <2> QED
    BY <2>1, <2>2
<1>9. CASE Work
  BY <1>9 DEF Work
<1>10. CASE Cleanup
  BY <1>10 DEF Cleanup, AfterCleanup
<1>11. CASE Failed
  BY <1>11 DEF Failed, AfterFailure
<1>12. CASE PrintWarning
  BY <1>12 DEF PrintWarning, AfterFailure
<1>13. CASE CloseFile
  BY <1>13 DEF CloseFile
<1>14. CASE Exited \/ UNCHANGED vars
  BY <1>14 DEF Exited, vars
<1> QED
  BY <1>1, <1>2, <1>3, <1>4, <1>5, <1>6, <1>7, <1>8, <1>9, <1>10, <1>11, <1>12,
     <1>13, <1>14 DEF Next

LEMMA TypeInit == Init => TypeOK /\ TopologyInv
<1> SUFFICES ASSUME Init PROVE TypeOK /\ TopologyInv
  OBVIOUS
<1>1. root \in BOOLEAN /\ version \in BOOLEAN
  BY Zenon DEF Init
<1>2. topology \in Seq(Device)
  BY DEF Init
<1> QED
  BY <1>1, <1>2 DEF Init, TypeOK, TopologyInv

LEMMA TypeStep == TypeOK /\ TopologyInv /\ ToolInv /\ [Next]_vars => TypeOK'
<1> SUFFICES ASSUME TypeOK, TopologyInv, ToolInv, [Next]_vars PROVE TypeOK'
  OBVIOUS
<1> USE DEF TypeOK, Goto, Collecting, machine, comm
<1>1. ASSUME NEW o \in Options, Call(o) PROVE TypeOK'
  BY <1>1 DEF Call
<1>2. CASE CheckPermission
  BY <1>2 DEF CheckPermission, FailsWith
<1>3. CASE CreateContext
  BY <1>3 DEF CreateContext
<1>4. CASE GetVersion
  BY <1>4 DEF GetVersion
<1>5. CASE IsAvailable
  BY <1>5 DEF IsAvailable, FailsWith, ErrorCode
<1>6. CASE GetNumber
  <2>1. Len(hardware) \in Nat
    BY ToolOK
  <2> QED
    BY <1>6, <2>1 DEF GetNumber, FailsWith, ErrorCode
<1>7. CASE ReadTopology
  <2>1. Blank \in Seq(Device)
    BY DEF Blank, Device
  <2>2. \A t \in Sort_DIMM_Topology(hardware) : t \in Seq(Device)
    BY SortedDevices
  <2>3. topology' \in Seq(Device)
    BY <1>7, <2>1, <2>2 DEF ReadTopology
  <2> QED
    BY <1>7, <2>3 DEF ReadTopology, FailsLate, ErrorCode
<1>8. CASE CheckFirmware
  BY <1>8 DEF CheckFirmware, FirmwareRefused, FailsLate
<1>9. CASE Work
  BY <1>9 DEF Work
<1>10. CASE Cleanup
  BY <1>10 DEF Cleanup, AfterCleanup
<1>11. CASE Failed
  BY <1>11 DEF Failed, AfterFailure
<1>12. CASE PrintWarning
  BY <1>12 DEF PrintWarning, AfterFailure
<1>13. CASE CloseFile
  BY <1>13 DEF CloseFile
<1>14. CASE Exited \/ UNCHANGED vars
  BY <1>14 DEF Exited, vars
<1> QED
  BY <1>1, <1>2, <1>3, <1>4, <1>5, <1>6, <1>7, <1>8, <1>9, <1>10, <1>11, <1>12,
     <1>13, <1>14 DEF Next

LEMMA DevicesAreSorted == Spec => [](TypeOK /\ TopologyInv /\ ToolInv)
BY TypeInit, ToolInit, TypeStep, TopologyStep, ToolStep, PTL DEF Spec

(***************************************************************************)
(* Whatever the machine is and whatever fails, a collecting process exits  *)
(* with its context, its array of devices and its file given back, and no  *)
(* process frees the array twice (PMW_COMM_Cleanup).                       *)
(***************************************************************************)
THEOREM EverythingGivenBack == Spec => [](ReleasedAtExit /\ FreedOnce)
<1>1. ToolInv => ReleasedAtExit /\ FreedOnce
  BY DEF ToolInv, GivenBack, ReleasedAtExit, FreedOnce, Collecting
<1> QED
  BY DevicesAreSorted, <1>1, PTL

(***************************************************************************)
(* Exit code 0 is only for root, on a machine all of whose DIMMs the tool  *)
(* has found; and unless some version could not be parsed, none of them    *)
(* has unsupported firmware.                                               *)
(***************************************************************************)
THEOREM SuccessIsForFitMachines == Spec => []SuccessIsEarned
<1>1. ToolInv => SuccessIsEarned
  BY DEF ToolInv, CodeIsRight, Fit, Late, SuccessIsEarned
<1> QED
  BY DevicesAreSorted, <1>1, PTL

(***************************************************************************)
(* Every variable keeps its type, whatever fails.                          *)
(***************************************************************************)
THEOREM ToolTypes == Spec => []TypeOK
BY DevicesAreSorted, PTL

(***************************************************************************)
(* The count that bounds every loop over gp_DIMM_devices is the number of  *)
(* devices in the array, and not zero, on every machine.                   *)
(***************************************************************************)
THEOREM CountIsRight == Spec => []DevicesInUse
<1>1. TopologyInv /\ ToolInv => DevicesInUse
  <2> SUFFICES ASSUME TopologyInv, ToolInv, at \in {"firmware", "work"}
               PROVE  devices = "live" /\ count > 0 /\ count = Len(topology)
    BY DEF DevicesInUse
  <2>1. Len(topology) = Len(hardware)
    BY SortedDevices DEF TopologyInv
  <2>2. Len(hardware) > 0 /\ count = Len(hardware)
    BY DEF ToolInv, CodeIsRight, Fit
  <2> QED
    BY <2>1, <2>2 DEF TopologyInv
<1> QED
  BY <1>1, DevicesAreSorted, PTL

(***************************************************************************)
(* On every machine, in whatever order libipmctl names its DIMMs, each has *)
(* a place in the report, the same every time, and a package that the      *)
(* grouped format prints.                                                  *)
(***************************************************************************)
THEOREM NoDimmMissing == Spec => []EveryDimmReported
<1>1. TopologyInv /\ ToolInv => EveryDimmReported
  <2> SUFFICES ASSUME TopologyInv, ToolInv, at = "work"
               PROVE  /\ \A d \in 1 .. count : topology[d].socket_id \in 0 .. num_packages - 1
                      /\ \A d \in 1 .. count - 1 : topology[d].handle < topology[d + 1].handle
                      /\ \A h \in DOMAIN hardware :
                           \E d \in 1 .. count : topology[d] = hardware[h]
    BY DEF EveryDimmReported
  <2>1. /\ topology \in Seq(Device) /\ Len(topology) = Len(hardware)
        /\ \A m, n \in 1 .. Len(topology) : m < n => topology[m].handle < topology[n].handle
        /\ \A m, n \in 1 .. Len(topology) :
             m < n => topology[m].socket_id <= topology[n].socket_id
        /\ \A h \in DOMAIN hardware : \E d \in 1 .. Len(hardware) : topology[d] = hardware[h]
    BY SortedDevices DEF TopologyInv
  <2>2. count \in Nat /\ count > 0 /\ count = Len(hardware)
    BY <2>1 DEF ToolInv, CodeIsRight, Fit
  <2>3. \A d \in 1 .. count : topology[d] \in Device
    BY <2>1, <2>2
  <2>4. ASSUME NEW d \in 1 .. count PROVE topology[d].socket_id \in 0 .. num_packages - 1
    <3>1. topology[d].socket_id <= topology[count].socket_id
      BY <2>1, <2>2, <2>3 DEF Device
    <3> QED
      BY <2>2, <2>3, <3>1 DEF Device, num_packages
  <2> QED
    BY <2>1, <2>2, <2>4
<1> QED
  BY <1>1, DevicesAreSorted, PTL

(***************************************************************************)
(* The order that qsort is asked for exists: the comparison is a strict    *)
(* order on the devices of a machine.  The place of a device is the number *)
(* of devices that come before it.                                         *)
(***************************************************************************)
THEOREM OrderExists ==
  ASSUME NEW hw \in Hardware PROVE Sort_DIMM_Topology(hw) # {}
<1> DEFINE place == 1 .. Len(hw)
           Before(m) == {q \in place : hw[q].handle < hw[m].handle}
           rank == [m \in place |-> Cardinality(Before(m)) + 1]
<1>1. hw \in Seq(Device) /\ DOMAIN hw = place /\ Len(hw) \in Nat
  BY ToolOK
<1>2. IsFiniteSet(place) /\ Cardinality(place) = Len(hw)
  BY <1>1, FS_Interval
<1>3. \A m \in place : hw[m].handle \in Nat
  <2>1. \A m \in place : hw[m] \in Device
    BY <1>1
  <2> QED
    BY <2>1 DEF Device
<1>4. \A m \in place : rank[m] = Cardinality(Before(m)) + 1
  OBVIOUS
<1> HIDE DEF rank
<1>5. ASSUME NEW m \in place
      PROVE  /\ Before(m) \in SUBSET place /\ m \notin Before(m)
             /\ IsFiniteSet(Before(m)) /\ Cardinality(Before(m)) \in Nat
  <2>1. Before(m) \in SUBSET place /\ m \notin Before(m)
    BY <1>3
  <2> QED
    BY <1>2, <2>1, FS_Subset, FS_CardinalityType
<1>6. ASSUME NEW m \in place, NEW n \in place, hw[m].handle < hw[n].handle
      PROVE  rank[m] < rank[n]
  <2>1. Before(m) \cup {m} \in SUBSET Before(n)
    BY <1>3, <1>6
  <2>2. Cardinality(Before(m) \cup {m}) = Cardinality(Before(m)) + 1
    BY <1>5, FS_AddElement
  <2>3. Cardinality(Before(m) \cup {m}) <= Cardinality(Before(n))
    BY <1>5, <2>1, FS_Subset
  <2> HIDE DEF Before
  <2> QED
    BY <1>5, <1>4, <2>2, <2>3
<1>7. ASSUME NEW m \in place PROVE rank[m] \in place
  <2>1. Before(m) \cup {m} \in SUBSET place
    BY <1>5
  <2>2. Cardinality(Before(m) \cup {m}) = Cardinality(Before(m)) + 1
    BY <1>5, FS_AddElement
  <2>3. Cardinality(Before(m) \cup {m}) <= Cardinality(place)
    BY <1>2, <2>1, FS_Subset
  <2> HIDE DEF Before
  <2> QED
    BY <1>1, <1>2, <1>5, <1>4, <2>2, <2>3
<1> HIDE DEF Before
<1>8. rank \in Bijection(place, place)
  <2>1. rank \in [place -> place]
    BY <1>7 DEF rank
  <2>2. \A m, n \in place : rank[m] = rank[n] => m = n
    <3> SUFFICES ASSUME NEW m \in place, NEW n \in place, m # n PROVE rank[m] # rank[n]
      OBVIOUS
    <3>1. hw[m].handle # hw[n].handle
      BY <1>1, ToolOK
    <3>2. hw[m].handle < hw[n].handle \/ hw[n].handle < hw[m].handle
      BY <1>3, <3>1
    <3>3. rank[m] \in Nat /\ rank[n] \in Nat
      BY <1>1, <1>7
    <3> QED
      BY <1>6, <3>2, <3>3
  <2>3. rank \in Injection(place, place)
    BY <2>1, <2>2 DEF Injection, IsInjective
  <2> QED
    BY <1>2, <2>3, FS_Injection DEF Bijection
<1> DEFINE order == Inverse(rank, place, place)
<1>9. /\ order \in Bijection(place, place)
      /\ \A m \in place : order[m] \in place /\ rank[order[m]] = m
  <2>1. order \in Bijection(place, place) /\ \A m \in place : order[rank[m]] = m
    BY <1>8, Fun_BijInverse
  <2>2. order \in [place -> place] /\ \A m \in place : \E k \in place : rank[k] = m
    BY <1>8, <2>1 DEF Bijection, Injection, Surjection
  <2> QED
    BY <2>1, <2>2
<1> HIDE DEF order
<1>10. ASSUME NEW m \in place, NEW n \in place, m < n
      PROVE  Compare_Topology(hw[order[m]], hw[order[n]]) <= 0
  <2>1. ~(hw[order[n]].handle < hw[order[m]].handle)
    BY <1>1, <1>6, <1>9, <1>10
  <2>2. hw[order[m]].handle \in Nat /\ hw[order[n]].handle \in Nat
    BY <1>3, <1>9
  <2>3. Compare_Topology(hw[order[m]], hw[order[n]])
          = hw[order[m]].handle - hw[order[n]].handle
    BY <1>1, <1>9, ComparisonIsDifference
  <2> QED
    BY <2>1, <2>2, <2>3
<1>11. [n \in place |-> hw[order[n]]] \in Sort_DIMM_Topology(hw)
  BY <1>9, <1>10 DEF Sort_DIMM_Topology
<1> QED
  BY <1>11
=============================================================================
