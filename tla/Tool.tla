-------------------------------- MODULE Tool --------------------------------
(***************************************************************************)
(* One process of the command line tool around its collection loop: main   *)
(* of src/pmwatch.c and the communication layer, src/pmw_comm.c, which     *)
(* finds the DIMMs through libipmctl and owns the context and the array of *)
(* devices.                                                                *)
(*                                                                         *)
(* main runs either "avail" (pmwatch -a), through PMW_COMM_Print_Topology, *)
(* or "collect", through PMW_COMM_Init; the two perform the same checks in *)
(* a different order and give up in different ways.                        *)
(*                                                                         *)
(* Abstractions.  A device is its handle, its socket and what the check of *)
(* its firmware makes of its version.  The collection loop is one step     *)
(* here (see Sampling).  libipmctl gives the same answer  *)
(* about the number of devices whenever it does not fail, and leaves count *)
(* alone when it does.                                                     *)
(***************************************************************************)
EXTENDS Integers, Sequences, Functions

CONSTANTS
  Hardware,   \* sequences of devices, in the order libipmctl gives them
  IntWord,    \* the number of values of an int
  Options,    \* subset of {"avail", "collect"}: how the tool may be called
  Faults      \* what may go wrong: see ToolOK

\* An "unparsed" version is one that pmw_comm_Check_PreR_FW finds no number
\* in, or one that is too long for its buffers.
Device == [handle : Nat, socket_id : Nat,
           fw_api_version : {"supported", "unsupported", "unparsed"}]

(* "user": not run as root; "context", "number", "devices": the libipmctl  *)
(* call fails; "alloc": calloc fails.                                      *)
(* A device handle has the socket above the memory controller, channel and *)
(* slot, and leaves the upper bits of its 32 unused.                       *)
ASSUME ToolOK ==
  /\ IntWord \in Nat \ {0}
  /\ Options \subseteq {"avail", "collect"}
  /\ Faults \subseteq {"user", "context", "number", "devices", "alloc"}
  /\ \A hw \in Hardware : hw \in Seq(Device)
  /\ \A hw \in Hardware : \A m, n \in DOMAIN hw :
       /\ 2 * hw[m].handle < IntWord
       /\ hw[m].handle = hw[n].handle => m = n
       /\ hw[m].socket_id < hw[n].socket_id => hw[m].handle < hw[n].handle

VARIABLES
  at,                    \* where main is
  option,                \* how it was called
  hardware, root,        \* the machine: its devices, and the user
  count,                 \* DIMMs
  devices,               \* gp_DIMM_devices: "null", "live" or "freed"
  topology,              \* what the array it points to holds
  contexts,              \* contexts created and not freed
  version,               \* ipmctl_major_ver ... have been asked for
  fout,                  \* "stdout", "open" or "closed"
  ret_code

machine == <<hardware, root>>
comm == <<count, devices, topology, contexts, version>>
vars == <<at, option, machine, comm, fout, ret_code>>

\* (The definitions with a capitalised fault at the end of their names plant
\* it in the definition they precede; the specification does not use them.)
Collecting == option = "collect"
Goto(label) == at' = label

Init ==
  /\ at = "start" /\ option = "none"
  /\ hardware \in Hardware
  /\ root \in {TRUE} \cup (IF "user" \in Faults THEN {FALSE} ELSE {})
  /\ count = 0 /\ devices = "null" /\ topology = <<>>
  /\ contexts = 0 /\ version = FALSE
  /\ fout = "stdout" /\ ret_code = "success"

Call(o) ==
  /\ at = "start" /\ o \in Options
  /\ option' = o
  /\ \/ o = "avail" /\ Goto("permission") /\ UNCHANGED <<fout, ret_code>>
     \/ /\ o = "collect" /\ Goto("context")
        /\ fout' \in {"stdout", "open"}     \* -f, and the file could be opened
        /\ UNCHANGED ret_code
     \/ o = "collect" /\ Goto("exit") /\ ret_code' = "1" /\ UNCHANGED fout
  /\ UNCHANGED <<machine, comm>>

\* Where a failure of the communication layer leads main: straight to its
\* check of ret_code, or by way of the PMW_COMM_Cleanup that only
\* PMW_COMM_Print_Topology calls after it has read the topology.
FailsWith(code) ==
  /\ ret_code' = code
  /\ Goto("failed")
FailsLate_GoesOn(code) == ret_code' = code /\ Goto("firmware")
FailsLate(code) ==
  /\ ret_code' = code
  /\ Goto(IF Collecting THEN "failed" ELSE "cleanup")
ErrorCode == IF Collecting THEN "201" ELSE "200"

CheckPermission ==
  /\ at = "permission"
  /\ IF root THEN Goto(IF Collecting THEN "version" ELSE "context") /\ UNCHANGED ret_code
             ELSE FailsWith("204")
  /\ UNCHANGED <<option, machine, comm, fout>>

\* The tool goes on when no context could be created.
CreateContext ==
  /\ at = "context"
  /\ \/ contexts' = contexts + 1
     \/ "context" \in Faults /\ UNCHANGED contexts
  /\ Goto(IF Collecting THEN "permission" ELSE "version")
  /\ UNCHANGED <<option, machine, count, devices, topology, version, fout, ret_code>>

GetVersion ==
  /\ at = "version"
  /\ version' = TRUE
  /\ Goto("available")
  /\ UNCHANGED <<option, machine, count, devices, topology, contexts, fout, ret_code>>

\* PMW_COMM_Is_DIMM_Available has a count of its own.
IsAvailable ==
  /\ at = "available"
  /\ \/ Len(hardware) > 0 /\ Goto("number") /\ UNCHANGED ret_code
     \/ (Len(hardware) = 0 \/ "number" \in Faults) /\ FailsWith(ErrorCode)
  /\ UNCHANGED <<option, machine, comm, fout>>

GetNumber ==
  /\ at = "number"
  /\ \/ count' = Len(hardware) /\ Goto("topology") /\ UNCHANGED ret_code
     \/ "number" \in Faults /\ UNCHANGED count /\ FailsWith(ErrorCode)
  /\ UNCHANGED <<option, machine, devices, topology, contexts, version, fout>>

\* The comparison is the int that the difference of two unsigned handles gives.
Int32(n) == ((n + IntWord \div 2) % IntWord) - IntWord \div 2
Compare_Topology_SlotOnly(a, b) == Int32((a.handle % 4) - (b.handle % 4))
Compare_Topology(a, b) == Int32(a.handle - b.handle)

\* qsort: the elements in an order that the comparison agrees with.
Sort_DIMM_Topology(s) ==
  LET place == 1 .. Len(s) IN
  {[n \in place |-> s[order[n]]] :
     order \in {o \in Bijection(place, place) :
                 \A m, n \in place : m < n => Compare_Topology(s[o[m]], s[o[n]]) <= 0}}

\* calloc fails; libipmctl fails and leaves the array zeroed; or it is filled
\* and sorted.
Blank ==
  [d \in 1 .. count |-> [handle |-> 0, socket_id |-> 0, fw_api_version |-> "unparsed"]]
ReadTopology ==
  /\ at = "topology"
  /\ \/ "alloc" \in Faults /\ FailsLate(ErrorCode) /\ UNCHANGED <<devices, topology>>
     \/ /\ "devices" \in Faults /\ FailsLate(ErrorCode)
        /\ devices' = "live" /\ topology' = Blank
     \/ /\ devices' = "live" /\ topology' \in Sort_DIMM_Topology(hardware)
        /\ Goto("firmware") /\ UNCHANGED ret_code
  /\ UNCHANGED <<option, machine, count, contexts, version, fout>>

FirmwareRefused == FailsLate("permissions")

\* Counts the unsupported devices, up to one whose version it cannot parse:
\* then it returns an error that neither caller looks at, before the count
\* has set is_prer_fw, and the tool goes on.
Finds(version_is) == \E d \in 1 .. count : topology[d].fw_api_version = version_is
is_prer_fw_FirstOnly == topology[1].fw_api_version = "unsupported" /\ ~Finds("unparsed")
is_prer_fw == Finds("unsupported") /\ ~Finds("unparsed")
CheckFirmware ==
  /\ at = "firmware"
  /\ IF is_prer_fw THEN FirmwareRefused ELSE Goto("work") /\ UNCHANGED ret_code
  /\ UNCHANGED <<option, machine, comm, fout>>

\* Printing the topology, or collecting: both look at every device, and the
\* collection asks for their number again.  main ignores how it ended.
Work ==
  /\ at = "work"
  /\ Goto("cleanup")
  /\ UNCHANGED <<option, machine, comm, fout, ret_code>>

\* The pointer is not cleared, and a context is freed whether there is one or
\* not.
AfterCleanup ==
  IF Collecting THEN "close" ELSE IF ret_code = "success" THEN "exit" ELSE "failed"
Cleanup_ContextKept ==
  /\ at = "cleanup"
  /\ devices' = IF devices = "null" THEN "null" ELSE "freed"
  /\ Goto(AfterCleanup)
  /\ UNCHANGED <<option, machine, count, topology, contexts, version, fout, ret_code>>
Cleanup_ContextUncounted ==
  /\ at = "cleanup"
  /\ devices' = IF devices = "null" THEN "null" ELSE "freed"
  /\ contexts' = contexts - 1
  /\ Goto(AfterCleanup)
  /\ UNCHANGED <<option, machine, count, topology, version, fout, ret_code>>
Cleanup ==
  /\ at = "cleanup"
  /\ devices' = IF devices = "null" THEN "null" ELSE "freed"
  /\ contexts' = IF contexts > 0 THEN contexts - 1 ELSE 0
  /\ Goto(AfterCleanup)
  /\ UNCHANGED <<option, machine, count, topology, version, fout, ret_code>>

AfterFailure_Cleanup == "cleanup"
AfterFailure == IF Collecting THEN "cleanup" ELSE "exit"

Failed ==
  /\ at = "failed"
  /\ Goto(IF ret_code = "permissions" THEN AfterFailure ELSE "warn")
  /\ UNCHANGED <<option, machine, comm, fout, ret_code>>

\* PMW_COMM_Print_Warning_Message.
PrintWarning ==
  /\ at = "warn"
  /\ Goto(AfterFailure)
  /\ UNCHANGED <<option, machine, comm, fout, ret_code>>

CloseFile ==
  /\ at = "close"
  /\ fout' = IF fout = "open" THEN "closed" ELSE fout
  /\ Goto("exit")
  /\ UNCHANGED <<option, machine, comm, ret_code>>

Exited == at = "exit" /\ UNCHANGED vars

Next ==
  \/ \E o \in Options : Call(o)
  \/ CheckPermission \/ CreateContext \/ GetVersion
  \/ IsAvailable \/ GetNumber \/ ReadTopology \/ CheckFirmware
  \/ Work \/ Cleanup \/ Failed \/ PrintWarning \/ CloseFile
  \/ Exited

Spec == Init /\ [][Next]_vars

(***************************************************************************)
(* Every variable has its type.                                            *)
(***************************************************************************)
TypeOK ==
  /\ at \in {"start", "permission", "context", "version", "available", "number",
            "topology", "firmware", "work", "cleanup", "failed", "warn", "close",
            "exit"}
  /\ option \in {"none"} \cup Options
  /\ hardware \in Hardware /\ root \in BOOLEAN
  /\ count \in Nat /\ devices \in {"null", "live", "freed"}
  /\ topology \in Seq(Device) /\ contexts \in Nat /\ version \in BOOLEAN
  /\ fout \in {"stdout", "open", "closed"}
  /\ ret_code \in {"success", "permissions", "1", "200", "201", "204"}

(***************************************************************************)
(* Whoever looks at the devices finds as many of them as count says.       *)
(***************************************************************************)
DevicesInUse ==
  at \in {"firmware", "work"} => devices = "live" /\ count > 0 /\ count = Len(topology)

(***************************************************************************)
(* The warning, which names the firmware of the first device when count    *)
(* and gp_DIMM_devices say that there is one, does so before the array is  *)
(* freed: the prerequisites it prints are the ones of this system.         *)
(***************************************************************************)
WarningReadsDevices == at = "warn" /\ count # 0 => devices # "freed"

(***************************************************************************)
(* No path of main frees the array of devices twice.                       *)
(***************************************************************************)
FreedOnce == at = "cleanup" => devices # "freed"

(***************************************************************************)
(* A collecting process gives back what it acquired on every path, however *)
(* far it came: the context, the array of devices and the output file.     *)
(***************************************************************************)
ReleasedAtExit ==
  at = "exit" /\ Collecting =>
    contexts = 0 /\ devices # "live" /\ fout # "open"

(***************************************************************************)
(* Exit code 0 is only for root, on a machine with DIMMs all of which the  *)
(* tool has found and none of which has unsupported firmware, if all their *)
(* versions can be parsed: both orders of the checks are complete.  (When  *)
(* one cannot, none of them is refused: see the next property.)            *)
(***************************************************************************)
AllParsed == \A h \in DOMAIN hardware : hardware[h].fw_api_version # "unparsed"
AllSupported == \A h \in DOMAIN hardware : hardware[h].fw_api_version # "unsupported"
Fit ==
  /\ root /\ Len(hardware) > 0 /\ count = Len(hardware)
  /\ AllParsed => AllSupported
SuccessIsEarned == at = "exit" /\ ret_code = "success" => Fit

(***************************************************************************)
(* The tool does not work with firmware that it has found unsupported, nor *)
(* with a version that it has said it is "Exiting..." for                  *)
(* (pmw_comm.c:577).                                                       *)
(***************************************************************************)
OnlySupportedFirmware ==
  at = "exit" /\ ret_code = "success" => AllSupported

(***************************************************************************)
(* The number of packages comes from the last device.  Every device is in  *)
(* one of them, so no DIMM is missing in the grouped format, and a DIMM's  *)
(* number is the same in pmwatch -a and in every report, in whatever order *)
(* libipmctl names them.                                                   *)
(***************************************************************************)
num_packages == topology[count].socket_id + 1
EveryDimmReported ==
  at = "work" =>
    /\ \A d \in 1 .. count : topology[d].socket_id \in 0 .. num_packages - 1
    /\ \A d \in 1 .. count - 1 : topology[d].handle < topology[d + 1].handle
    /\ \A h \in DOMAIN hardware : \E d \in 1 .. count : topology[d] = hardware[h]

(***************************************************************************)
(* Why everything is given back, and once: until it has read the topology  *)
(* the process has no array, every way on from there leads through one     *)
(* Cleanup, and main has a failure code from the failure to its check.     *)
(***************************************************************************)
Early == {"start", "permission", "context", "version", "available", "number", "topology"}
Late == {"failed", "warn", "cleanup", "close", "exit"}
GivenBack ==
  /\ at = "start" <=> option = "none"
  /\ at = "close" => Collecting
  /\ at \in Early => devices = "null"
  /\ devices = "freed" =>
       at \in (IF Collecting THEN {"close", "exit"} ELSE {"failed", "warn", "exit"})
  /\ Collecting /\ at \in {"close", "exit"} => devices # "live" /\ contexts = 0
  /\ contexts \in {0, 1} /\ (at \in {"start", "context"} => contexts = 0)
  /\ Collecting \/ at # "permission" \/ contexts = 0
  /\ fout = "open" => Collecting /\ at # "exit"
CodeIsRight ==
  /\ at \notin Late => ret_code = "success"
  /\ at \in {"failed", "warn"} => ret_code # "success"
  /\ at \in {"version", "available", "number", "topology", "firmware", "work"} => root
  /\ at = "context" => root \/ Collecting
  /\ at \in {"number", "topology"} => Len(hardware) > 0
  /\ at \in {"topology", "firmware"} => Len(hardware) > 0 /\ count = Len(hardware)
  /\ at = "work" => Fit
  /\ at \in Late /\ ret_code = "success" => Fit
ToolInv == GivenBack /\ CodeIsRight

\* The devices that main looks at are the machine's, sorted.
TopologyInv ==
  /\ hardware \in Hardware
  /\ at \in {"firmware", "work"} =>
       devices = "live" /\ topology \in Sort_DIMM_Topology(hardware)
=============================================================================
