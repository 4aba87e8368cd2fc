---------------------------- MODULE SessionDevices --------------------------
(***************************************************************************)
(* The collection sessions of CollectApi together with the devices they    *)
(* read: every PMWAPIStart runs PMW_COMM_Init (src/pmw_comm.c), step by    *)
(* step while Readers and old collectors go on, and no PMWAPIStop undoes   *)
(* it.  A collector reaches its DIMMs through the global gp_DIMM_devices.  *)
(*                                                                         *)
(* An array of devices is named by the Start that allocated it.  What may  *)
(* fail in PMW_COMM_Init is taken together by where it leaves the array.   *)
(***************************************************************************)
EXTENDS CollectProperties, FiniteSets

VARIABLES
  init,             \* where PMW_COMM_Init is; "out" when it is not running
  gp_DIMM_devices,  \* NULL or a Start
  arrays,           \* what became of the array of each Start
  contexts          \* contexts created and not freed

devices == <<init, gp_DIMM_devices, arrays, contexts>>
allVars == <<vars, devices>>

NULL == 0

DevicesInit ==
  /\ Init
  /\ init = "out" /\ gp_DIMM_devices = NULL
  /\ arrays = [s \in Thread |-> "none"] /\ contexts = 0

\* The faults are planted in the definitions that follow them.
Forgotten_Kept == UNCHANGED gp_DIMM_devices
\* The array of the session before is not freed.
Forgotten == gp_DIMM_devices' = NULL

EnterInit ==
  /\ ctl = "opening" /\ what # "none" /\ init = "out"
  /\ Forgotten
  /\ init' = "entered"
  /\ UNCHANGED <<vars, arrays, contexts>>

\* It goes on without a context when there is none to be had.
CreateContext ==
  /\ init = "entered"
  /\ contexts' \in {contexts, contexts + 1}
  /\ init' = "context"
  /\ UNCHANGED <<vars, gp_DIMM_devices, arrays>>

ReadTopology ==
  /\ init = "context"
  /\ gp_DIMM_devices' = starts
  /\ arrays' = [arrays EXCEPT ![starts] = "live"]
  /\ init' = "devices"
  /\ UNCHANGED <<vars, contexts>>

\* Start gives up before it calls PMW_COMM_Init.
FailsBefore ==
  /\ init = "out" /\ StartFails
  /\ fout' \in {fout, "null"}
  /\ UNCHANGED devices

Freed(state) == IF state = "freed" THEN "twice" ELSE "freed"

\* PMW_COMM_Cleanup.  The pointer is not cleared, and a context is freed
\* whichever Start created it.
GivesBack_Nothing == UNCHANGED <<arrays, contexts>>
GivesBack ==
  /\ arrays' = IF gp_DIMM_devices = NULL THEN arrays
               ELSE [arrays EXCEPT ![gp_DIMM_devices] = Freed(@)]
  /\ contexts' = IF contexts > 0 THEN contexts - 1 ELSE 0

\* PMW_COMM_Init fails, with or without an array of devices.
InitFails ==
  /\ init \in {"context", "devices"} /\ StartFails
  /\ fout' = "closed"
  /\ GivesBack
  /\ init' = "out"
  /\ UNCHANGED gp_DIMM_devices

InitSucceeds ==
  /\ init = "devices" /\ StartSucceeds
  /\ init' = "out"
  /\ UNCHANGED <<gp_DIMM_devices, arrays, contexts>>

StartStep ==
  EnterInit \/ CreateContext \/ ReadTopology \/ FailsBefore \/ InitFails \/ InitSucceeds

\* Nothing else in a session touches the communication layer's state.
OtherStep ==
  /\ \/ \E k \in Kinds \cup (IF "start" \in Faults THEN {"none"} ELSE {}) :
          CallStart(k)
     \/ CallStop \/ StopStep
     \/ \E t \in Thread : Collect(t)
     \/ \E r \in Readers : Read(r)
     \/ Terminated
  /\ UNCHANGED devices

DevicesNext == StartStep \/ OtherStep

DevicesSpec == DevicesInit /\ [][DevicesNext]_allVars

(***************************************************************************)
(* A collector that may still read its DIMMs finds the array its own Start *)
(* allocated: Start replaces gp_DIMM_devices for the whole process, so     *)
(* this rests on Stop's wait for the collector of the session before.      *)
(***************************************************************************)
DevicesInSession ==
  \A t \in Thread : InLoop(t) => gp_DIMM_devices = t /\ arrays[t] = "live"

(***************************************************************************)
(* No array is freed twice: a Start that fails before it has one of its    *)
(* own frees neither the one of an earlier session nor one that an earlier *)
(* failed Start has freed.                                                 *)
(***************************************************************************)
FreedOnce == \A s \in Thread : arrays[s] # "twice"

(***************************************************************************)
(* A Start that fails gives back what it has acquired.  One that succeeds  *)
(* keeps an array of devices and at most one context for good: Stop frees  *)
(* neither, so this is all the memory a process loses with its sessions.   *)
(***************************************************************************)
Kept == {s \in Thread : arrays[s] = "live"}
OnlySuccessKeeps ==
  ctl # "opening" =>
    /\ Kept = {s \in Thread : pc[s] # "none"}
    /\ contexts <= Cardinality(Kept)

(***************************************************************************)
(* Every session of the composition is a session of CollectApi.            *)
(***************************************************************************)
SessionSpec == Spec

(***************************************************************************)
(* Why: PMW_COMM_Init starts from no array, has one of its own once it has *)
(* read the topology, and is over when Start returns; a thread has kept    *)
(* the array of its Start.                                                 *)
(***************************************************************************)
DevicesInv ==
  /\ init \in {"out", "entered", "context", "devices"}
  /\ gp_DIMM_devices \in Thread \cup {NULL} /\ contexts \in Nat
  /\ arrays \in [Thread -> {"none", "live", "freed"}]
  /\ init # "out" => ctl = "opening"
  /\ init \in {"entered", "context"} => gp_DIMM_devices = NULL
  /\ init = "devices" => gp_DIMM_devices = starts /\ arrays[starts] = "live"
  /\ \A s \in Thread :
       /\ starts < s => arrays[s] = "none"
       /\ starts = s /\ ctl = "opening" /\ init # "devices" => arrays[s] = "none"
       /\ pc[s] # "none" => arrays[s] = "live"
CollectorHasDevices == \A t \in Thread : Unfinished(t) => gp_DIMM_devices = t
Succeeded == {s \in Thread : pc[s] # "none"}
KeepInv ==
  /\ \A s \in Thread :
       arrays[s] = "live" => s \in Succeeded \/ (s = starts /\ init = "devices")
  /\ contexts <= Cardinality(Succeeded) + (IF init \in {"context", "devices"} THEN 1 ELSE 0)
=============================================================================
