-------------------------------- MODULE MCTool ------------------------------
(***************************************************************************)
(* Instances of Tool for TLC: every machine with up to three of these four *)
(* DIMMs, in every order libipmctl may name them; one or two DIMMs with    *)
(* every firmware that they may have, three with supported firmware.       *)
(***************************************************************************)
EXTENDS Tool

\* A handle is the socket times four, plus the slot.
Dimm(s, slot, fw) == [handle |-> 4 * s + slot, socket_id |-> s, fw_api_version |-> fw]
Places == {<<0, 1>>, <<0, 3>>, <<1, 0>>, <<2, 2>>}
Versions == {"supported", "unsupported", "unparsed"}
Firmware(n) ==
  IF n <= 2 THEN [1 .. n -> Versions] ELSE {[m \in 1 .. n |-> "supported"]}
Machines ==
  UNION {{[m \in 1 .. n |-> Dimm(p[m][1], p[m][2], fw[m])] :
            p \in Injection(1 .. n, Places), fw \in Firmware(n)} : n \in 0 .. 3}
=============================================================================
