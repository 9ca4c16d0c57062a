------------------------------- MODULE MCPlatform -------------------------------
(***************************************************************************)
(* The parts of the platform libraries and the storage of the device,      *)
(* which share no state: a behaviour exercises one of them, and the others *)
(* rest.                                                                   *)
(***************************************************************************)
EXTENDS Sysmon, AddressRules, NetworkApply, Storage

VARIABLE part

Parts == {"sysmon", "addresses", "network", "storage"}

-----------------------------------------------------------------------------
(* Three IIO numbers: an AMS device, a second one that the selector leaves   *)
(* out, and, at first absent, an acquisition device whose node the selector  *)
(* accepts, which only its driver tells apart, and a device with the name of *)
(* the AMS and no node.  Channel 1 of the AMS                                *)
(* device has all its files, channel 2 uses the shared scale and has a       *)
(* malformed offset, channel 3 only has a label, channel 4 has an            *)
(* engineering value and channel 5 a negative scale.                         *)

MCSlots == 0..2
MCDevices == {"ams", "adc", "ams2", "bare"}
MCNodeless == {"bare"}
MCDriver == [d \in MCDevices |-> d # "adc"]
MCNode == [d \in MCDevices |-> CASE d = "ams" -> 1 [] d = "adc" -> 2 [] d = "ams2" -> 3 [] d = "bare" -> 0]
MCBound == [s \in MCSlots |-> CASE s = 0 -> "ams2" [] s = 1 -> "ams" [] OTHER -> None]
AmsFiles == {<<1, "raw">>, <<1, "scale">>, <<1, "offset">>, <<2, "raw">>, <<2, "offset">>, <<0, "scale">>,
             <<3, "label">>, <<4, "input">>, <<4, "label">>, <<5, "raw">>, <<5, "scale">>}
MCFiles == [d \in MCDevices |-> IF d = "ams" THEN AmsFiles ELSE {<<1, "raw">>, <<0, "scale">>}]
MCBad == 9999
AmsValue(k) ==
  IF k = <<2, "offset">> THEN MCBad ELSE IF k = <<5, "scale">> THEN -1
  ELSE IF k[2] = "scale" THEN 2 + k[1] ELSE IF k[2] = "offset" THEN 5 ELSE 7
MCValue == [d \in MCDevices |-> [k \in MCFiles[d] |-> IF d = "ams" THEN AmsValue(k) ELSE 3]]

-----------------------------------------------------------------------------
(* Texts of up to nine fields between colons, which eight groups and a "::"  *)
(* at either end need, five between dots, and addresses of six bits with a   *)
(* first "octet" of three: 0 is reserved, 3 stands for the loopback block    *)
(* and 7 for multicast.                                                      *)

MCMaxFields == [x \in {":", "."} |-> IF x = ":" THEN 9 ELSE 5]

-----------------------------------------------------------------------------
(* Two interfaces; the proposals combine a DHCP, a static and a routed       *)
(* static setting with preferences, including those that are refused, and    *)
(* one names a foreign interface.                                            *)

MCManaged == {"end0", "end1"}
S(i, static, routed, preferred) ==
  [interface |-> i, static |-> static, gateway |-> routed, dns |-> static, preferred |-> preferred]
Of(i) == {S(i, FALSE, FALSE, b) : b \in BOOLEAN} \cup {S(i, TRUE, TRUE, b) : b \in BOOLEAN}
         \cup {S(i, TRUE, FALSE, FALSE)}
MCProposals == (Of("end0") \X (Of("end1") \ {S("end1", TRUE, b, b) : b \in BOOLEAN}))
               \cup {<<S("end0", FALSE, FALSE, TRUE), S("usb0", FALSE, FALSE, FALSE)>>}

-----------------------------------------------------------------------------
mcVars == <<part, sysmonVars, addressVars, networkVars, storageVars>>

\* A resting part is in one of its initial states.
Resting ==
  /\ part # "addresses" => kind = "." /\ text = <<"">>
  /\ part # "network" => present = {}
  /\ part # "storage" => disk = Factory

Init == part \in Parts /\ SysmonInit /\ AddressInit /\ NetworkInit /\ StorageInit /\ Resting

Next ==
  /\ UNCHANGED part
  /\ \/ part = "sysmon" /\ SysmonNext /\ UNCHANGED <<addressVars, networkVars, storageVars>>
     \/ part = "addresses" /\ AddressNext /\ UNCHANGED <<sysmonVars, networkVars, storageVars>>
     \/ part = "network" /\ NetworkNext /\ UNCHANGED <<sysmonVars, addressVars, storageVars>>
     \/ part = "storage" /\ StorageNext /\ UNCHANGED <<sysmonVars, addressVars, networkVars>>

Spec == Init /\ [][Next]_mcVars

-----------------------------------------------------------------------------
\* Every part keeps the types of its variables; the call of network() in
\* progress is at one of its settings, and prepare() has mounted what is there.
PlatformTypeOK == SysmonTypeOK /\ NetworkTypeOK /\ StorageTypeOK
=============================================================================
