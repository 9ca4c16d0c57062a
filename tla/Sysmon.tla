--------------------------------- MODULE Sysmon ---------------------------------
(***************************************************************************)
(* The SYSMON provider, IioMonitor::readSnapshot()                         *)
(* (mnc/xilinx/sysmon/sysmon.cpp): it finds the AMS devices among the IIO  *)
(* devices of sysfs and samples their channels, one file access after      *)
(* another, while the kernel may remove attributes and devices or bind     *)
(* them again under another number.                                        *)
(*                                                                         *)
(* Abstractions: a device is known by its driver name, its device-tree     *)
(* compatible and node; values are integers in the milli-units of IIO, Bad *)
(* stands for a text that is no finite number; labels, domains, units,     *)
(* timestamps and error texts are left out.  A key is <<channel, suffix>>, *)
(* with the channel 0 for the attributes a kind of channels shares.        *)
(***************************************************************************)
EXTENDS Integers, Sequences, FiniteSetsExt, Functions

CONSTANTS
  Slots,     \* iio:deviceN, numbers (the order of the paths for N < 10)
  Devices,
  Driver,    \* Driver[d]: does name say "xilinx-ams"?
  Node,      \* Node[d]: number of the device-tree node, 0: not compatible
  Nodeless,  \* devices without a device-tree node
  Selected,  \* nodes the selector accepts
  Bound,     \* Bound[s]: the device first at slot s
  Files,     \* Files[d]: the keys d has at first
  Value,     \* Value[d][k]: content of an attribute
  Bad,
  MaxDevices, MaxChannels,  \* 64 and 256 in the code
  MaxMoves   \* bound: steps of the kernel

None == "none"
Unknown == Bad + 1   \* a reading without value
Attributes == {"raw", "input", "label", "scale", "offset"}

\* A device is at one number, and compatible devices are different nodes.
ASSUME SysmonAssumption ==
  /\ Slots \subseteq Nat /\ IsFiniteSet(Slots) /\ Slots # {}
  /\ None \notin Devices /\ Bound \in [Slots -> Devices \cup {None}]
  /\ \A s, t \in Slots : Bound[s] = Bound[t] /\ Bound[s] # None => s = t
  /\ Node \in [Devices -> Nat] /\ 0 \notin Selected /\ Nodeless \subseteq Devices
  /\ \A d, e \in Devices : Node[d] = Node[e] /\ Node[d] # 0 => d = e
  /\ Files \in [Devices -> SUBSET ((0..99) \X Attributes)]
  /\ \A d \in Devices : \A k \in Files[d] : Value[d][k] \in Int
  /\ Bad \in Int \ {0} /\ MaxDevices \in Nat /\ MaxChannels \in Nat /\ MaxMoves \in Nat

VARIABLES
  slot, attributes,  \* sysfs
  phase, cur,     \* readSnapshot(): place, device path in hand
  devices,        \* paths still to look at
  ident,          \* node the path in hand was identified as
  channels,       \* channels still to sample
  key, raw, scale,  \* locals of sampleDevice(): attribute path, values
  readings, status,
  touched,        \* history: devices whose channels were listed or read
  still,          \* history: no step of the kernel since the call
  rebound,        \* history: devices that took the number of the path in hand
  moves

kernel == <<slot, attributes, still, rebound, moves>>
sysmonVars == <<kernel, phase, cur, devices, ident, channels, key, raw, scale, readings, status, touched>>

Id(node, channel) == 100 * node + channel

SysmonTypeOK ==
  /\ slot \in [Slots -> Devices \cup {None}]
  /\ DOMAIN attributes = Devices /\ \A d \in Devices : attributes[d] \subseteq Files[d]
  /\ phase \in {"idle", "list", "name", "compatible", "canonical", "sample", "label", "read label", "input",
             "read input", "raw", "scale", "read scale", "offset", "check offset", "read offset", "done"}
  /\ cur \in Slots /\ devices \subseteq Slots /\ ident \in Nat /\ channels \subseteq 1..99
  /\ key \in (0..99) \X Attributes /\ raw \in Int /\ scale \in Int
  /\ readings \in Seq([id : Nat, value : Int])
  /\ status \in {"unavailable", "unsupported", "partial", "ok"}
  /\ touched \subseteq Devices /\ still \in BOOLEAN /\ rebound \subseteq Devices /\ moves \in 0..MaxMoves

SysmonInit ==
  /\ slot = Bound /\ attributes = Files /\ phase = "idle" /\ cur = Min(Slots) /\ devices = {}
  /\ ident = 0 /\ channels = {} /\ key = <<0, "raw">> /\ raw = 0 /\ scale = 0 /\ readings = <<>>
  /\ status = "unavailable" /\ touched = {} /\ still = TRUE /\ rebound = {} /\ moves = 0

-----------------------------------------------------------------------------
(* File access at the path in hand, whatever device is there now.           *)

There == slot[cur]
Has(k) == There # None /\ k \in attributes[There]
Number(k) == IF Has(k) THEN Value[There][k] ELSE Bad
Touch == touched' = touched \cup ({There} \ {None})

ReadSnapshot ==
  /\ phase = "idle" /\ phase' = "list" /\ still' = TRUE /\ rebound' = {}
  /\ UNCHANGED <<slot, attributes, moves, cur, devices, ident, channels, key, raw, scale, readings, status, touched>>

Unsupported ==
  /\ phase = "idle" /\ phase' = "done" /\ status' = "unsupported"
  /\ UNCHANGED <<kernel, cur, devices, ident, channels, key, raw, scale, readings, touched>>

\* The outer catch: what was sampled so far is returned as it is.
Throw == /\ phase' = "done" /\ status' = IF readings = <<>> THEN "unavailable" ELSE "partial"
         /\ UNCHANGED <<kernel, cur, devices, ident, channels, key, raw, scale, readings, touched>>

Present == {s \in Slots : slot[s] # None}
List ==
  /\ phase = "list"
  /\ \/ Cardinality(Present) > MaxDevices /\ Throw
     \/ /\ Cardinality(Present) <= MaxDevices /\ phase' = "name"
        /\ devices' = Present
        /\ UNCHANGED <<kernel, cur, ident, channels, key, raw, scale, readings, status, touched>>

\* Readings in the order of their ids; that equal ids keep theirs is a choice the
\* code leaves open, and no property looks at it.
Before(rs, i, j) == rs[i].id < rs[j].id \/ (rs[i].id = rs[j].id /\ i < j)
Place(rs, i) == Cardinality({j \in DOMAIN rs : j = i \/ Before(rs, j, i)})
Sorted(rs) == [k \in DOMAIN rs |-> rs[CHOOSE i \in DOMAIN rs : Place(rs, i) = k]]

\* Sorting and the status of the snapshot.
\* bug: one value suffices.
CompleteBug(rs) == \E i \in DOMAIN rs : rs[i].value # Unknown
Complete(rs) == \A i \in DOMAIN rs : rs[i].value # Unknown
Finish ==
  /\ phase = "name" /\ devices = {} /\ phase' = "done"
  /\ readings' = Sorted(readings)
  /\ status' = IF readings = <<>> THEN status ELSE IF Complete(readings) THEN "ok" ELSE "partial"
  /\ UNCHANGED <<kernel, cur, devices, ident, channels, key, raw, scale, touched>>

\* bug: the driver is not looked at.
IsAmsBug(s) == slot[s] # None
IsAms(s) == slot[s] # None /\ Driver[slot[s]]
ReadName ==
  /\ phase = "name" /\ devices # {} /\ cur' = Min(devices) /\ devices' = devices \ {cur'}
  /\ phase' = IF IsAms(cur') THEN "compatible" ELSE "name"
  /\ UNCHANGED <<kernel, ident, channels, key, raw, scale, readings, status, touched>>

\* compatible() throws if the device is gone or has no node, and so does
\* canonical(): that ends the scan.
ReadCompatible ==
  /\ phase = "compatible"
  /\ \/ There \in Nodeless \cup {None} /\ Throw
     \/ /\ There \notin Nodeless \cup {None} /\ phase' = (IF Node[There] # 0 THEN "canonical" ELSE "name")
        /\ UNCHANGED <<kernel, cur, devices, ident, channels, key, raw, scale, readings, status, touched>>

ReadCanonical ==
  /\ phase = "canonical"
  /\ \/ There = None /\ Throw
     \/ /\ There # None /\ phase' = (IF Node[There] \in Selected THEN "sample" ELSE "name")
        /\ ident' = Node[There]
        /\ UNCHANGED <<kernel, cur, devices, channels, key, raw, scale, readings, status, touched>>

\* sampleDevice(): channels with a raw, input or label file.
Listed(fs) == {c \in {k[1] : k \in fs} \ {0} :
                 \E x \in {"raw", "input", "label"} : <<c, x>> \in fs}
Enumerable == There # None /\ Cardinality(Listed(attributes[There])) <= MaxChannels
Sample ==
  /\ phase = "sample"
  /\ \/ ~Enumerable /\ Throw
     \/ /\ Enumerable /\ phase' = "label" /\ Touch
        /\ channels' = Listed(attributes[There])
        /\ UNCHANGED <<kernel, cur, devices, ident, key, raw, scale, readings, status>>

Channel == Min(channels)
NoChannel ==
  /\ phase = "label" /\ channels = {} /\ phase' = "name"
  /\ UNCHANGED <<kernel, cur, devices, ident, channels, key, raw, scale, readings, status, touched>>

\* The reading of the channel in hand is done: a value, or Unknown after an
\* exception, which the loop catches for each channel.
Push(v) ==
  /\ readings' = Append(readings, [id |-> Id(ident, Channel), value |-> v])
  /\ channels' = channels \ {Channel} /\ phase' = "label" /\ Touch
  /\ UNCHANGED <<kernel, cur, devices, ident, key, raw, scale, status>>
Go(place, k, r, s) ==
  /\ phase' = place /\ key' = k /\ raw' = r /\ scale' = s /\ Touch
  /\ UNCHANGED <<kernel, cur, devices, ident, channels, readings, status>>
\* attribute(): the file of the channel, else the one its kind shares.
Attribute(x) == IF Has(<<Channel, x>>) THEN <<Channel, x>> ELSE <<0, x>>

CheckLabel ==
  /\ phase = "label" /\ channels # {}
  /\ Go(IF Has(<<Channel, "label">>) THEN "read label" ELSE "input", key, raw, scale)
ReadLabel ==
  /\ phase = "read label"
  /\ IF Has(<<Channel, "label">>) THEN Go("input", key, raw, scale) ELSE Push(Unknown)
CheckInput ==
  /\ phase = "input"
  /\ Go(IF Has(<<Channel, "input">>) THEN "read input" ELSE "raw", key, raw, scale)
ReadInput ==
  /\ phase = "read input"
  /\ LET v == Number(<<Channel, "input">>) IN Push(IF v = Bad THEN Unknown ELSE v)
ReadRaw ==
  /\ phase = "raw"
  /\ LET v == Number(<<Channel, "raw">>) IN
     IF v = Bad THEN Push(Unknown) ELSE Go("scale", key, v, scale)
FindScale == phase = "scale" /\ Go("read scale", Attribute("scale"), raw, scale)
ReadScale ==
  /\ phase = "read scale"
  /\ IF Number(key) = Bad THEN Push(Unknown) ELSE Go("offset", key, raw, Number(key))
FindOffset == phase = "offset" /\ Go("check offset", Attribute("offset"), raw, scale)

Convert(offset) == IF scale <= 0 THEN Unknown ELSE (raw + offset) * scale
CheckOffset ==
  /\ phase = "check offset"
  /\ IF Has(key) THEN Go("read offset", key, raw, scale) ELSE Push(Convert(0))
ReadOffset ==
  /\ phase = "read offset"
  /\ Push(IF Number(key) = Bad THEN Unknown ELSE Convert(Number(key)))

-----------------------------------------------------------------------------
(* The kernel.                                                              *)

Move == moves < MaxMoves /\ moves' = moves + 1 /\ still' = FALSE
        /\ UNCHANGED <<phase, cur, devices, ident, channels, key, raw, scale, readings, status, touched>>

\* The attributes of a device go one at a time when it is removed.
Vanish(d, k) == Move /\ k \in attributes[d] /\ attributes' = [attributes EXCEPT ![d] = @ \ {k}]
                /\ UNCHANGED <<slot, rebound>>
Unbind(s) == Move /\ slot[s] # None /\ slot' = [slot EXCEPT ![s] = None] /\ UNCHANGED <<attributes, rebound>>
\* A device gets the lowest free number.
Bind(s, d) ==
  /\ Move /\ Present # Slots /\ s = Min(Slots \ Present) /\ \A t \in Slots : slot[t] # d
  /\ slot' = [slot EXCEPT ![s] = d] /\ UNCHANGED attributes
  /\ rebound' = rebound \cup (IF s = cur /\ phase \notin {"idle", "list", "name", "done"} THEN {d} ELSE {})

Monitor ==
  \/ ReadSnapshot \/ Unsupported \/ List \/ Finish \/ ReadName \/ ReadCompatible \/ ReadCanonical
  \/ Sample \/ NoChannel \/ CheckLabel \/ ReadLabel \/ CheckInput \/ ReadInput \/ ReadRaw
  \/ FindScale \/ ReadScale \/ FindOffset \/ CheckOffset \/ ReadOffset
SysmonNext ==
  \/ Monitor \/ (\E d \in Devices : \E k \in attributes[d] : Vanish(d, k))
  \/ (\E s \in Slots : Unbind(s) \/ \E d \in Devices : Bind(s, d))

SysmonSpec == SysmonInit /\ [][SysmonNext]_sysmonVars

-----------------------------------------------------------------------------
(* Properties.                                                              *)

\* What channel c of device d is worth with the files fs.
Truth(fs, d, c) ==
  LET Own(x) == IF <<c, x>> \in fs THEN Value[d][<<c, x>>] ELSE Bad
      Shared(x, default) == IF <<c, x>> \in fs THEN Value[d][<<c, x>>]
                            ELSE IF <<0, x>> \in fs THEN Value[d][<<0, x>>] ELSE default
      r == Own("raw")
      f == Shared("scale", Bad)
      o == Shared("offset", 0)
  IN IF <<c, "input">> \in fs THEN (IF Own("input") = Bad THEN Unknown ELSE Own("input"))
     ELSE IF r = Bad \/ f = Bad \/ o = Bad \/ f <= 0 THEN Unknown ELSE (r + o) * f

\* While sysfs is still, and nothing ends the scan (too many devices or channels,
\* an AMS device without a node), the snapshot has each channel of each selected
\* AMS device once, in order, with its value or marked unavailable, and no other:
\* a failing channel hides no other one, and one that only has a label is listed.
Ams == {s \in Slots : slot[s] # None /\ Driver[slot[s]] /\ Node[slot[s]] \in Selected}
Reading(s, c) == [id |-> Id(Node[slot[s]], c), value |-> Truth(attributes[slot[s]], slot[s], c)]
Legible(s) ==
  Driver[slot[s]] =>
    slot[s] \notin Nodeless /\ (Node[slot[s]] \in Selected => Cardinality(Listed(attributes[slot[s]])) <= MaxChannels)
Few == Cardinality(Present) <= MaxDevices /\ \A s \in Present : Legible(s)
StillSnapshot ==
  phase = "done" /\ still /\ status # "unsupported" /\ Few =>
    /\ Range(readings) = UNION {{Reading(s, c) : c \in Listed(attributes[slot[s]])} : s \in Ams}
    /\ \A i, j \in DOMAIN readings : i < j => readings[i].id < readings[j].id

\* Status "ok" means that every reading has a value and that there is one,
\* whatever the kernel did, and, while sysfs is still, that nothing ended the scan.
OkIsComplete ==
  phase = "done" /\ status = "ok" =>
    /\ readings # <<>> /\ \A i \in DOMAIN readings : readings[i].value # Unknown
    /\ still => Few

\* snapshot() tells the truth: its readings while nothing moves, its status always.
HonestSnapshot == StillSnapshot /\ OkIsComplete

\* "It never opens an acquisition device" (README.md of the provider), "never
\* read their channels" (sysmon.cpp:170). The repository says so of every device;
\* the code keeps the path of a device that it identified, and so it holds of all
\* but one that takes the very number in hand: a device without the AMS driver
\* that is read came there after the driver of that path was checked.
NeverForeign == \A d \in touched : Driver[d] \/ d \in rebound
=============================================================================
