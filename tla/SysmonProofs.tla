------------------------------ MODULE SysmonProofs ------------------------------
(***************************************************************************)
(* The SYSMON provider, for any devices, attributes and values.            *)
(***************************************************************************)
EXTENDS Sysmon, FiniteSetTheorems, WellFoundedInduction, TLAPS

-----------------------------------------------------------------------------
(* The SYSMON provider.                                                    *)

\* From the first look at the driver on, the path in hand leads to an AMS device,
\* to one that took its number, or nowhere.
Sampling == {"compatible", "canonical", "sample", "label", "read label", "input", "read input",
             "raw", "scale", "read scale", "offset", "check offset", "read offset"}
OwnDevices ==
  /\ phase = "idle" => touched = {}
  /\ \A d \in touched : Driver[d] \/ d \in rebound
  /\ phase \in Sampling => slot[cur] = None \/ Driver[slot[cur]] \/ slot[cur] \in rebound

LEMMA OwnDevicesInit == SysmonInit => OwnDevices
BY DEF SysmonInit, OwnDevices, Sampling

\* A step of sampleDevice() looks at the path in hand.
LEMMA TouchOwn ==
  ASSUME OwnDevices, phase \in Sampling, Touch \/ UNCHANGED touched,
         phase' \in Sampling \cup {"name", "done"}, UNCHANGED <<slot, cur, rebound>>
  PROVE  OwnDevices'
<1>1. slot[cur] = None \/ Driver[slot[cur]] \/ slot[cur] \in rebound
  BY DEF OwnDevices
<1>2. touched' \subseteq touched \cup ({slot[cur]} \ {None})
  BY DEF Touch, There
<1>3. phase' # "idle"
  BY Zenon DEF Sampling
<1> QED BY <1>1, <1>2, <1>3 DEF OwnDevices

LEMMA OwnDevicesStep == OwnDevices /\ [SysmonNext]_sysmonVars => OwnDevices'
<1> SUFFICES ASSUME OwnDevices, [SysmonNext]_sysmonVars PROVE OwnDevices'
  OBVIOUS
<1> USE DEF kernel
<1>1. CASE ReadSnapshot \/ Unsupported \/ List \/ Finish
  <2>1. phase \notin Sampling /\ phase' \in {"list", "done", "name"} /\ touched' = touched
        /\ (rebound' = rebound \/ (phase = "idle" /\ rebound' = {}))
    BY <1>1, Zenon DEF ReadSnapshot, Unsupported, List, Finish, Throw, Sampling
  <2>2. phase' # "idle" /\ phase' \notin Sampling
    BY <2>1, Zenon DEF Sampling
  <2>3. CASE rebound' = rebound
    BY <2>1, <2>2, <2>3 DEF OwnDevices
  <2>4. CASE phase = "idle"
    BY <2>1, <2>2, <2>4 DEF OwnDevices
  <2> QED BY <2>1, <2>3, <2>4
<1>2. CASE ReadName
  <2>1. UNCHANGED <<slot, rebound, touched>>
        /\ (phase' = "name" \/ (phase' = "compatible" /\ Driver[slot[cur']]))
    BY <1>2 DEF ReadName, IsAms
  <2> QED BY <2>1, Zenon DEF OwnDevices, Sampling
<1>3. CASE ReadCompatible \/ ReadCanonical \/ Sample \/ NoChannel
  <2>1. phase \in Sampling /\ (Touch \/ UNCHANGED touched)
        /\ phase' \in Sampling \cup {"name", "done"} /\ UNCHANGED <<slot, cur, rebound>>
    BY <1>3, Zenon DEF ReadCompatible, ReadCanonical, Sample, NoChannel, Throw, Sampling
  <2> QED BY <2>1, TouchOwn
<1>4. CASE CheckLabel \/ ReadLabel \/ CheckInput \/ ReadInput \/ ReadRaw
  <2>1. phase \in Sampling /\ Touch
        /\ phase' \in Sampling \cup {"name", "done"} /\ UNCHANGED <<slot, cur, rebound>>
    BY <1>4, Zenon DEF CheckLabel, ReadLabel, CheckInput, ReadInput, ReadRaw, Go, Push, Sampling
  <2> QED BY <2>1, TouchOwn
<1>5. CASE FindScale \/ ReadScale \/ FindOffset \/ CheckOffset \/ ReadOffset
  <2>1. phase \in Sampling /\ Touch
        /\ phase' \in Sampling \cup {"name", "done"} /\ UNCHANGED <<slot, cur, rebound>>
    BY <1>5, Zenon DEF FindScale, ReadScale, FindOffset, CheckOffset, ReadOffset, Go, Push, Sampling
  <2> QED BY <2>1, TouchOwn
<1>6. ASSUME NEW d \in Devices, NEW k \in attributes[d], Vanish(d, k) PROVE OwnDevices'
  BY <1>6 DEF Vanish, Move, OwnDevices
<1>7. ASSUME NEW s \in Slots, Unbind(s) PROVE OwnDevices'
  <2>1. slot' = [slot EXCEPT ![s] = None] /\ UNCHANGED <<phase, cur, touched, rebound>>
    BY <1>7 DEF Unbind, Move
  <2>2. slot'[cur] = slot[cur] \/ slot'[cur] = None
    BY <2>1
  <2> QED BY <2>1, <2>2 DEF OwnDevices
<1>8. ASSUME NEW s \in Slots, NEW d \in Devices, Bind(s, d) PROVE OwnDevices'
  <2>1. slot' = [slot EXCEPT ![s] = d] /\ UNCHANGED <<phase, cur, touched>>
    BY <1>8 DEF Bind, Move
  <2>2. rebound \subseteq rebound' /\ (s = cur /\ phase \in Sampling => d \in rebound')
    BY <1>8 DEF Bind, Sampling
  <2>3. slot'[cur] = slot[cur] \/ (s = cur /\ slot'[cur] = d)
    BY <2>1
  <2> QED BY <2>1, <2>2, <2>3 DEF OwnDevices
<1>9. CASE UNCHANGED sysmonVars
  BY <1>9 DEF sysmonVars, OwnDevices
<1> QED BY <1>1, <1>2, <1>3, <1>4, <1>5, <1>6, <1>7, <1>8, <1>9 DEF SysmonNext, Monitor

\* readSnapshot() lists and reads the channels of AMS devices, whatever the kernel
\* binds and removes meanwhile, and of no other device but one that takes the number
\* of the path in hand: the check of the driver comes first, and it holds for the
\* path until its channels are sampled or another device is found there.
THEOREM NeverForeignAlways == SysmonSpec => []NeverForeign
<1>1. OwnDevices => NeverForeign
  BY DEF OwnDevices, NeverForeign
<1> QED BY <1>1, OwnDevicesInit, OwnDevicesStep, PTL DEF SysmonSpec

-----------------------------------------------------------------------------
(* Sets of numbers, and sorting.                                           *)

LEMMA MinFacts ==
  ASSUME NEW S, S \subseteq Nat, S # {}
  PROVE  Min(S) \in S /\ \A i \in S : Min(S) <= i
<1> DEFINE R == OpToRel(<, Nat)
<1>1. IsWellFoundedOn(R, Nat)
  BY NatLessThanWellFounded, Zenon
<1>2. \A i, j \in Nat : i < j => <<i, j>> \in R
  BY DEF OpToRel
<1> HIDE DEF R
<1>3. PICK m \in S : \A i \in S : ~(<<i, m>> \in R)
  BY <1>1, WFMin, Zenon
<1>4. ASSUME NEW i \in S PROVE m <= i
  <2>1. i \in Nat /\ m \in Nat /\ ~(i < m)
    BY <1>2, <1>3, Zenon
  <2> QED BY <2>1
<1> QED BY <1>4, Zenon DEF Min

Item == [id : Nat, value : Int]
Readings == Seq(Item)

LEMMA ReadingsFacts ==
  ASSUME NEW rs \in Readings
  PROVE  /\ Len(rs) \in Nat /\ DOMAIN rs = 1..Len(rs)
         /\ \A i \in DOMAIN rs : i \in Nat /\ rs[i] \in Item /\ rs[i].id \in Nat
<1>1. Len(rs) \in Nat /\ DOMAIN rs = 1..Len(rs)
  BY DEF Readings
<1>2. \A i \in DOMAIN rs : i \in Nat /\ rs[i] \in Item
  BY <1>1 DEF Readings
<1> QED BY <1>1, <1>2 DEF Item

LEMMA BeforeOrder ==
  ASSUME NEW rs \in Readings, NEW i \in DOMAIN rs, NEW j \in DOMAIN rs
  PROVE  /\ i # j => Before(rs, i, j) \/ Before(rs, j, i)
         /\ Before(rs, i, j) => i # j /\ ~Before(rs, j, i)
         /\ \A k \in DOMAIN rs : Before(rs, i, j) /\ Before(rs, j, k) => Before(rs, i, k)
<1>1. \A k \in DOMAIN rs : rs[k].id \in Nat /\ k \in Nat
  BY ReadingsFacts
<1> QED BY <1>1 DEF Before

LEMMA PlaceType ==
  ASSUME NEW rs \in Readings, NEW i \in DOMAIN rs
  PROVE  Place(rs, i) \in 1..Len(rs)
<1> DEFINE T == {j \in DOMAIN rs : j = i \/ Before(rs, j, i)}
<1>1. Len(rs) \in Nat /\ DOMAIN rs = 1..Len(rs)
  BY ReadingsFacts
<1>2. IsFiniteSet(DOMAIN rs) /\ Cardinality(DOMAIN rs) = Len(rs)
  <2>1. /\ IsFiniteSet(1..Len(rs))
        /\ Cardinality(1..Len(rs)) = IF 1 > Len(rs) THEN 0 ELSE Len(rs) - 1 + 1
    <3>1. 1 \in Int /\ Len(rs) \in Int
      BY <1>1
    <3> QED BY <3>1, FS_Interval, Zenon
  <2>2. (IF 1 > Len(rs) THEN 0 ELSE Len(rs) - 1 + 1) = Len(rs)
    BY <1>1
  <2> QED BY <1>1, <2>1, <2>2
<1>3. T \in SUBSET DOMAIN rs /\ i \in T
  OBVIOUS
<1>4. IsFiniteSet(T) /\ Cardinality(T) <= Len(rs)
  BY <1>2, <1>3, FS_Subset
<1>5. Cardinality(T) \in Nat /\ Cardinality(T) # 0
  BY <1>3, <1>4, FS_CardinalityType, FS_EmptySet
<1> QED BY <1>1, <1>4, <1>5 DEF Place

LEMMA PlaceOrder ==
  ASSUME NEW rs \in Readings, NEW i \in DOMAIN rs, NEW j \in DOMAIN rs, Before(rs, i, j)
  PROVE  Place(rs, i) < Place(rs, j)
<1> DEFINE T == {k \in DOMAIN rs : k = i \/ Before(rs, k, i)}
           U == {k \in DOMAIN rs : k = j \/ Before(rs, k, j)}
<1>1. T \in SUBSET U /\ j \in U /\ j \notin T /\ U \in SUBSET DOMAIN rs
  <2>1. \A k \in DOMAIN rs : Before(rs, k, i) => Before(rs, k, j)
    BY BeforeOrder
  <2>2. i # j /\ ~Before(rs, j, i)
    BY BeforeOrder
  <2> QED BY <2>1, <2>2
<1>2. IsFiniteSet(U)
  <2>1. Len(rs) \in Nat /\ DOMAIN rs = 1..Len(rs)
    BY ReadingsFacts
  <2>2. IsFiniteSet(DOMAIN rs)
    BY <2>1, FS_Interval
  <2> QED BY <1>1, <2>2, FS_Subset
<1>3. IsFiniteSet(T) /\ Cardinality(T) <= Cardinality(U) /\ Cardinality(U) # Cardinality(T)
  BY <1>1, <1>2, FS_Subset
<1>4. Cardinality(T) \in Nat /\ Cardinality(U) \in Nat
  BY <1>2, <1>3, FS_CardinalityType
<1>5. Cardinality(T) < Cardinality(U)
  BY <1>3, <1>4
<1> QED BY <1>5 DEF Place

LEMMA PlaceOne ==
  ASSUME NEW rs \in Readings, NEW i \in DOMAIN rs, NEW j \in DOMAIN rs, Place(rs, i) = Place(rs, j)
  PROVE  i = j
<1>1. Place(rs, i) \in Nat /\ Place(rs, j) \in Nat
  <2>1. Len(rs) \in Nat
    BY ReadingsFacts
  <2> QED BY <2>1, PlaceType
<1>2. ~Before(rs, i, j)
  <2> SUFFICES ASSUME Before(rs, i, j) PROVE FALSE
    OBVIOUS
  <2>1. Place(rs, i) < Place(rs, j)
    BY PlaceOrder
  <2> QED BY <1>1, <2>1
<1>3. ~Before(rs, j, i)
  <2> SUFFICES ASSUME Before(rs, j, i) PROVE FALSE
    OBVIOUS
  <2>1. Place(rs, j) < Place(rs, i)
    BY PlaceOrder
  <2> QED BY <1>1, <2>1
<1> QED BY <1>2, <1>3, BeforeOrder

LEMMA PlaceReaches ==
  ASSUME NEW rs \in Readings, NEW k \in DOMAIN rs
  PROVE  \E i \in DOMAIN rs : Place(rs, i) = k
<1> DEFINE D == DOMAIN rs
           p == [i \in D |-> Place(rs, i)]
<1>1. Len(rs) \in Nat /\ D = 1..Len(rs)
  BY ReadingsFacts
<1>2. IsFiniteSet(D)
  BY <1>1, FS_Interval
<1>3. p \in [D -> D]
  BY <1>1, PlaceType
<1>4. \A i, j \in D : p[i] = p[j] => i = j
  BY PlaceOne
<1>5. p \in Injection(D, D)
  BY <1>3, <1>4 DEF Injection, IsInjective
<1>6. k \in D
  OBVIOUS
<1> HIDE DEF p, D
<1>7. p \in Surjection(D, D)
  BY <1>2, <1>5, FS_Injection
<1>8. \E i \in D : p[i] = k
  BY <1>6, <1>7 DEF Surjection
<1> QED BY <1>8 DEF p, D

\* std::ranges::sort() permutes the readings, and puts different ids in order.
Distinct(rs) == \A i, j \in DOMAIN rs : i # j => rs[i].id # rs[j].id
LEMMA SortedFacts ==
  ASSUME NEW rs \in Readings
  PROVE  /\ Sorted(rs) \in Readings /\ DOMAIN Sorted(rs) = DOMAIN rs /\ Range(Sorted(rs)) = Range(rs)
         /\ Distinct(rs) => \A i, j \in DOMAIN rs : i < j => Sorted(rs)[i].id < Sorted(rs)[j].id
<1> DEFINE D == DOMAIN rs
           src == [k \in D |-> CHOOSE i \in D : Place(rs, i) = k]
           ss == Sorted(rs)
<1>1. Len(rs) \in Nat /\ D = 1..Len(rs) /\ \A i \in D : rs[i] \in Item /\ rs[i].id \in Nat
  BY ReadingsFacts
<1>2. \A k \in D : src[k] \in D /\ Place(rs, src[k]) = k
  BY PlaceReaches
<1>3. DOMAIN ss = D /\ \A k \in D : ss[k] = rs[src[k]]
  BY DEF Sorted
<1>s. ss = [k \in D |-> rs[src[k]]]
  BY DEF Sorted
<1> HIDE DEF src, ss
<1>4. ss \in Readings
  <2>1. ss \in [1..Len(rs) -> Item]
    BY <1>1, <1>2, <1>s
  <2> HIDE DEF D
  <2> QED BY <1>1, <2>1 DEF Readings
<1>5. Range(ss) = Range(rs)
  <2>1. \A k \in D : ss[k] \in Range(rs)
    BY <1>2, <1>3 DEF Range
  <2>2. ASSUME NEW i \in D PROVE rs[i] \in Range(ss)
    <3> DEFINE k == Place(rs, i)
    <3>1. k \in D
      BY <1>1, PlaceType
    <3>2. src[k] \in D /\ Place(rs, src[k]) = Place(rs, i)
      BY <1>2, <3>1
    <3> HIDE DEF k
    <3>3. src[k] = i
      BY <3>2, PlaceOne
    <3> QED BY <1>3, <3>1, <3>3 DEF Range
  <2> QED BY <1>3, <2>1, <2>2 DEF Range
<1>6. ASSUME Distinct(rs), NEW i \in D, NEW j \in D, i < j
      PROVE  ss[i].id < ss[j].id
  <2> DEFINE a == src[i]
             b == src[j]
  <2>1. a \in D /\ b \in D /\ Place(rs, a) = i /\ Place(rs, b) = j
    BY <1>2
  <2>2. i \in Nat /\ j \in Nat
    BY <1>1
  <2>3. ss[i] = rs[a] /\ ss[j] = rs[b]
    BY <1>3
  <2> HIDE DEF a, b
  <2>4. a # b
    BY <2>1, <2>2, <1>6
  <2>5. ~Before(rs, b, a)
    <3> SUFFICES ASSUME Before(rs, b, a) PROVE FALSE
      OBVIOUS
    <3>1. Place(rs, b) < Place(rs, a)
      BY <2>1, PlaceOrder
    <3> QED BY <2>1, <2>2, <3>1, <1>6
  <2>6. Before(rs, a, b)
    BY <2>1, <2>4, <2>5, BeforeOrder
  <2>7. rs[a].id # rs[b].id /\ rs[a].id \in Nat /\ rs[b].id \in Nat
    BY <1>1, <1>6, <2>1, <2>4 DEF Distinct
  <2> QED BY <2>3, <2>6, <2>7 DEF Before
<1> QED BY <1>3, <1>4, <1>5, <1>6 DEF ss

-----------------------------------------------------------------------------
(* The snapshot.                                                           *)

\* sampleDevice() has a channel in hand.
Busy == {"read label", "input", "read input", "raw", "scale", "read scale", "offset", "check offset", "read offset"}
InDevice == Busy \cup {"label"}
HasChannel == phase \in Busy => channels # {}

\* A device is bound once.
SlotsOnce == \A s, t \in Slots : slot[s] = slot[t] /\ slot[s] # None => s = t

\* Nothing is said before the end.
Silent == /\ phase \in {"idle", "list"} => readings = <<>> /\ devices = {}
          /\ phase # "done" => status = "unavailable"

\* What the devices at some numbers have to say.
ChannelsAt(s) == Listed(attributes[slot[s]])
Expected(slots) == UNION {{Reading(s, c) : c \in ChannelsAt(s)} : s \in slots}

\* While sysfs is still: which device is in hand, and that the readings so far are
\* those of the devices before it and of the channels before the one in hand.
InHand ==
  /\ devices \subseteq Present
  /\ phase \in {"compatible", "canonical", "sample"} \cup InDevice =>
       cur \in Present \ devices /\ Driver[slot[cur]]
  /\ phase = "canonical" => Node[slot[cur]] # 0
  /\ phase \in {"sample"} \cup InDevice => cur \in Ams /\ ident = Node[slot[cur]]
  /\ phase \in InDevice => channels \subseteq ChannelsAt(cur)
SoFar ==
  /\ phase = "name" => Range(readings) = Expected(Ams \ devices)
  /\ phase \in {"compatible", "canonical", "sample"} => Range(readings) = Expected(Ams \ (devices \cup {cur}))
  /\ phase \in InDevice =>
       Range(readings) = Expected(Ams \ (devices \cup {cur})) \cup {Reading(cur, c) : c \in ChannelsAt(cur) \ channels}
  /\ phase # "done" => Distinct(readings)
Ended ==
  phase = "done" /\ status # "unsupported" =>
    /\ Range(readings) = Expected(Ams)
    /\ \A i, j \in DOMAIN readings : i < j => readings[i].id < readings[j].id

\* What the locals of sampleDevice() hold.
Locals ==
  /\ phase = "read label" => Has(<<Channel, "label">>)
  /\ phase = "read input" => Has(<<Channel, "input">>)
  /\ phase \in {"raw", "scale", "read scale", "offset", "check offset", "read offset"} =>
       ~Has(<<Channel, "input">>)
  /\ phase \in {"scale", "read scale", "offset", "check offset", "read offset"} =>
       raw = Number(<<Channel, "raw">>) /\ raw # Bad
  /\ phase = "read scale" => key = Attribute("scale")
  /\ phase \in {"offset", "check offset", "read offset"} =>
       scale = Number(Attribute("scale")) /\ scale # Bad
  /\ phase \in {"check offset", "read offset"} => key = Attribute("offset")
  /\ phase = "read offset" => Has(key)

OkHasValues ==
  phase = "done" /\ status = "ok" => readings # <<>> /\ \A i \in DOMAIN readings : readings[i].value # Unknown

Truthful == /\ still /\ Few => InHand /\ SoFar /\ Ended
            /\ still => Locals

SnapshotInv == SysmonTypeOK /\ HasChannel /\ SlotsOnce /\ Silent /\ OkHasValues /\ Truthful

\* What a file access gives.
LEMMA AccessType ==
  ASSUME SysmonTypeOK
  PROVE  /\ There \in Devices \cup {None}
         /\ \A k : Has(k) => k \in (0..99) \X Attributes
         /\ \A k : Number(k) \in Int
         /\ There # None => Listed(attributes[There]) \subseteq 1..99
<1>1. There \in Devices \cup {None}
  BY Zenon DEF SysmonTypeOK, There
<1>2. ASSUME There # None
      PROVE  /\ There \in Devices /\ attributes[There] \subseteq Files[There]
             /\ attributes[There] \subseteq (0..99) \X Attributes
             /\ \A k \in attributes[There] : Value[There][k] \in Int
  BY <1>1, <1>2, SysmonAssumption, Zenon DEF SysmonTypeOK
<1>3. \A k : Has(k) => k \in (0..99) \X Attributes
  BY <1>2 DEF Has
<1>4. \A k : Number(k) \in Int
  BY <1>2, SysmonAssumption DEF Number, Has
<1>5. There # None => Listed(attributes[There]) \subseteq 1..99
  <2> SUFFICES ASSUME There # None, NEW c \in Listed(attributes[There]) PROVE c \in 1..99
    OBVIOUS
  <2>1. PICK x \in {"raw", "input", "label"} : <<c, x>> \in attributes[There]
    BY DEF Listed
  <2>2. c # 0
    BY DEF Listed
  <2>3. <<c, x>> \in (0..99) \X Attributes
    BY <1>2, <2>1
  <2>4. c \in 0..99
    BY <2>3
  <2> QED BY <2>2, <2>4
<1> QED BY <1>1, <1>3, <1>4, <1>5

LEMMA ChannelType ==
  ASSUME SysmonTypeOK, channels # {}
  PROVE  /\ Channel \in channels /\ Channel \in 1..99
         /\ \A x \in Attributes : <<Channel, x>> \in (0..99) \X Attributes /\ Attribute(x) \in (0..99) \X Attributes
<1>1. channels \subseteq 1..99
  BY Zenon DEF SysmonTypeOK
<1>2. channels \subseteq Nat
  BY <1>1
<1>3. Channel \in channels
  BY <1>2, MinFacts, Zenon DEF Channel
<1>4. Channel \in 1..99 /\ Channel \in 0..99
  BY <1>1, <1>3
<1> QED BY <1>3, <1>4 DEF Attribute

Phases == {"idle", "list", "name", "compatible", "canonical", "sample", "label", "read label", "input",
           "read input", "raw", "scale", "read scale", "offset", "check offset", "read offset", "done"}

\* Steps of sampleDevice() with a channel in hand.
LEMMA GoType ==
  ASSUME SysmonTypeOK, channels # {}, NEW place \in Busy, NEW k \in (0..99) \X Attributes,
         NEW r \in Int, NEW s \in Int, Go(place, k, r, s)
  PROVE  SysmonTypeOK' /\ HasChannel'
<1>1. /\ phase' = place /\ key' = k /\ raw' = r /\ scale' = s
      /\ UNCHANGED <<slot, attributes, still, rebound, moves, cur, devices, ident, channels, readings, status>>
  BY DEF Go, kernel
<1>2. touched' \subseteq Devices
  BY AccessType, Zenon DEF Go, Touch, SysmonTypeOK
<1>3. place \in Phases
  BY Zenon DEF Busy, Phases
<1>4. SysmonTypeOK'
  BY <1>1, <1>2, <1>3, Zenon DEF SysmonTypeOK, Phases
<1> QED BY <1>1, <1>4 DEF HasChannel

LEMMA PushType ==
  ASSUME SysmonTypeOK, channels # {}, NEW v \in Int, Push(v)
  PROVE  SysmonTypeOK' /\ HasChannel'
<1>1. /\ phase' = "label" /\ channels' = channels \ {Channel}
      /\ readings' = Append(readings, [id |-> Id(ident, Channel), value |-> v])
      /\ UNCHANGED <<slot, attributes, still, rebound, moves, cur, devices, ident, key, raw, scale, status>>
  BY DEF Push, kernel
<1>2. touched' \subseteq Devices
  BY AccessType, Zenon DEF Push, Touch, SysmonTypeOK
<1>3. readings' \in Seq([id : Nat, value : Int])
  <2>1. Channel \in 1..99 /\ ident \in Nat /\ readings \in Seq([id : Nat, value : Int])
    BY ChannelType, Zenon DEF SysmonTypeOK
  <2>2. Id(ident, Channel) \in Nat
    BY <2>1 DEF Id
  <2>3. [id |-> Id(ident, Channel), value |-> v] \in [id : Nat, value : Int]
    BY <2>2
  <2> QED BY <1>1, <2>1, <2>3
<1>4. SysmonTypeOK'
  BY <1>1, <1>2, <1>3, Zenon DEF SysmonTypeOK
<1> QED BY <1>1, <1>4 DEF HasChannel, Busy

LEMMA ThrowType ==
  ASSUME SysmonTypeOK, Throw
  PROVE  SysmonTypeOK' /\ HasChannel'
<1>1. /\ phase' = "done" /\ status' \in {"unavailable", "partial"}
      /\ UNCHANGED <<slot, attributes, still, rebound, moves, cur, devices, ident, channels, key, raw, scale, readings, touched>>
  BY DEF Throw, kernel
<1>2. SysmonTypeOK'
  BY <1>1, Zenon DEF SysmonTypeOK
<1> QED BY <1>1, <1>2 DEF HasChannel, Busy

LEMMA SampleStepType ==
  ASSUME SysmonTypeOK, HasChannel,
         \/ CheckLabel \/ ReadLabel \/ CheckInput \/ ReadInput \/ ReadRaw
         \/ FindScale \/ ReadScale \/ FindOffset \/ CheckOffset \/ ReadOffset
  PROVE  /\ SysmonTypeOK' /\ HasChannel'
         /\ channels # {} /\ phase \in InDevice
<1>1. channels # {} /\ phase \in InDevice
  BY Zenon DEF CheckLabel, ReadLabel, CheckInput, ReadInput, ReadRaw, FindScale, ReadScale, FindOffset, CheckOffset,
         ReadOffset, HasChannel, Busy, InDevice
<1>2. /\ Unknown \in Int /\ (\A k : Number(k) \in Int) /\ key \in (0..99) \X Attributes /\ raw \in Int /\ scale \in Int
      /\ Attribute("scale") \in (0..99) \X Attributes /\ Attribute("offset") \in (0..99) \X Attributes
  <2>1. Unknown \in Int /\ key \in (0..99) \X Attributes /\ raw \in Int /\ scale \in Int
    <3>1. Bad \in Int
      BY SysmonAssumption
    <3>2. Unknown \in Int
      BY <3>1 DEF Unknown
    <3> QED BY <3>2, Zenon DEF SysmonTypeOK
  <2>2. "scale" \in Attributes /\ "offset" \in Attributes
    BY DEF Attributes
  <2> QED BY <1>1, <2>1, <2>2, AccessType, ChannelType, Zenon
<1>3. ASSUME NEW o \in Int PROVE Convert(o) \in Int
  BY <1>2 DEF Convert
<1>4. CASE CheckLabel
  BY <1>1, <1>2, <1>4, GoType, Zenon DEF CheckLabel, Busy
<1>5. CASE ReadLabel
  BY <1>1, <1>2, <1>5, GoType, PushType, Zenon DEF ReadLabel, Busy
<1>6. CASE CheckInput
  BY <1>1, <1>2, <1>6, GoType, Zenon DEF CheckInput, Busy
<1>7. CASE ReadInput
  BY <1>1, <1>2, <1>7, PushType, Zenon DEF ReadInput
<1>8. CASE ReadRaw
  BY <1>1, <1>2, <1>8, GoType, PushType, Zenon DEF ReadRaw, Busy
<1>9. CASE FindScale
  BY <1>1, <1>2, <1>9, GoType, Zenon DEF FindScale, Busy
<1>10. CASE ReadScale
  BY <1>1, <1>2, <1>10, GoType, PushType, Zenon DEF ReadScale, Busy
<1>11. CASE FindOffset
  BY <1>1, <1>2, <1>11, GoType, Zenon DEF FindOffset, Busy
<1>12. CASE CheckOffset
  <2>1. CASE Has(key)
    BY <1>1, <1>2, <1>12, <2>1, GoType, Zenon DEF CheckOffset, Busy
  <2>2. CASE ~Has(key)
    <3>1. Push(Convert(0))
      BY <1>12, <2>2, Zenon DEF CheckOffset
    <3>2. Convert(0) \in Int
      BY <1>3
    <3> QED BY <1>1, <3>1, <3>2, PushType
  <2> QED BY <2>1, <2>2
<1>13. CASE ReadOffset
  BY <1>1, <1>2, <1>3, <1>13, PushType, Zenon DEF ReadOffset
<1> QED BY <1>1, <1>4, <1>5, <1>6, <1>7, <1>8, <1>9, <1>10, <1>11, <1>12, <1>13

LEMMA SnapshotTypeInit == SysmonInit => SysmonTypeOK /\ HasChannel
<1> SUFFICES ASSUME SysmonInit PROVE SysmonTypeOK /\ HasChannel
  OBVIOUS
<1>1. Min(Slots) \in Slots
  BY SysmonAssumption, MinFacts, Zenon
<1>2. key \in (0..99) \X Attributes /\ readings \in Seq([id : Nat, value : Int]) /\ moves \in 0..MaxMoves
  BY SysmonAssumption DEF SysmonInit, Attributes
<1>3. slot \in [Slots -> Devices \cup {None}] /\ DOMAIN attributes = Devices
      /\ \A d \in Devices : attributes[d] \subseteq Files[d]
  BY SysmonAssumption DEF SysmonInit
<1>4. /\ cur \in Slots /\ devices \subseteq Slots /\ ident \in Nat /\ channels \subseteq 1..99 /\ raw \in Int /\ scale \in Int
      /\ phase = "idle" /\ status = "unavailable" /\ touched \subseteq Devices /\ still \in BOOLEAN /\ rebound \subseteq Devices
  <2>1. /\ cur = Min(Slots) /\ devices = {} /\ ident = 0 /\ channels = {} /\ raw = 0 /\ scale = 0
        /\ phase = "idle" /\ status = "unavailable" /\ touched = {} /\ still = TRUE /\ rebound = {}
    BY DEF SysmonInit
  <2>2. cur \in Slots /\ devices \subseteq Slots /\ channels \subseteq 1..99 /\ touched \subseteq Devices
    BY <1>1, <2>1
  <2>3. ident \in Nat /\ raw \in Int /\ scale \in Int
    BY <2>1
  <2>4. still \in BOOLEAN /\ rebound \subseteq Devices
    BY <2>1, Zenon
  <2> QED BY <2>1, <2>2, <2>3, <2>4
<1>5. SysmonTypeOK
  BY <1>2, <1>3, <1>4 DEF SysmonTypeOK
<1> QED BY <1>4, <1>5 DEF HasChannel, Busy

LEMMA SnapshotTypeStep == SysmonTypeOK /\ HasChannel /\ [SysmonNext]_sysmonVars => SysmonTypeOK' /\ HasChannel'
<1> SUFFICES ASSUME SysmonTypeOK, HasChannel, [SysmonNext]_sysmonVars PROVE SysmonTypeOK' /\ HasChannel'
  OBVIOUS
<1> USE DEF kernel
<1>1. CASE ReadSnapshot \/ Unsupported
  <2>1. SysmonTypeOK'
    BY <1>1, ZenonT(30) DEF ReadSnapshot, Unsupported, SysmonTypeOK
  <2>2. phase' \notin Busy
    BY <1>1, Zenon DEF ReadSnapshot, Unsupported, Busy
  <2> QED BY <2>1, <2>2 DEF HasChannel
<1>2. CASE List
  <2>1. CASE Throw
    BY <2>1, ThrowType
  <2>2. CASE /\ phase' = "name" /\ devices' = Present
             /\ UNCHANGED <<kernel, cur, ident, channels, key, raw, scale, readings, status, touched>>
    <3>1. Present \subseteq Slots
      BY DEF Present
    <3>2. SysmonTypeOK'
      BY <2>2, <3>1, Zenon DEF SysmonTypeOK
    <3> QED BY <2>2, <3>2, Zenon DEF HasChannel, Busy
  <2> QED BY <1>2, <2>1, <2>2 DEF List
<1>3. CASE Finish
  <2>1. /\ phase' = "done" /\ readings' = Sorted(readings) /\ status' \in {status, "ok", "partial"}
        /\ UNCHANGED <<slot, attributes, still, rebound, moves, cur, devices, ident, channels, key, raw, scale, touched>>
    BY <1>3 DEF Finish
  <2>2. readings' \in Seq([id : Nat, value : Int])
    <3>1. readings \in Readings
      BY Zenon DEF SysmonTypeOK, Readings, Item
    <3>2. Sorted(readings) \in Readings
      BY <3>1, SortedFacts
    <3> QED BY <2>1, <3>2 DEF Readings, Item
  <2>3. SysmonTypeOK'
    BY <2>1, <2>2, Zenon DEF SysmonTypeOK
  <2> QED BY <2>1, <2>3, Zenon DEF HasChannel, Busy
<1>4. CASE ReadName
  <2>1. /\ phase' \in {"compatible", "name"} /\ cur' = Min(devices) /\ devices' = devices \ {cur'} /\ devices # {}
        /\ UNCHANGED <<slot, attributes, still, rebound, moves, ident, channels, key, raw, scale, readings, status, touched>>
    BY <1>4 DEF ReadName
  <2>2. devices \subseteq Slots /\ devices \subseteq Nat
    BY SysmonAssumption, Zenon DEF SysmonTypeOK
  <2>3. cur' \in Slots
    BY <2>1, <2>2, MinFacts, Zenon
  <2>4. SysmonTypeOK'
    BY <2>1, <2>2, <2>3, Zenon DEF SysmonTypeOK
  <2> QED BY <2>1, <2>4, Zenon DEF HasChannel, Busy
<1>5. CASE ReadCompatible \/ ReadCanonical
  <2>1. CASE Throw
    BY <2>1, ThrowType
  <2>2. CASE /\ There # None /\ phase' \in {"canonical", "name", "sample"} /\ ident' \in {ident, Node[There]}
             /\ UNCHANGED <<kernel, cur, devices, channels, key, raw, scale, readings, status, touched>>
    <3>1. Node[There] \in Nat
      BY <2>2, AccessType, SysmonAssumption
    <3>2. SysmonTypeOK'
      BY <2>2, <3>1, Zenon DEF SysmonTypeOK
    <3> QED BY <2>2, <3>2, Zenon DEF HasChannel, Busy
  <2> QED BY <1>5, <2>1, <2>2 DEF ReadCompatible, ReadCanonical
<1>6. CASE Sample
  <2>1. CASE Throw
    BY <2>1, ThrowType
  <2>2. CASE /\ Enumerable /\ phase' = "label" /\ Touch /\ channels' = Listed(attributes[There])
             /\ UNCHANGED <<kernel, cur, devices, ident, key, raw, scale, readings, status>>
    <3>1. Listed(attributes[There]) \subseteq 1..99
      BY <2>2, AccessType DEF Enumerable
    <3>2. touched' \subseteq Devices
      BY <2>2, AccessType, Zenon DEF Touch, SysmonTypeOK
    <3>3. SysmonTypeOK'
      BY <2>2, <3>1, <3>2, Zenon DEF SysmonTypeOK
    <3> QED BY <2>2, <3>3, Zenon DEF HasChannel, Busy
  <2> QED BY <1>6, <2>1, <2>2 DEF Sample
<1>7. CASE NoChannel
  <2>1. SysmonTypeOK'
    BY <1>7 DEF NoChannel, SysmonTypeOK
  <2> QED BY <1>7, <2>1 DEF NoChannel, HasChannel, Busy
<1>8. CASE \/ CheckLabel \/ ReadLabel \/ CheckInput \/ ReadInput \/ ReadRaw
           \/ FindScale \/ ReadScale \/ FindOffset \/ CheckOffset \/ ReadOffset
  BY <1>8, SampleStepType
<1>9. ASSUME Move, slot' \in [Slots -> Devices \cup {None}], rebound' \subseteq Devices,
             DOMAIN attributes' = Devices, \A d \in Devices : attributes'[d] \subseteq Files[d]
      PROVE  SysmonTypeOK' /\ HasChannel'
  <2>1. moves' \in 0..MaxMoves
    <3>1. MaxMoves \in Nat
      BY SysmonAssumption
    <3>2. moves \in 0..MaxMoves /\ moves < MaxMoves /\ moves' = moves + 1
      BY <1>9, Zenon DEF Move, SysmonTypeOK
    <3> QED BY <3>1, <3>2
  <2>2. SysmonTypeOK'
    BY <1>9, <2>1, Zenon DEF Move, SysmonTypeOK
  <2> QED BY <1>9, <2>2 DEF Move, HasChannel
<1>10. ASSUME NEW d \in Devices, NEW k \in attributes[d], Vanish(d, k) PROVE SysmonTypeOK' /\ HasChannel'
  <2>1. attributes' = [attributes EXCEPT ![d] = @ \ {k}] /\ UNCHANGED <<slot, rebound>> /\ Move
    BY <1>10 DEF Vanish
  <2>2. DOMAIN attributes' = Devices /\ \A e \in Devices : attributes'[e] \subseteq Files[e]
    BY <2>1, Zenon DEF SysmonTypeOK
  <2>3. slot' \in [Slots -> Devices \cup {None}] /\ rebound' \subseteq Devices
    BY <2>1, Zenon DEF SysmonTypeOK
  <2> QED BY <1>9, <2>1, <2>2, <2>3
<1>11. ASSUME NEW s \in Slots, Unbind(s) \/ \E d \in Devices : Bind(s, d) PROVE SysmonTypeOK' /\ HasChannel'
  <2>1. attributes' = attributes /\ slot' \in [Slots -> Devices \cup {None}] /\ rebound' \subseteq Devices /\ Move
    <3>1. slot \in [Slots -> Devices \cup {None}] /\ rebound \subseteq Devices
      BY Zenon DEF SysmonTypeOK
    <3>2. attributes' = attributes /\ Move
      BY <1>11, Zenon DEF Unbind, Bind
    <3>3. CASE Unbind(s)
      <4>1. slot' = [slot EXCEPT ![s] = None] /\ rebound' = rebound
        BY <3>3, Zenon DEF Unbind
      <4> QED BY <3>1, <3>2, <4>1
    <3>4. ASSUME NEW d \in Devices, Bind(s, d)
          PROVE  slot' \in [Slots -> Devices \cup {None}] /\ rebound' \subseteq Devices
      <4>1. slot' = [slot EXCEPT ![s] = d] /\ rebound' = rebound \cup (IF s = cur /\ phase \notin {"idle", "list", "name", "done"} THEN {d} ELSE {})
        BY <3>4, Zenon DEF Bind
      <4> QED BY <3>1, <4>1
    <3> QED BY <1>11, <3>2, <3>3, <3>4, Zenon
  <2>2. DOMAIN attributes' = Devices /\ \A e \in Devices : attributes'[e] \subseteq Files[e]
    BY <2>1, Zenon DEF SysmonTypeOK
  <2> QED BY <1>9, <2>1, <2>2
<1>12. CASE UNCHANGED sysmonVars
  <2>1. SysmonTypeOK'
    BY <1>12, Zenon DEF sysmonVars, SysmonTypeOK
  <2> QED BY <1>12, <2>1 DEF sysmonVars, HasChannel
<1> QED BY <1>1, <1>2, <1>3, <1>4, <1>5, <1>6, <1>7, <1>8, <1>10, <1>11, <1>12 DEF SysmonNext, Monitor

\* The provider changes nothing in sysfs.
LEMMA SysfsSame ==
  ASSUME UNCHANGED <<slot, attributes>>
  PROVE  /\ Present' = Present /\ Ams' = Ams /\ Few' = Few /\ SlotsOnce' = SlotsOnce
         /\ \A s : ChannelsAt(s)' = ChannelsAt(s)
         /\ \A s, c : Reading(s, c)' = Reading(s, c)
         /\ \A slots : Expected(slots)' = Expected(slots)
<1>1. Present' = Present /\ Ams' = Ams /\ SlotsOnce' = SlotsOnce
  BY DEF Present, Ams, SlotsOnce
<1>2. \A s : ChannelsAt(s)' = ChannelsAt(s)
  BY DEF ChannelsAt
<1>3. \A s, c : Reading(s, c)' = Reading(s, c)
  BY DEF Reading
<1>4. \A slots : Expected(slots)' = Expected(slots)
  BY <1>2, <1>3 DEF Expected
<1>5. Few' = Few
  <2>1. \A s : Legible(s)' = Legible(s)
    BY DEF Legible
  <2> QED BY <1>1, <2>1 DEF Few
<1> QED BY <1>1, <1>2, <1>3, <1>4, <1>5

LEMMA LocalsSame ==
  ASSUME UNCHANGED <<slot, attributes, cur, channels>>
  PROVE  /\ There' = There /\ Channel' = Channel
         /\ \A k : Has(k)' = Has(k) /\ Number(k)' = Number(k)
         /\ \A x : Attribute(x)' = Attribute(x)
<1>1. There' = There /\ Channel' = Channel
  BY DEF There, Channel
<1>2. \A k : Has(k)' = Has(k)
  BY <1>1 DEF Has
<1>3. \A k : Number(k)' = Number(k)
  BY <1>1, <1>2 DEF Number
<1>4. \A x : Attribute(x)' = Attribute(x)
  BY <1>1, <1>2 DEF Attribute
<1> QED BY <1>1, <1>2, <1>3, <1>4

LEMMA ExpectedSets ==
  ASSUME NEW A, NEW D, NEW s
  PROVE  /\ Expected({}) = {}
         /\ s \notin A => A \ (D \cup {s}) = A \ D
         /\ s \in A /\ s \notin D =>
              Expected(A \ D) = Expected(A \ (D \cup {s})) \cup {Reading(s, c) : c \in ChannelsAt(s)}
<1>1. Expected({}) = {}
  BY DEF Expected
<1>2. s \notin A => A \ (D \cup {s}) = A \ D
  OBVIOUS
<1>3. ASSUME s \in A, s \notin D
      PROVE  Expected(A \ D) = Expected(A \ (D \cup {s})) \cup {Reading(s, c) : c \in ChannelsAt(s)}
  <2>1. A \ D = (A \ (D \cup {s})) \cup {s}
    BY <1>3
  <2>2. \A B : Expected(B \cup {s}) = Expected(B) \cup {Reading(s, c) : c \in ChannelsAt(s)}
    BY DEF Expected
  <2> QED BY <2>1, <2>2
<1> QED BY <1>1, <1>2, <1>3

\* Where sampleDevice() is not at work its locals do not matter, and nothing has
\* ended yet.
LEMMA Outside ==
  ASSUME phase' \in {"list", "name", "compatible", "canonical", "sample", "label"}
  PROVE  Locals' /\ Ended' /\ OkHasValues'
<1>1. Locals'
  BY Zenon DEF Locals
<1> QED BY <1>1 DEF Ended, OkHasValues

LEMMA ReadSnapshotStep ==
  ASSUME SnapshotInv, ReadSnapshot \/ Unsupported
  PROVE  SlotsOnce' /\ Silent' /\ OkHasValues' /\ Truthful'
<1>1. phase = "idle" /\ readings = <<>> /\ devices = {} /\ status = "unavailable" /\ SlotsOnce
  BY DEF SnapshotInv, Silent, ReadSnapshot, Unsupported
<1>2. UNCHANGED <<slot, attributes, readings, devices>>
  BY DEF ReadSnapshot, Unsupported, kernel
<1>3. SlotsOnce'
  BY <1>1, <1>2, SysfsSame
<1>4. CASE ReadSnapshot
  <2>1. phase' = "list" /\ status' = status
    BY <1>4 DEF ReadSnapshot
  <2>2. Silent'
    BY <1>1, <1>2, <2>1 DEF Silent
  <2>3. InHand' /\ SoFar'
    <3>1. devices' = {} /\ readings' = <<>>
      BY <1>1, <1>2
    <3> QED BY <2>1, <3>1 DEF InHand, SoFar, InDevice, Busy, Distinct
  <2> QED BY <1>3, <2>1, <2>2, <2>3, Outside DEF Truthful
<1>5. CASE Unsupported
  <2>1. phase' = "done" /\ status' = "unsupported"
    BY <1>5 DEF Unsupported
  <2>2. Silent' /\ OkHasValues' /\ Ended' /\ Locals'
    BY <2>1 DEF Silent, OkHasValues, Ended, Locals
  <2>3. InHand' /\ SoFar'
    <3>1. devices' = {}
      BY <1>1, <1>2
    <3> QED BY <2>1, <3>1 DEF InHand, SoFar, InDevice, Busy
  <2> QED BY <1>3, <2>2, <2>3 DEF Truthful
<1> QED BY <1>4, <1>5

\* An exception ends the snapshot; while sysfs is still and nothing is too many
\* there is none.
LEMMA ThrowStep ==
  ASSUME SnapshotInv, Throw, ~(still /\ Few)
  PROVE  SlotsOnce' /\ Silent' /\ OkHasValues' /\ Truthful'
<1>1. phase' = "done" /\ status' \in {"unavailable", "partial"} /\ UNCHANGED <<slot, attributes, still>>
  BY DEF Throw, kernel
<1>2. SlotsOnce' /\ ~(still' /\ Few')
  BY <1>1, SysfsSame DEF SnapshotInv
<1>3. Silent' /\ OkHasValues' /\ Locals'
  BY <1>1 DEF Silent, OkHasValues, Locals
<1> QED BY <1>2, <1>3 DEF Truthful

LEMMA AmsPresent == Ams \subseteq Present
BY DEF Ams, Present

LEMMA ListStep ==
  ASSUME SnapshotInv, List
  PROVE  SlotsOnce' /\ Silent' /\ OkHasValues' /\ Truthful'
<1>1. CASE Cardinality(Present) > MaxDevices /\ Throw
  <2>1. ~Few
    <3>1. Cardinality(Present) \in Nat
      <4>1. Present \in SUBSET Slots /\ IsFiniteSet(Slots)
        BY SysmonAssumption DEF Present
      <4> QED BY <4>1, FS_Subset, FS_CardinalityType
    <3>2. MaxDevices \in Nat
      BY SysmonAssumption
    <3> QED BY <1>1, <3>1, <3>2 DEF Few
  <2> QED BY <1>1, <2>1, ThrowStep
<1>2. CASE /\ phase' = "name" /\ devices' = Present
           /\ UNCHANGED <<kernel, cur, ident, channels, key, raw, scale, readings, status, touched>>
  <2>1. readings = <<>> /\ status = "unavailable" /\ SlotsOnce
    BY DEF List, SnapshotInv, Silent
  <2>2. UNCHANGED <<slot, attributes, readings, status>>
    BY <1>2 DEF kernel
  <2>3. SlotsOnce' /\ Present' = Present /\ Ams' = Ams /\ \A slots : Expected(slots)' = Expected(slots)
    BY <2>1, <2>2, SysfsSame
  <2>4. Silent'
    BY <1>2, <2>1, <2>2 DEF Silent
  <2>5. Range(readings') = {} /\ Distinct(readings')
    BY <2>1, <2>2 DEF Range, Distinct
  <2>6. Expected(Ams \ devices)' = {}
    <3>1. Ams \ Present = {}
      BY AmsPresent
    <3>2. Expected({}) = {}
      BY ExpectedSets
    <3> QED BY <1>2, <2>3, <3>1, <3>2
  <2>7. InHand' /\ SoFar'
    BY <1>2, <2>3, <2>5, <2>6 DEF InHand, SoFar, InDevice, Busy
  <2> QED BY <1>2, <2>3, <2>4, <2>7, Outside DEF Truthful
<1> QED BY <1>1, <1>2 DEF List

LEMMA FinishStep ==
  ASSUME SnapshotInv, Finish
  PROVE  SlotsOnce' /\ Silent' /\ OkHasValues' /\ Truthful'
<1>1. /\ phase = "name" /\ devices = {} /\ phase' = "done" /\ readings' = Sorted(readings)
      /\ status' = (IF readings = <<>> THEN status ELSE IF Complete(readings) THEN "ok" ELSE "partial")
      /\ UNCHANGED <<slot, attributes, still, devices>>
  BY DEF Finish, kernel
<1>2. status = "unavailable" /\ SlotsOnce /\ readings \in Readings
  BY <1>1 DEF SnapshotInv, Silent, SysmonTypeOK, Readings, Item
<1>3. /\ SlotsOnce' /\ Ams' = Ams /\ Few' = Few /\ Present' = Present
      /\ \A slots : Expected(slots)' = Expected(slots)
  BY <1>1, <1>2, SysfsSame
<1>4. /\ DOMAIN readings' = DOMAIN readings /\ Range(readings') = Range(readings)
      /\ Distinct(readings) => \A i, j \in DOMAIN readings : i < j => readings'[i].id < readings'[j].id
  BY <1>1, <1>2, SortedFacts
<1>5. OkHasValues'
  <2> SUFFICES ASSUME status' = "ok"
               PROVE  readings' # <<>> /\ \A i \in DOMAIN readings' : readings'[i].value # Unknown
    BY DEF OkHasValues
  <2>1. readings # <<>> /\ \A i \in DOMAIN readings : readings[i].value # Unknown
    BY <1>1, <1>2 DEF Complete
  <2>2. readings' # <<>>
    <3>1. DOMAIN readings # {}
      BY <1>2, <2>1, ReadingsFacts DEF Readings
    <3> QED BY <1>4, <3>1
  <2>3. ASSUME NEW i \in DOMAIN readings' PROVE readings'[i].value # Unknown
    <3>1. readings'[i] \in Range(readings)
      BY <1>4 DEF Range
    <3>2. PICK j \in DOMAIN readings : readings'[i] = readings[j]
      BY <3>1 DEF Range
    <3> QED BY <2>1, <3>2
  <2> QED BY <2>2, <2>3
<1>6. Silent' /\ Locals'
  BY <1>1 DEF Silent, Locals
<1>7. ASSUME still, Few PROVE InHand' /\ SoFar' /\ Ended'
  <2>1. InHand /\ SoFar
    BY <1>7 DEF SnapshotInv, Truthful
  <2>2. Range(readings) = Expected(Ams \ {}) /\ Distinct(readings)
    BY <1>1, <2>1 DEF SoFar
  <2>3. Ams \ {} = Ams
    OBVIOUS
  <2>4. Ended'
    BY <1>3, <1>4, <2>2, <2>3 DEF Ended
  <2>5. InHand' /\ SoFar'
    BY <1>1, Zenon DEF InHand, SoFar, InDevice, Busy
  <2> QED BY <2>4, <2>5
<1> QED BY <1>1, <1>3, <1>5, <1>6, <1>7 DEF Truthful

LEMMA ReadNameStep ==
  ASSUME SnapshotInv, ReadName
  PROVE  SlotsOnce' /\ Silent' /\ OkHasValues' /\ Truthful'
<1>1. /\ phase = "name" /\ devices # {} /\ cur' = Min(devices) /\ devices' = devices \ {cur'}
      /\ phase' = (IF IsAms(cur') THEN "compatible" ELSE "name")
      /\ UNCHANGED <<slot, attributes, still, readings, status>>
  BY DEF ReadName, kernel
<1>2. cur' \in devices
  <2>1. devices \subseteq Nat
    BY SysmonAssumption, Zenon DEF SnapshotInv, SysmonTypeOK
  <2> QED BY <1>1, <2>1, MinFacts, Zenon
<1>3. /\ SlotsOnce' /\ Ams' = Ams /\ Few' = Few /\ Present' = Present
      /\ \A slots : Expected(slots)' = Expected(slots)
  BY <1>1, SysfsSame DEF SnapshotInv
<1>4. phase' \in {"name", "compatible"} /\ Silent'
  BY <1>1 DEF SnapshotInv, Silent
<1>5. ASSUME still, Few PROVE InHand' /\ SoFar'
  <2>1. devices \subseteq Present /\ Range(readings) = Expected(Ams \ devices) /\ Distinct(readings)
    BY <1>1, <1>5 DEF SnapshotInv, Truthful, InHand, SoFar
  <2>2. CASE IsAms(cur')
    <3>1. phase' = "compatible" /\ cur' \in Present \ devices' /\ Driver[slot[cur']]
      BY <1>1, <1>2, <2>1, <2>2 DEF IsAms
    <3>2. devices' \cup {cur'} = devices
      BY <1>1, <1>2
    <3> QED BY <1>1, <1>3, <2>1, <3>1, <3>2, Zenon DEF InHand, SoFar, InDevice, Busy
  <2>3. CASE ~IsAms(cur')
    <3>1. phase' = "name" /\ cur' \notin Ams
      BY <1>1, <2>3 DEF IsAms, Ams
    <3>2. Ams \ devices' = Ams \ devices
      BY <1>1, <3>1
    <3> QED BY <1>1, <1>3, <2>1, <3>1, <3>2, Zenon DEF InHand, SoFar, InDevice, Busy
  <2> QED BY <2>2, <2>3
<1> QED BY <1>1, <1>3, <1>4, <1>5, Outside DEF Truthful

LEMMA IdentifyStep ==
  ASSUME SnapshotInv, ReadCompatible \/ ReadCanonical
  PROVE  SlotsOnce' /\ Silent' /\ OkHasValues' /\ Truthful'
<1>1. phase \in {"compatible", "canonical"}
  BY DEF ReadCompatible, ReadCanonical
<1>2. ASSUME still, Few
      PROVE  /\ devices \subseteq Present /\ cur \in Present \ devices /\ Driver[slot[cur]] /\ There # None
             /\ Range(readings) = Expected(Ams \ (devices \cup {cur})) /\ Distinct(readings)
             /\ phase = "canonical" => Node[slot[cur]] # 0
             /\ There \notin Nodeless
  <2>1. /\ devices \subseteq Present /\ cur \in Present \ devices /\ Driver[slot[cur]] /\ There # None
        /\ Range(readings) = Expected(Ams \ (devices \cup {cur})) /\ Distinct(readings)
        /\ phase = "canonical" => Node[slot[cur]] # 0
    BY <1>1, <1>2, Zenon DEF SnapshotInv, Truthful, InHand, SoFar, There, Present
  <2>2. There \notin Nodeless
    BY <1>2, <2>1 DEF Few, Legible, There
  <2> QED BY <2>1, <2>2, Zenon
<1>3. CASE There \in Nodeless \cup {None} /\ Throw
  BY <1>2, <1>3, ThrowStep
<1>4. CASE /\ There # None /\ phase' \in {"name", "canonical", "sample"}
           /\ UNCHANGED <<kernel, cur, devices, readings, status>>
           /\ phase' = "canonical" => Node[There] # 0
           /\ phase' = "sample" => Node[There] \in Selected /\ ident' = Node[There]
           /\ phase' = "name" => Node[There] = 0 \/ Node[There] \notin Selected
  <2>1. UNCHANGED <<slot, attributes, still, cur, devices, readings, status>>
    BY <1>4 DEF kernel
  <2>2. /\ SlotsOnce' /\ Ams' = Ams /\ Few' = Few /\ Present' = Present
        /\ \A slots : Expected(slots)' = Expected(slots)
    BY <2>1, SysfsSame DEF SnapshotInv
  <2>3. Silent'
    BY <1>1, <1>4, <2>1 DEF SnapshotInv, Silent
  <2>4. ASSUME still, Few PROVE InHand' /\ SoFar'
    <3>0. /\ devices \subseteq Present /\ cur \in Present \ devices /\ Driver[slot[cur]]
          /\ Range(readings) = Expected(Ams \ (devices \cup {cur})) /\ Distinct(readings)
      BY <1>2, <2>4
    <3>1. CASE phase' = "canonical"
      <4>1. Node[slot[cur]] # 0
        BY <1>4, <3>1 DEF There
      <4> QED BY <2>1, <2>2, <3>0, <3>1, <4>1, Zenon DEF InHand, SoFar, InDevice, Busy
    <3>2. CASE phase' = "sample"
      <4>1. cur \in Ams /\ ident' = Node[slot[cur]]
        BY <1>4, <3>0, <3>2, Zenon DEF There, Ams, Present
      <4> QED BY <2>1, <2>2, <3>0, <3>2, <4>1, Zenon DEF InHand, SoFar, InDevice, Busy
    <3>3. CASE phase' = "name"
      <4>1. cur \notin Ams
        BY <1>4, <3>3, SysmonAssumption DEF There, Ams
      <4>2. Ams \ (devices \cup {cur}) = Ams \ devices
        BY <4>1
      <4> QED BY <2>1, <2>2, <3>0, <3>3, <4>2, Zenon DEF InHand, SoFar, InDevice, Busy
    <3> QED BY <1>4, <3>1, <3>2, <3>3
  <2> QED BY <1>4, <2>1, <2>2, <2>3, <2>4, Outside DEF Truthful
<1> QED BY <1>3, <1>4 DEF ReadCompatible, ReadCanonical

LEMMA SampleStep ==
  ASSUME SnapshotInv, Sample
  PROVE  SlotsOnce' /\ Silent' /\ OkHasValues' /\ Truthful'
<1>1. phase = "sample"
  BY DEF Sample
<1>2. ASSUME still, Few
      PROVE  /\ devices \subseteq Present /\ cur \in Present \ devices /\ Driver[slot[cur]] /\ cur \in Ams
             /\ ident = Node[slot[cur]] /\ Enumerable
             /\ Range(readings) = Expected(Ams \ (devices \cup {cur})) /\ Distinct(readings)
  <2>1. /\ devices \subseteq Present /\ cur \in Present \ devices /\ Driver[slot[cur]] /\ cur \in Ams
        /\ ident = Node[slot[cur]]
        /\ Range(readings) = Expected(Ams \ (devices \cup {cur})) /\ Distinct(readings)
    BY <1>1, <1>2 DEF SnapshotInv, Truthful, InHand, SoFar
  <2>2. Enumerable
    BY <1>2, <2>1 DEF Enumerable, There, Few, Legible, Present, Ams
  <2> QED BY <2>1, <2>2, Zenon
<1>3. CASE ~Enumerable /\ Throw
  BY <1>2, <1>3, ThrowStep
<1>4. CASE /\ phase' = "label" /\ channels' = Listed(attributes[There])
           /\ UNCHANGED <<kernel, cur, devices, ident, key, raw, scale, readings, status>>
  <2>1. UNCHANGED <<slot, attributes, still, cur, devices, ident, readings, status>> /\ channels' = ChannelsAt(cur)
    BY <1>4 DEF kernel, ChannelsAt, There
  <2>2. /\ SlotsOnce' /\ Ams' = Ams /\ Few' = Few /\ Present' = Present
        /\ \A slots : Expected(slots)' = Expected(slots)
        /\ \A s : ChannelsAt(s)' = ChannelsAt(s)
    BY <2>1, SysfsSame DEF SnapshotInv
  <2>3. Silent'
    BY <1>1, <1>4, <2>1 DEF SnapshotInv, Silent
  <2>4. ASSUME still, Few PROVE InHand' /\ SoFar'
    <3>1. channels' = ChannelsAt(cur)'
      BY <2>1, <2>2
    <3>2. {Reading(cur, c) : c \in ChannelsAt(cur) \ channels}' = {}
      BY <3>1
    <3>3. InHand'
      BY <1>2, <1>4, <2>1, <2>2, <2>4, <3>1, Zenon DEF InHand, InDevice, Busy
    <3>4. SoFar'
      BY <1>2, <1>4, <2>1, <2>2, <2>4, <3>2, Zenon DEF SoFar, InDevice, Busy
    <3> QED BY <3>3, <3>4
  <2> QED BY <1>4, <2>1, <2>2, <2>3, <2>4, Outside DEF Truthful
<1> QED BY <1>3, <1>4 DEF Sample

LEMMA NoChannelStep ==
  ASSUME SnapshotInv, NoChannel
  PROVE  SlotsOnce' /\ Silent' /\ OkHasValues' /\ Truthful'
<1>1. /\ phase = "label" /\ channels = {} /\ phase' = "name"
      /\ UNCHANGED <<slot, attributes, still, cur, devices, readings, status>>
  BY DEF NoChannel, kernel
<1>2. /\ SlotsOnce' /\ Ams' = Ams /\ Few' = Few /\ Present' = Present
      /\ \A slots : Expected(slots)' = Expected(slots)
  BY <1>1, SysfsSame DEF SnapshotInv
<1>3. Silent'
  BY <1>1 DEF SnapshotInv, Silent
<1>4. ASSUME still, Few PROVE InHand' /\ SoFar'
  <2>1. /\ devices \subseteq Present /\ cur \in Present \ devices /\ cur \in Ams /\ Distinct(readings)
        /\ Range(readings) = Expected(Ams \ (devices \cup {cur})) \cup {Reading(cur, c) : c \in ChannelsAt(cur) \ channels}
    BY <1>1, <1>4, Zenon DEF SnapshotInv, Truthful, InHand, SoFar, InDevice
  <2>2. ChannelsAt(cur) \ channels = ChannelsAt(cur)
    BY <1>1
  <2>3. Range(readings) = Expected(Ams \ devices)
    <3>1. cur \in Ams /\ cur \notin devices
      BY <2>1
    <3>2. Expected(Ams \ devices) = Expected(Ams \ (devices \cup {cur})) \cup {Reading(cur, c) : c \in ChannelsAt(cur)}
      BY <3>1, ExpectedSets, Zenon
    <3> QED BY <2>1, <2>2, <3>2, Zenon
  <2> QED BY <1>1, <1>2, <2>1, <2>3, Zenon DEF InHand, SoFar, InDevice, Busy
<1> QED BY <1>1, <1>2, <1>3, <1>4, Outside DEF Truthful

LEMMA AmsFacts ==
  ASSUME SysmonTypeOK, NEW s \in Ams
  PROVE  /\ s \in Slots /\ slot[s] \in Devices /\ slot[s] # None /\ Node[slot[s]] \in Nat /\ Node[slot[s]] # 0
         /\ ChannelsAt(s) \subseteq 1..99
<1>1. s \in Slots /\ slot[s] \in Devices /\ slot[s] # None /\ Node[slot[s]] \in Nat /\ Node[slot[s]] # 0
  <2>1. s \in Slots /\ slot[s] # None /\ Node[slot[s]] \in Selected /\ slot[s] \in Devices \cup {None}
    BY Zenon DEF Ams, SysmonTypeOK
  <2>2. Node \in [Devices -> Nat] /\ 0 \notin Selected
    BY SysmonAssumption
  <2>3. slot[s] \in Devices
    BY <2>1
  <2> QED BY <2>1, <2>2, <2>3
<1>2. attributes[slot[s]] \subseteq (0..99) \X Attributes
  BY <1>1, SysmonAssumption, Zenon DEF SysmonTypeOK
<1>3. ASSUME NEW c \in ChannelsAt(s) PROVE c \in 1..99
  <2>1. c # 0 /\ \E x \in {"raw", "input", "label"} : <<c, x>> \in attributes[slot[s]]
    BY <1>3 DEF ChannelsAt, Listed
  <2>2. c \in 0..99
    BY <1>2, <2>1
  <2> QED BY <2>1, <2>2
<1> QED BY <1>1, <1>3

\* The reading of a channel not sampled yet is none of those there are.
LEMMA ReadingNew ==
  ASSUME SysmonTypeOK, SlotsOnce, NEW s \in Ams, NEW c \in ChannelsAt(s), NEW D, s \in D, NEW C, c \in C,
         NEW r \in Expected(Ams \ D) \cup {Reading(s, b) : b \in ChannelsAt(s) \ C}
  PROVE  r.id # Id(Node[slot[s]], c)
<1>a. \E t \in Ams : \E b \in ChannelsAt(t) : r = Reading(t, b) /\ (t # s \/ b # c)
  <2>1. CASE r \in Expected(Ams \ D)
    BY <2>1 DEF Expected
  <2>2. CASE r \in {Reading(s, b) : b \in ChannelsAt(s) \ C}
    BY <2>2
  <2> QED BY <2>1, <2>2
<1>b. PICK t \in Ams : \E b \in ChannelsAt(t) : r = Reading(t, b) /\ (t # s \/ b # c)
  BY <1>a
<1>1. PICK b \in ChannelsAt(t) : r = Reading(t, b) /\ (t # s \/ b # c)
  BY <1>b
<1>2. r.id = Id(Node[slot[t]], b)
  BY <1>1, Zenon DEF Reading
<1>3. /\ Node[slot[t]] \in Nat /\ Node[slot[s]] \in Nat /\ b \in 1..99 /\ c \in 1..99
      /\ slot[s] \in Devices /\ slot[t] \in Devices /\ slot[s] # None /\ s \in Slots /\ t \in Slots /\ Node[slot[s]] # 0
  BY AmsFacts
<1>4. ASSUME Node[slot[t]] = Node[slot[s]] PROVE t = s
  <2>1. slot[s] = slot[t]
    BY <1>3, <1>4, SysmonAssumption
  <2> QED BY <1>3, <2>1 DEF SlotsOnce
<1>5. ASSUME r.id = Id(Node[slot[s]], c) PROVE FALSE
  <2>1. Id(Node[slot[t]], b) = Id(Node[slot[s]], c)
    BY <1>2, <1>5
  <2>2. Node[slot[t]] = Node[slot[s]] /\ b = c
    <3> DEFINE m == Node[slot[t]]  n == Node[slot[s]]
    <3>1. m \in Nat /\ n \in Nat /\ b \in 1..99 /\ c \in 1..99
      BY <1>3
    <3>2. 100 * m + b = 100 * n + c
      BY <2>1 DEF Id
    <3> HIDE DEF m, n
    <3>3. ~(m < n) /\ ~(n < m)
      BY <3>1, <3>2
    <3>4. m = n /\ b = c
      BY <3>1, <3>2, <3>3
    <3> QED BY <3>4 DEF m, n
  <2> QED BY <1>1, <1>4, <2>2
<1> QED BY <1>5

LEMMA AppendFacts ==
  ASSUME NEW rs \in Readings, NEW r \in Item
  PROVE  /\ Range(Append(rs, r)) = Range(rs) \cup {r}
         /\ Distinct(rs) /\ (\A x \in Range(rs) : x.id # r.id) => Distinct(Append(rs, r))
<1> DEFINE n == Len(rs)  ss == Append(rs, r)
<1>1. n \in Nat /\ DOMAIN rs = 1..n
  BY ReadingsFacts
<1>2. /\ DOMAIN ss = 1..(n + 1) /\ ss[n + 1] = r
      /\ \A i \in 1..n : ss[i] = rs[i]
  BY DEF Readings
<1>3. 1..(n + 1) = (1..n) \cup {n + 1}
  BY <1>1
<1>4. Range(ss) = Range(rs) \cup {r}
  BY <1>1, <1>2, <1>3 DEF Range
<1>5. ASSUME Distinct(rs), \A x \in Range(rs) : x.id # r.id PROVE Distinct(ss)
  <2>1. \A i \in 1..n : rs[i].id # r.id
    BY <1>1, <1>5 DEF Range
  <2> QED BY <1>1, <1>2, <1>3, <1>5, <2>1 DEF Distinct
<1> QED BY <1>4, <1>5

LEMMA GoStep ==
  ASSUME SnapshotInv, phase \in InDevice, NEW place \in Busy, NEW k, NEW r, NEW s, Go(place, k, r, s),
         still => Locals'
  PROVE  SlotsOnce' /\ Silent' /\ OkHasValues' /\ Truthful'
<1>1. phase' = place /\ UNCHANGED <<slot, attributes, still, cur, devices, ident, channels, readings, status>>
  BY DEF Go, kernel
<1>2. phase' \in Busy /\ phase' \in InDevice
  BY <1>1 DEF InDevice
<1>3. /\ SlotsOnce' /\ Ams' = Ams /\ Few' = Few /\ Present' = Present
      /\ \A slots : Expected(slots)' = Expected(slots)
      /\ \A t : ChannelsAt(t)' = ChannelsAt(t)
      /\ \A t, c : Reading(t, c)' = Reading(t, c)
  BY <1>1, SysfsSame DEF SnapshotInv
<1>4. Silent' /\ OkHasValues' /\ Ended'
  BY <1>1, <1>2, Zenon DEF SnapshotInv, Silent, OkHasValues, Ended, InDevice, Busy
<1>5. ASSUME still, Few PROVE InHand' /\ SoFar'
  <2>1. /\ devices \subseteq Present /\ cur \in Present \ devices /\ Driver[slot[cur]]
        /\ cur \in Ams /\ ident = Node[slot[cur]] /\ channels \subseteq ChannelsAt(cur) /\ Distinct(readings)
        /\ Range(readings) = Expected(Ams \ (devices \cup {cur})) \cup {Reading(cur, c) : c \in ChannelsAt(cur) \ channels}
    BY <1>5, Zenon DEF SnapshotInv, Truthful, InHand, SoFar, InDevice, Busy
  <2>2. InHand'
    BY <1>1, <1>2, <1>3, <2>1, Zenon DEF InHand, InDevice, Busy
  <2>3. SoFar'
    BY <1>1, <1>2, <1>3, <2>1, Zenon DEF SoFar, InDevice, Busy
  <2> QED BY <2>2, <2>3
<1> QED BY <1>1, <1>3, <1>4, <1>5 DEF Truthful

LEMMA PushStep ==
  ASSUME SnapshotInv, phase \in InDevice, channels # {}, NEW v \in Int, Push(v),
         still /\ Few => v = Truth(attributes[slot[cur]], slot[cur], Channel)
  PROVE  SlotsOnce' /\ Silent' /\ OkHasValues' /\ Truthful'
<1> DEFINE new == [id |-> Id(ident, Channel), value |-> v]
<1>1. /\ phase' = "label" /\ readings' = Append(readings, new) /\ channels' = channels \ {Channel}
      /\ UNCHANGED <<slot, attributes, still, cur, devices, ident, status>>
  BY Zenon DEF Push, kernel
<1>2. /\ SlotsOnce' /\ Ams' = Ams /\ Few' = Few /\ Present' = Present
      /\ \A slots : Expected(slots)' = Expected(slots)
      /\ \A t : ChannelsAt(t)' = ChannelsAt(t)
      /\ \A t, c : Reading(t, c)' = Reading(t, c)
  BY <1>1, SysfsSame, Zenon DEF SnapshotInv
<1>3. Silent'
  BY <1>1, Zenon DEF SnapshotInv, Silent, InDevice, Busy
<1>4. Channel \in channels /\ Channel \in 1..99
  BY ChannelType DEF SnapshotInv
<1>5. readings \in Readings /\ new \in Item
  <2>1. readings \in Readings
    BY Zenon DEF SnapshotInv, SysmonTypeOK, Readings, Item
  <2>2. ident \in Nat
    BY Zenon DEF SnapshotInv, SysmonTypeOK
  <2>3. Id(ident, Channel) \in Nat
    BY <1>4, <2>2 DEF Id
  <2> QED BY <2>1, <2>3 DEF Item
<1>6. ASSUME still, Few PROVE InHand' /\ SoFar'
  <2>1. /\ devices \subseteq Present /\ cur \in Present \ devices /\ Driver[slot[cur]]
        /\ cur \in Ams /\ ident = Node[slot[cur]] /\ channels \subseteq ChannelsAt(cur) /\ Distinct(readings)
        /\ Range(readings) = Expected(Ams \ (devices \cup {cur})) \cup {Reading(cur, c) : c \in ChannelsAt(cur) \ channels}
    BY <1>6, Zenon DEF SnapshotInv, Truthful, InHand, SoFar, InDevice, Busy
  <2>2. new = Reading(cur, Channel)
    BY <1>6, <2>1, Zenon DEF Reading
  <2>3. \A r \in Range(readings) : r.id # new.id
    <3>1. SysmonTypeOK /\ SlotsOnce /\ Channel \in ChannelsAt(cur) /\ cur \in devices \cup {cur}
      BY <1>4, <2>1, Zenon DEF SnapshotInv
    <3>2. new.id = Id(Node[slot[cur]], Channel)
      BY <2>1, Zenon
    <3> QED BY <1>4, <2>1, <3>1, <3>2, ReadingNew, Zenon
  <2>4. Range(readings') = Range(readings) \cup {Reading(cur, Channel)} /\ Distinct(readings')
    BY <1>1, <1>5, <2>1, <2>2, <2>3, AppendFacts, Zenon
  <2>5. ChannelsAt(cur) \ channels' = (ChannelsAt(cur) \ channels) \cup {Channel}
    BY <1>1, <1>4, <2>1, Zenon
  <2>6. Range(readings') = Expected(Ams \ (devices \cup {cur})) \cup {Reading(cur, c) : c \in ChannelsAt(cur) \ channels'}
    BY <2>1, <2>4, <2>5
  <2>7. InHand'
    BY <1>1, <1>2, <2>1, Zenon DEF InHand, InDevice, Busy
  <2>8. SoFar'
    <3> HIDE DEF new
    <3>1. Range(readings)' = Range(readings') /\ Distinct(readings)'
      BY <2>4, Zenon DEF Distinct
    <3> QED BY <1>1, <1>2, <2>6, <3>1, Zenon DEF SoFar, InDevice, Busy
  <2> QED BY <2>7, <2>8
<1> QED BY <1>1, <1>2, <1>3, <1>6, Outside, Zenon DEF Truthful

\* What the locals hold is what Truth asks for.
LEMMA TruthFacts ==
  ASSUME SysmonTypeOK, There # None
  PROVE  LET T == Truth(attributes[slot[cur]], slot[cur], Channel) IN
         /\ Has(<<Channel, "input">>) =>
              T = IF Number(<<Channel, "input">>) = Bad THEN Unknown ELSE Number(<<Channel, "input">>)
         /\ ~Has(<<Channel, "input">>) =>
              /\ Number(<<Channel, "raw">>) = Bad => T = Unknown
              /\ Number(Attribute("scale")) = Bad => T = Unknown
              /\ Has(Attribute("offset")) /\ Number(Attribute("offset")) = Bad => T = Unknown
              /\ Number(<<Channel, "raw">>) # Bad /\ Number(Attribute("scale")) # Bad =>
                   /\ ~Has(Attribute("offset")) =>
                        T = IF Number(Attribute("scale")) <= 0 THEN Unknown
                            ELSE (Number(<<Channel, "raw">>) + 0) * Number(Attribute("scale"))
                   /\ Has(Attribute("offset")) /\ Number(Attribute("offset")) # Bad =>
                        T = IF Number(Attribute("scale")) <= 0 THEN Unknown
                            ELSE (Number(<<Channel, "raw">>) + Number(Attribute("offset"))) * Number(Attribute("scale"))
<1> DEFINE fs == attributes[slot[cur]]  d == slot[cur]  c == Channel
           T == Truth(fs, d, c)
           Own(x) == IF <<c, x>> \in fs THEN Value[d][<<c, x>>] ELSE Bad
           Shared(x, default) == IF <<c, x>> \in fs THEN Value[d][<<c, x>>]
                                 ELSE IF <<0, x>> \in fs THEN Value[d][<<0, x>>] ELSE default
           R == Own("raw")  F == Shared("scale", Bad)  O == Shared("offset", 0)
<1>1. \A k : Has(k) = (k \in fs) /\ Number(k) = IF k \in fs THEN Value[d][k] ELSE Bad
  BY DEF Has, Number, There
<1>2. T = IF <<c, "input">> \in fs THEN (IF Own("input") = Bad THEN Unknown ELSE Own("input"))
          ELSE IF R = Bad \/ F = Bad \/ O = Bad \/ F <= 0 THEN Unknown ELSE (R + O) * F
  BY Zenon DEF Truth
<1>3. \A x : /\ Number(<<c, x>>) = Own(x)
             /\ Number(Attribute(x)) = Shared(x, Bad)
             /\ Has(Attribute(x)) => Number(Attribute(x)) = Shared(x, 0)
             /\ ~Has(Attribute(x)) => Shared(x, 0) = 0
  BY <1>1, Zenon DEF Attribute
<1>4. Has(<<c, "input">>) = (<<c, "input">> \in fs)
  BY <1>1
<1>5. Bad # 0
  BY SysmonAssumption
<1> HIDE DEF T, Own, Shared, fs, d, c
<1> DEFINE S == Number(Attribute("scale"))  W == Number(<<Channel, "raw">>)
           A == Attribute("offset")  I == Number(<<Channel, "input">>)
<1>6. R = W /\ F = S /\ Own("input") = I /\ (Has(A) => O = Number(A)) /\ (~Has(A) => O = 0)
  BY <1>3 DEF c
<1>7. Has(<<Channel, "input">>) => T = IF I = Bad THEN Unknown ELSE I
  BY <1>2, <1>4, <1>6, Zenon DEF c
<1>8. ~Has(<<Channel, "input">>) =>
        T = IF W = Bad \/ S = Bad \/ O = Bad \/ S <= 0 THEN Unknown ELSE (W + O) * S
  BY <1>2, <1>4, <1>6, Zenon DEF c
<1> HIDE DEF S, W, A, I, R, F, O
<1>9. ~Has(<<Channel, "input">>) =>
        /\ W = Bad => T = Unknown
        /\ S = Bad => T = Unknown
        /\ Has(A) /\ Number(A) = Bad => T = Unknown
        /\ W # Bad /\ S # Bad =>
             /\ ~Has(A) => T = IF S <= 0 THEN Unknown ELSE (W + 0) * S
             /\ Has(A) /\ Number(A) # Bad => T = IF S <= 0 THEN Unknown ELSE (W + Number(A)) * S
  BY <1>5, <1>6, <1>8
<1> QED BY <1>7, <1>9, Zenon DEF S, W, A, I, T, fs, d, c

LEMMA SamplingStep ==
  ASSUME SnapshotInv,
         \/ CheckLabel \/ ReadLabel \/ CheckInput \/ ReadInput \/ ReadRaw
         \/ FindScale \/ ReadScale \/ FindOffset \/ CheckOffset \/ ReadOffset
  PROVE  SlotsOnce' /\ Silent' /\ OkHasValues' /\ Truthful'
<1> DEFINE Goal == SlotsOnce' /\ Silent' /\ OkHasValues' /\ Truthful'
           T == Truth(attributes[slot[cur]], slot[cur], Channel)
           In == <<Channel, "input">>  Raw == <<Channel, "raw">>
<1>1. SysmonTypeOK /\ HasChannel /\ (still => Locals)
  BY DEF SnapshotInv, Truthful
<1>2. channels # {} /\ phase \in InDevice
  BY <1>1, SampleStepType
<1>3. still /\ Few => There # None
  BY <1>2 DEF SnapshotInv, Truthful, InHand, Ams, There
<1>4. /\ Bad \in Int /\ Unknown \in Int /\ raw \in Int /\ scale \in Int
      /\ \A k : Number(k) \in Int
  <2>1. Bad \in Int
    BY SysmonAssumption
  <2>2. Unknown \in Int
    BY <2>1 DEF Unknown
  <2>3. raw \in Int /\ scale \in Int
    BY <1>1, Zenon DEF SysmonTypeOK
  <2>4. \A k : Number(k) \in Int
    BY <1>1, AccessType
  <2> QED BY <2>1, <2>2, <2>3, <2>4
<1>5. \A o \in Int : Convert(o) \in Int
  BY <1>4 DEF Convert
<1>6. ASSUME NEW place \in Busy, NEW k, NEW r, NEW s, Go(place, k, r, s)
      PROVE  /\ (still => Locals') => Goal
             /\ phase' = place /\ key' = k /\ raw' = r /\ scale' = s /\ Channel' = Channel
             /\ \A q : Has(q)' = Has(q) /\ Number(q)' = Number(q)
             /\ \A x : Attribute(x)' = Attribute(x)
  <2>1. (still => Locals') => Goal
    BY <1>2, <1>6, GoStep
  <2>2. UNCHANGED <<slot, attributes, cur, channels>>
    BY <1>6 DEF Go, kernel
  <2> QED BY <1>6, <2>1, <2>2, LocalsSame DEF Go
<1>7. ASSUME NEW v \in Int, Push(v), still /\ Few => v = T PROVE Goal
  BY <1>2, <1>7, PushStep
<1> SUFFICES Goal
  OBVIOUS
<1> HIDE DEF Goal, T
<1>8. CASE CheckLabel \/ ReadLabel \/ CheckInput
  <2>1. CASE Go("read label", key, raw, scale) /\ Has(<<Channel, "label">>)
    <3>1. "read label" \in Busy
      BY DEF Busy
    <3>2. phase' = "read label" /\ Channel' = Channel /\ Has(<<Channel, "label">>)' /\ ((still => Locals') => Goal)
      BY <1>6, <2>1, <3>1, Zenon
    <3> QED BY <3>2, Zenon DEF Locals
  <2>2. CASE Go("input", key, raw, scale)
    <3>1. "input" \in Busy
      BY DEF Busy
    <3>2. phase' = "input" /\ ((still => Locals') => Goal)
      BY <1>6, <2>2, <3>1, Zenon
    <3> QED BY <3>2 DEF Locals
  <2>3. CASE Go("read input", key, raw, scale) /\ Has(In)
    <3>1. "read input" \in Busy
      BY DEF Busy
    <3>2. phase' = "read input" /\ Has(<<Channel, "input">>)' /\ ((still => Locals') => Goal)
      BY <1>6, <2>3, <3>1, Zenon
    <3> QED BY <3>2, Zenon DEF Locals
  <2>4. CASE Go("raw", key, raw, scale) /\ ~Has(In)
    <3>1. "raw" \in Busy
      BY DEF Busy
    <3>2. phase' = "raw" /\ ~Has(<<Channel, "input">>)' /\ ((still => Locals') => Goal)
      BY <1>6, <2>4, <3>1, Zenon
    <3> QED BY <3>2 DEF Locals
  <2>5. CASE Push(Unknown) /\ phase = "read label" /\ ~Has(<<Channel, "label">>)
    <3>1. ~still
      BY <1>1, <2>5, Zenon DEF Locals
    <3> QED BY <1>4, <1>7, <2>5, <3>1, Zenon
  <2> QED BY <1>8, <2>1, <2>2, <2>3, <2>4, <2>5, Zenon DEF CheckLabel, ReadLabel, CheckInput
<1>9. CASE ReadInput
  <2> DEFINE v == IF Number(In) = Bad THEN Unknown ELSE Number(In)
  <2>1. Push(v) /\ phase = "read input" /\ v \in Int
    BY <1>4, <1>9, Zenon DEF ReadInput
  <2>2. still /\ Few => v = T
    BY <1>1, <1>3, <2>1, TruthFacts, Zenon DEF Locals, T
  <2> HIDE DEF v
  <2> QED BY <1>7, <2>1, <2>2, Zenon
<1>10. CASE ReadRaw
  <2>1. phase = "raw" /\ (still => ~Has(In))
    BY <1>1, <1>10 DEF ReadRaw, Locals
  <2>2. CASE Number(Raw) = Bad
    <3>1. Push(Unknown)
      BY <1>10, <2>2 DEF ReadRaw
    <3>2. still /\ Few => Unknown = T
      BY <1>1, <1>3, <2>1, <2>2, TruthFacts, Zenon DEF T
    <3> QED BY <1>4, <1>7, <3>1, <3>2
  <2>3. CASE Number(Raw) # Bad
    <3>1. Go("scale", key, Number(Raw), scale) /\ "scale" \in Busy
      BY <1>10, <2>3 DEF ReadRaw, Busy
    <3>2. /\ phase' = "scale" /\ raw' = Number(Raw)' /\ raw' # Bad /\ Raw' = Raw /\ ((still => Locals') => Goal)
          /\ still => ~Has(In)'
      BY <1>6, <2>1, <2>3, <3>1
    <3>3. still => Locals'
      BY <3>2 DEF Locals
    <3> QED BY <3>2, <3>3
  <2> QED BY <2>2, <2>3
<1>11. CASE FindScale
  <2>1. phase = "scale" /\ Go("read scale", Attribute("scale"), raw, scale) /\ "read scale" \in Busy
    BY <1>11, Zenon DEF FindScale, Busy
  <2>2. still => ~Has(In) /\ raw = Number(Raw) /\ raw # Bad
    BY <1>1, <2>1, Zenon DEF Locals
  <2>3. /\ phase' = "read scale" /\ raw' = raw /\ key' = Attribute("scale")' /\ ((still => Locals') => Goal)
        /\ Number(Raw)' = Number(Raw) /\ Has(In)' = Has(In)
    BY <1>6, <2>1, Zenon
  <2>4. still => Locals'
    BY <2>2, <2>3, Zenon DEF Locals
  <2> QED BY <2>3, <2>4, Zenon
<1>12. CASE ReadScale
  <2>1. phase = "read scale" /\ (still => ~Has(In) /\ raw = Number(Raw) /\ raw # Bad /\ key = Attribute("scale"))
    BY <1>1, <1>12, Zenon DEF ReadScale, Locals
  <2>2. CASE Number(key) = Bad
    <3>1. Push(Unknown)
      BY <1>12, <2>2, Zenon DEF ReadScale
    <3>2. still /\ Few => Unknown = T
      BY <1>1, <1>3, <2>1, <2>2, TruthFacts, Zenon DEF T
    <3> QED BY <1>4, <1>7, <3>1, <3>2
  <2>3. CASE Number(key) # Bad
    <3>1. Go("offset", key, raw, Number(key)) /\ "offset" \in Busy
      BY <1>12, <2>3, Zenon DEF ReadScale, Busy
    <3>2. /\ phase' = "offset" /\ raw' = raw /\ scale' = Number(key) /\ ((still => Locals') => Goal)
          /\ Number(Raw)' = Number(Raw) /\ Has(In)' = Has(In) /\ Number(Attribute("scale"))' = Number(Attribute("scale"))
      BY <1>6, <3>1, Zenon
    <3>3. still => Locals'
      BY <2>1, <2>3, <3>2, Zenon DEF Locals
    <3> QED BY <3>2, <3>3
  <2> QED BY <2>2, <2>3
<1>13. CASE FindOffset
  <2>1. phase = "offset" /\ Go("check offset", Attribute("offset"), raw, scale) /\ "check offset" \in Busy
    BY <1>13, Zenon DEF FindOffset, Busy
  <2>2. still => ~Has(In) /\ raw = Number(Raw) /\ raw # Bad /\ scale = Number(Attribute("scale")) /\ scale # Bad
    BY <1>1, <2>1, Zenon DEF Locals
  <2>3. /\ phase' = "check offset" /\ raw' = raw /\ scale' = scale /\ key' = Attribute("offset")' /\ ((still => Locals') => Goal)
        /\ Number(Raw)' = Number(Raw) /\ Has(In)' = Has(In) /\ Number(Attribute("scale"))' = Number(Attribute("scale"))
    BY <1>6, <2>1, Zenon
  <2>4. still => Locals'
    BY <2>2, <2>3, Zenon DEF Locals
  <2> QED BY <2>3, <2>4, Zenon
<1>14. CASE CheckOffset
  <2>1. /\ phase = "check offset"
        /\ still => /\ ~Has(In) /\ raw = Number(Raw) /\ raw # Bad /\ scale = Number(Attribute("scale")) /\ scale # Bad
                    /\ key = Attribute("offset")
    BY <1>1, <1>14, Zenon DEF CheckOffset, Locals
  <2>2. CASE ~Has(key)
    <3>1. Push(Convert(0))
      BY <1>14, <2>2, Zenon DEF CheckOffset
    <3>2. still /\ Few => Convert(0) = T
      BY <1>1, <1>3, <2>1, <2>2, TruthFacts, Zenon DEF T, Convert
    <3>3. Convert(0) \in Int
      BY <1>5
    <3> QED BY <1>7, <3>1, <3>2, <3>3
  <2>3. CASE Has(key)
    <3>1. Go("read offset", key, raw, scale) /\ "read offset" \in Busy
      BY <1>14, <2>3, Zenon DEF CheckOffset, Busy
    <3>2. /\ phase' = "read offset" /\ raw' = raw /\ scale' = scale /\ key' = key /\ ((still => Locals') => Goal)
          /\ Number(Raw)' = Number(Raw) /\ Has(In)' = Has(In) /\ Number(Attribute("scale"))' = Number(Attribute("scale"))
          /\ Attribute("offset")' = Attribute("offset") /\ Has(key)'
      BY <1>6, <2>3, <3>1, Zenon
    <3>3. still => Locals'
      BY <2>1, <3>2, Zenon DEF Locals
    <3> QED BY <3>2, <3>3, Zenon
  <2> QED BY <2>2, <2>3
<1>15. CASE ReadOffset
  <2> DEFINE v == IF Number(key) = Bad THEN Unknown ELSE Convert(Number(key))
  <2>1. /\ phase = "read offset"
        /\ still => /\ ~Has(In) /\ raw = Number(Raw) /\ raw # Bad /\ scale = Number(Attribute("scale")) /\ scale # Bad
                    /\ key = Attribute("offset") /\ Has(key)
    BY <1>1, <1>15, Zenon DEF ReadOffset, Locals
  <2>2. Push(v)
    BY <1>15, Zenon DEF ReadOffset
  <2>3. v \in Int
    BY <1>4, <1>5
  <2>4. still /\ Few => v = T
    BY <1>1, <1>3, <2>1, TruthFacts, Zenon DEF T, Convert
  <2> HIDE DEF v
  <2> QED BY <1>7, <2>2, <2>3, <2>4
<1> QED BY <1>8, <1>9, <1>10, <1>11, <1>12, <1>13, <1>14, <1>15

LEMMA KernelStep ==
  ASSUME SnapshotInv,
         \/ \E d \in Devices : \E k \in attributes[d] : Vanish(d, k)
         \/ \E s \in Slots : Unbind(s) \/ \E d \in Devices : Bind(s, d)
  PROVE  SlotsOnce' /\ Silent' /\ OkHasValues' /\ Truthful'
<1>1. still' = FALSE /\ UNCHANGED <<phase, devices, readings, status>>
  BY Zenon DEF Vanish, Unbind, Bind, Move
<1>2. Silent' /\ OkHasValues' /\ Truthful'
  BY <1>1, Zenon DEF SnapshotInv, Silent, OkHasValues, Truthful
<1>3. slot \in [Slots -> Devices \cup {None}] /\ SlotsOnce
  BY Zenon DEF SnapshotInv, SysmonTypeOK
<1>4. CASE \E d \in Devices : \E k \in attributes[d] : Vanish(d, k)
  <2>1. slot' = slot
    BY <1>4 DEF Vanish
  <2> QED BY <1>2, <1>3, <2>1 DEF SlotsOnce
<1>5. ASSUME NEW s \in Slots, Unbind(s) PROVE SlotsOnce'
  <2>1. slot' = [slot EXCEPT ![s] = None]
    BY <1>5 DEF Unbind
  <2> QED BY <1>3, <2>1, Zenon DEF SlotsOnce
<1>6. ASSUME NEW s \in Slots, NEW d \in Devices, Bind(s, d) PROVE SlotsOnce'
  <2>1. slot' = [slot EXCEPT ![s] = d] /\ \A t \in Slots : slot[t] # d
    BY <1>6 DEF Bind
  <2> QED BY <1>3, <2>1 DEF SlotsOnce
<1> QED BY <1>2, <1>4, <1>5, <1>6

LEMMA SnapshotInit == SysmonInit => SnapshotInv
<1> SUFFICES ASSUME SysmonInit PROVE SnapshotInv
  OBVIOUS
<1>1. SysmonTypeOK /\ HasChannel
  BY SnapshotTypeInit
<1>2. phase = "idle" /\ readings = <<>> /\ devices = {} /\ status = "unavailable" /\ slot = Bound
  BY DEF SysmonInit
<1>3. SlotsOnce
  BY <1>2, SysmonAssumption DEF SlotsOnce
<1>4. Silent /\ OkHasValues /\ Ended /\ Locals
  BY <1>2 DEF Silent, OkHasValues, Ended, Locals
<1>5. InHand /\ SoFar
  BY <1>2, SMTT(30) DEF InHand, SoFar, InDevice, Busy, Distinct
<1> QED BY <1>1, <1>3, <1>4, <1>5 DEF SnapshotInv, Truthful

LEMMA SnapshotStep == SnapshotInv /\ [SysmonNext]_sysmonVars => SnapshotInv'
<1> SUFFICES ASSUME SnapshotInv, [SysmonNext]_sysmonVars PROVE SnapshotInv'
  OBVIOUS
<1>1. SysmonTypeOK' /\ HasChannel'
  BY SnapshotTypeStep DEF SnapshotInv
<1>2. CASE UNCHANGED sysmonVars
  <2>1. /\ UNCHANGED <<slot, attributes, still, phase, cur, devices, ident, channels, key, raw, scale, readings, status>>
    BY <1>2 DEF sysmonVars, kernel
  <2>2. /\ SlotsOnce' = SlotsOnce /\ Ams' = Ams /\ Few' = Few /\ Present' = Present
        /\ \A slots : Expected(slots)' = Expected(slots)
        /\ \A t : ChannelsAt(t)' = ChannelsAt(t)
        /\ \A t, c : Reading(t, c)' = Reading(t, c)
    BY <2>1, SysfsSame
  <2>3. Silent' = Silent /\ OkHasValues' = OkHasValues
    BY <2>1 DEF Silent, OkHasValues
  <2>4. InHand' = InHand
    BY <2>1, <2>2 DEF InHand
  <2>5. SoFar' = SoFar
    BY <2>1, <2>2 DEF SoFar, Distinct
  <2>6. Ended' = Ended
    BY <2>1, <2>2 DEF Ended
  <2>7. Locals' = Locals
    <3>1. /\ There' = There /\ Channel' = Channel
          /\ \A k : Has(k)' = Has(k) /\ Number(k)' = Number(k)
          /\ \A x : Attribute(x)' = Attribute(x)
      BY <2>1, LocalsSame
    <3> QED BY <2>1, <3>1, Zenon DEF Locals
  <2> QED BY <1>1, <2>1, <2>2, <2>3, <2>4, <2>5, <2>6, <2>7 DEF SnapshotInv, Truthful
<1>3. CASE SysmonNext
  <2>1. CASE ReadSnapshot \/ Unsupported
    BY <1>1, <2>1, ReadSnapshotStep DEF SnapshotInv
  <2>2. CASE List
    BY <1>1, <2>2, ListStep DEF SnapshotInv
  <2>3. CASE Finish
    BY <1>1, <2>3, FinishStep DEF SnapshotInv
  <2>4. CASE ReadName
    BY <1>1, <2>4, ReadNameStep DEF SnapshotInv
  <2>5. CASE ReadCompatible \/ ReadCanonical
    BY <1>1, <2>5, IdentifyStep DEF SnapshotInv
  <2>6. CASE Sample
    BY <1>1, <2>6, SampleStep DEF SnapshotInv
  <2>7. CASE NoChannel
    BY <1>1, <2>7, NoChannelStep DEF SnapshotInv
  <2>8. CASE \/ CheckLabel \/ ReadLabel \/ CheckInput \/ ReadInput \/ ReadRaw
             \/ FindScale \/ ReadScale \/ FindOffset \/ CheckOffset \/ ReadOffset
    BY <1>1, <2>8, SamplingStep DEF SnapshotInv
  <2>9. CASE \/ \E d \in Devices : \E k \in attributes[d] : Vanish(d, k)
             \/ \E s \in Slots : Unbind(s) \/ \E d \in Devices : Bind(s, d)
    BY <1>1, <2>9, KernelStep DEF SnapshotInv
  <2> QED BY <1>3, <2>1, <2>2, <2>3, <2>4, <2>5, <2>6, <2>7, <2>8, <2>9 DEF SysmonNext, Monitor
<1> QED BY <1>2, <1>3

-----------------------------------------------------------------------------
(* "ok" is said of a whole scan.                                           *)

\* While sysfs is still: what the scan has passed can be read, and so can the
\* device in hand as far as it was looked at.
Passed(left) == \A s \in Present \ left : Legible(s)
Scanned ==
  still =>
    /\ phase \notin {"idle", "list", "done"} => Cardinality(Present) <= MaxDevices
    /\ phase = "name" => Passed(devices)
    /\ phase \in Sampling => Passed(devices \cup {cur})
    /\ phase \in Sampling \ {"compatible"} => slot[cur] \notin Nodeless
    /\ phase \in InDevice => Cardinality(Listed(attributes[slot[cur]])) <= MaxChannels
    /\ phase = "done" /\ status = "ok" => Few

LEMMA ScannedInit == SysmonInit => Scanned
BY DEF SysmonInit, Scanned, Sampling, InDevice, Busy

LEMMA ScannedThrow ==
  ASSUME Throw
  PROVE  Scanned'
<1>1. phase' = "done" /\ status' # "ok"
  BY DEF Throw
<1> QED BY <1>1 DEF Scanned, Sampling, InDevice, Busy

\* sampleDevice() works on the device in hand.
LEMMA ScannedInside ==
  ASSUME Scanned, phase \in InDevice, phase' \in InDevice, UNCHANGED <<slot, attributes, still, cur, devices>>
  PROVE  Scanned'
<1>1. InDevice \subseteq Sampling \ {"compatible"} /\ InDevice \cap {"idle", "list", "name", "done"} = {}
  BY DEF InDevice, Busy, Sampling
<1>2. Present' = Present /\ \A left : Passed(left)' = Passed(left)
  BY DEF Present, Passed, Legible
<1> QED BY <1>1, <1>2 DEF Scanned

LEMMA ScannedStep == SysmonTypeOK /\ HasChannel /\ Scanned /\ [SysmonNext]_sysmonVars => Scanned'
<1> SUFFICES ASSUME SysmonTypeOK, HasChannel, Scanned, [SysmonNext]_sysmonVars PROVE Scanned'
  OBVIOUS
<1> USE DEF kernel
<1>a. /\ InDevice \subseteq Sampling \ {"compatible"} /\ InDevice \cap {"idle", "list", "name", "done"} = {}
      /\ Sampling \cap {"idle", "list", "name", "done"} = {}
      /\ {"compatible", "canonical", "sample", "label"} \subseteq Sampling /\ "label" \in InDevice
      /\ InDevice \cap {"compatible", "canonical", "sample"} = {}
  BY DEF InDevice, Busy, Sampling
<1>b. ASSUME UNCHANGED <<slot, attributes>>
      PROVE  /\ Present' = Present /\ Few' = Few /\ \A left : Passed(left)' = Passed(left)
             /\ Cardinality(Present)' = Cardinality(Present)
  BY <1>b DEF Present, Passed, Legible, Few
<1>1. CASE ReadSnapshot \/ Unsupported
  <2>1. phase' \in {"list", "done"} /\ (phase' = "done" => status' # "ok")
    BY <1>1 DEF ReadSnapshot, Unsupported
  <2> QED BY <1>a, <2>1 DEF Scanned
<1>2. CASE List
  <2>1. CASE ~Throw
    <3>1. /\ Cardinality(Present) <= MaxDevices /\ phase' = "name" /\ devices' = Present
          /\ UNCHANGED <<slot, attributes, still>>
      BY <1>2, <2>1 DEF List
    <3>2. Passed(devices)'
      BY <1>b, <3>1 DEF Passed
    <3> QED BY <1>a, <1>b, <3>1, <3>2 DEF Scanned
  <2> QED BY <2>1, ScannedThrow
<1>3. CASE Finish
  <2>1. phase = "name" /\ devices = {} /\ phase' = "done" /\ UNCHANGED <<slot, attributes, still>>
    BY <1>3 DEF Finish
  <2>2. still => Few
    BY <2>1 DEF Scanned, Passed, Few
  <2> QED BY <1>a, <1>b, <2>1, <2>2 DEF Scanned
<1>4. CASE ReadName
  <2>1. /\ phase = "name" /\ devices' = devices \ {cur'} /\ UNCHANGED <<slot, attributes, still>>
        /\ (phase' = "compatible" \/ (phase' = "name" /\ ~IsAms(cur')))
    BY <1>4 DEF ReadName
  <2>2. still => Passed(devices) /\ Cardinality(Present) <= MaxDevices
    BY <2>1 DEF Scanned
  <2>3. CASE phase' = "compatible"
    <3>1. still => Passed(devices' \cup {cur'})
      BY <2>1, <2>2 DEF Passed
    <3>2. still' => Passed(devices \cup {cur})'
      BY <1>b, <2>1, <3>1
    <3> QED BY <1>a, <1>b, <2>1, <2>2, <2>3, <3>2 DEF Scanned
  <2>4. CASE phase' = "name" /\ ~IsAms(cur')
    <3>1. cur' \in Present => Legible(cur')
      BY <2>4 DEF IsAms, Legible, Present
    <3>2. still => Passed(devices')
      BY <2>1, <2>2, <3>1 DEF Passed
    <3>3. still' => Passed(devices)'
      BY <1>b, <2>1, <3>2
    <3> QED BY <1>a, <1>b, <2>1, <2>2, <2>4, <3>3 DEF Scanned
  <2> QED BY <2>1, <2>3, <2>4
<1>5. CASE ReadCompatible \/ ReadCanonical
  <2>1. CASE ~Throw
    <3>1. /\ phase \in {"compatible", "canonical"} /\ UNCHANGED <<slot, attributes, still, cur, devices>>
          /\ phase = "compatible" => slot[cur] \notin Nodeless
          /\ \/ phase' \in {"canonical", "sample"}
             \/ phase' = "name" /\ (Node[slot[cur]] = 0 \/ Node[slot[cur]] \notin Selected)
      BY <1>5, <2>1 DEF ReadCompatible, ReadCanonical, There
    <3>2. still => Passed(devices \cup {cur}) /\ Cardinality(Present) <= MaxDevices /\ slot[cur] \notin Nodeless
      BY <1>a, <3>1 DEF Scanned
    <3>3. CASE phase' \in {"canonical", "sample"}
      BY <1>a, <1>b, <3>1, <3>2, <3>3 DEF Scanned
    <3>4. CASE phase' = "name" /\ (Node[slot[cur]] = 0 \/ Node[slot[cur]] \notin Selected)
      <4>1. still => Legible(cur)
        BY <3>2, <3>4, SysmonAssumption DEF Legible
      <4>2. still => Passed(devices)
        BY <3>2, <4>1 DEF Passed
      <4> QED BY <1>a, <1>b, <3>1, <3>2, <3>4, <4>2 DEF Scanned
    <3> QED BY <3>1, <3>3, <3>4
  <2> QED BY <2>1, ScannedThrow
<1>6. CASE Sample
  <2>1. CASE ~Throw
    <3>1. /\ phase = "sample" /\ phase' = "label" /\ UNCHANGED <<slot, attributes, still, cur, devices>>
          /\ Cardinality(Listed(attributes[slot[cur]])) <= MaxChannels
      BY <1>6, <2>1 DEF Sample, Enumerable, There
    <3>2. still => Passed(devices \cup {cur}) /\ Cardinality(Present) <= MaxDevices /\ slot[cur] \notin Nodeless
      BY <1>a, <3>1 DEF Scanned
    <3> QED BY <1>a, <1>b, <3>1, <3>2 DEF Scanned
  <2> QED BY <2>1, ScannedThrow
<1>7. CASE NoChannel
  <2>1. phase = "label" /\ phase' = "name" /\ UNCHANGED <<slot, attributes, still, cur, devices>>
    BY <1>7 DEF NoChannel
  <2>2. still => /\ Passed(devices \cup {cur}) /\ Cardinality(Present) <= MaxDevices /\ slot[cur] \notin Nodeless
                 /\ Cardinality(Listed(attributes[slot[cur]])) <= MaxChannels
    BY <1>a, <2>1 DEF Scanned
  <2>3. still => Passed(devices)
    BY <2>2 DEF Passed, Legible
  <2> QED BY <1>a, <1>b, <2>1, <2>2, <2>3 DEF Scanned
<1>8. CASE \/ CheckLabel \/ ReadLabel \/ CheckInput \/ ReadInput \/ ReadRaw
           \/ FindScale \/ ReadScale \/ FindOffset \/ CheckOffset \/ ReadOffset
  <2>1. phase \in InDevice
    BY <1>8, SampleStepType
  <2>2. phase' \in InDevice /\ UNCHANGED <<slot, attributes, still, cur, devices>>
    BY <1>8, Zenon DEF CheckLabel, ReadLabel, CheckInput, ReadInput, ReadRaw, FindScale, ReadScale, FindOffset,
       CheckOffset, ReadOffset, Go, Push, InDevice, Busy
  <2> QED BY <2>1, <2>2, ScannedInside
<1>9. CASE \/ \E d \in Devices : \E k \in attributes[d] : Vanish(d, k)
           \/ \E s \in Slots : Unbind(s) \/ \E d \in Devices : Bind(s, d)
  <2>1. still' = FALSE
    BY <1>9, Zenon DEF Vanish, Unbind, Bind, Move
  <2> QED BY <2>1 DEF Scanned
<1>10. CASE UNCHANGED sysmonVars
  <2>1. UNCHANGED <<slot, attributes, still, phase, cur, devices, status>>
    BY <1>10 DEF sysmonVars
  <2> QED BY <1>b, <2>1 DEF Scanned
<1> QED BY <1>1, <1>2, <1>3, <1>4, <1>5, <1>6, <1>7, <1>8, <1>9, <1>10 DEF SysmonNext, Monitor

\* readSnapshot() tells the truth whatever the devices, their files and their
\* values are: while sysfs is still, and nothing ends the scan, the snapshot has the
\* reading of each channel of each selected AMS device once, in the order of their
\* ids, and nothing else; and its status is "ok" only if it has a reading, every
\* reading has a value, whatever the kernel did, and a still scan was whole.
THEOREM HonestSnapshotAlways == SysmonSpec => []HonestSnapshot
<1>1. SnapshotInv /\ Scanned => HonestSnapshot
  <2>1. SnapshotInv /\ Scanned => OkIsComplete
    BY DEF SnapshotInv, Scanned, OkHasValues, OkIsComplete
  <2>2. ASSUME SnapshotInv, phase = "done", still, status # "unsupported", Few
        PROVE  /\ Range(readings) = Expected(Ams)
               /\ \A i, j \in DOMAIN readings : i < j => readings[i].id < readings[j].id
    BY <2>2 DEF SnapshotInv, Truthful, Ended
  <2>3. SnapshotInv => StillSnapshot
    BY <2>2 DEF StillSnapshot, Expected, ChannelsAt
  <2> QED BY <2>1, <2>3 DEF HonestSnapshot
<1>2. SnapshotInv /\ Scanned /\ [SysmonNext]_sysmonVars => Scanned'
  BY ScannedStep DEF SnapshotInv
<1> QED BY <1>1, <1>2, SnapshotInit, SnapshotStep, ScannedInit, PTL DEF SysmonSpec

=============================================================================
