------------------------------ MODULE AddressRules ------------------------------
(***************************************************************************)
(* The textual and numeric rules of mnc/system/validation.cpp, each next   *)
(* to a reference definition: which texts validNtpServer() accepts and     *)
(* which static IPv4 settings validateNetwork() accepts.                   *)
(*                                                                         *)
(* A text is the sequence of its fields between separators (<<"">> is the  *)
(* empty text); a field is known by the only thing the code asks of it.    *)
(* Between colons: "word" (1 to 4 hex digits), "v4" (a dotted address),    *)
(* "" and "bad".  Between dots: "number" (0 to 255, no leading zero),      *)
(* "digits" (any other digits), "label", "" and "bad".  The limit of 253   *)
(* characters on the whole is left out.  An address has Width bits, 32 in  *)
(* the code; First(a) stands for its first octet.                          *)
(***************************************************************************)
EXTENDS Integers, Sequences, SequencesExt, FiniteSetsExt, Bitwise

CONSTANTS
  MaxFields,  \* bound: fields of a text, by separator
  Width, FirstBits,
  Loopback, Multicast  \* 127 and 224 in the code

VARIABLES kind, text, prefix, address, gateway  \* the input looked at
addressVars == <<kind, text, prefix, address, gateway>>

NoGateway == -1
FieldsOf == [x \in {":", "."} |->
               IF x = ":" THEN {"", "word", "v4", "bad"} ELSE {"", "number", "digits", "label", "bad"}]

AddressInit ==
  \/ kind \in {":", "."} /\ text \in {<<f>> : f \in FieldsOf[kind]} /\ prefix = 1 /\ address = 0 /\ gateway = NoGateway
  \/ /\ kind = "static" /\ text = <<>> /\ prefix \in 0..(Width + 1)
     /\ address \in 0..(2^Width - 1) /\ gateway \in {NoGateway} \cup 0..(2^Width - 1)

\* The next longer texts, with at most one bad field (a bound).
AddressNext ==
  /\ kind # "static" /\ Len(text) < MaxFields[kind]
  /\ \E f \in FieldsOf[kind] \ (ToSet(text) \cap {"bad"}) : text' = Append(text, f)
  /\ UNCHANGED <<kind, prefix, address, gateway>>
AddressSpec == AddressInit /\ [][AddressNext]_addressVars

-----------------------------------------------------------------------------
(* validNtpServer().                                                        *)

decimalAddress(fs) ==
  \A i \in 1..4 : i <= Len(fs) /\ fs[i] = "number" /\ (i = 4) = (i = Len(fs))

\* count(): the groups of a part, -1 if it is not well formed.
RECURSIVE Words(_, _, _)
Words(fs, words, allowV4) ==
  CASE fs = <<"">> -> words
    [] Head(fs) = "v4" -> IF allowV4 /\ Len(fs) = 1 THEN words + 2 ELSE -1
    [] fs # <<"">> /\ Head(fs) \in {"", "bad"} -> -1
    [] Head(fs) = "word" ->
         IF Len(fs) = 1 THEN words + 1
         ELSE IF Tail(fs) = <<"">> THEN -1 ELSE Words(Tail(fs), words + 1, allowV4)
count(fs, allowV4) == Words(fs, 0, allowV4)

\* find("::"): an empty field between two colons.
Compressions(fs) == {i \in 2..(Len(fs) - 1) : fs[i] = ""}
\* bug: "::" may stand for no group at all.
RoomBug(groups) == groups <= 8
Room(groups) == groups < 8
ipv6(fs) ==
  IF Compressions(fs) = {} THEN count(fs, TRUE) = 8
  ELSE LET c == Min(Compressions(fs))
           rest == SubSeq(fs, c + 1, Len(fs))
           left == count(SubSeq(fs, 1, c - 1), FALSE)
           right == count(rest, TRUE)
       IN Compressions(rest) = {} /\ left >= 0 /\ right >= 0 /\ Room(left + right)

\* A host name, possibly with a dot at the end.
Label(f) == f \in {"number", "digits", "label"}
hostname(fs) ==
  LET t == IF Last(fs) = "" /\ Len(fs) > 1 THEN Front(fs) ELSE fs IN \A i \in DOMAIN t : Label(t[i])

validNtpServer(sep, fs) ==
  /\ fs # <<"">>
  /\ IF sep = ":" THEN ipv6(fs)
     ELSE IF ToSet(fs) \subseteq {"", "number", "digits"} THEN decimalAddress(fs)
     ELSE hostname(fs)

-----------------------------------------------------------------------------
(* ipv4() and the static branch of validateNetwork().                       *)

First(a) == a \div 2^(Width - FirstBits)
Unicast(a) == First(a) # 0 /\ First(a) < Multicast /\ First(a) # Loopback
All == 2^Width - 1
mask == (All * 2^(Width - prefix)) % 2^Width
Reserved(a) == prefix < Width - 1 /\ (a & (All - mask)) \in {0, All - mask}
validStatic ==
  /\ prefix >= 1 /\ prefix <= Width
  /\ Unicast(address) /\ ~Reserved(address)
  /\ gateway = NoGateway \/ ( /\ Unicast(gateway) /\ gateway # address
                         /\ (gateway & mask) = (address & mask) /\ ~Reserved(gateway) )

-----------------------------------------------------------------------------
(* Properties.                                                              *)

\* The texts of IPv6 addresses: eight groups, the last two possibly as a dotted
\* address, or "::" in the place of one group or more.
Groups(n) == {[i \in 1..n |-> "word"]} \cup
             (IF n < 2 THEN {} ELSE {Append([i \in 1..(n - 2) |-> "word"], "v4")})
OrEmpty(fs) == IF fs = <<>> THEN <<"">> ELSE fs
Ipv6Texts ==
  Groups(8) \cup UNION {{OrEmpty([i \in 1..l |-> "word"]) \o <<"">> \o OrEmpty(r) : r \in Groups(n)} :
                          <<l, n>> \in {x \in (0..7) \X (0..7) : x[1] + x[2] <= 7}}

\* validNtpServer() accepts a text with colons if and only if it is that of an
\* IPv6 address: the scan with its counters and early returns misses none.
Ipv6Exact == kind = ":" /\ Len(text) > 1 => (validNtpServer(":", text) <=> text \in Ipv6Texts)

\* A text without colon is accepted if it is four numbers or a host name that
\* cannot be taken for an address; a dot at the end only ends a host name.
NameOrAddress ==
  kind = "." =>
    (validNtpServer(".", text) <=>
       \/ text = <<"number", "number", "number", "number">>
       \/ /\ "label" \in ToSet(text) /\ "bad" \notin ToSet(text)
          /\ \A i \in DOMAIN text : text[i] = "" => i = Len(text) /\ i > 1)

\* The accepted static settings are those with a prefix of one bit or more where
\* address and gateway are two hosts of one block of 2^(Width - prefix) addresses, none of them its first or
\* last unless the block has at most two: the masks of the code say the same.
OneSubnet ==
  kind = "static" =>
    LET size == 2^(Width - prefix)
        Host(a) == Unicast(a) /\ (size > 2 => a % size \notin {0, size - 1})
    IN validStatic <=> prefix \in 1..Width /\ Host(address) /\ (gateway # NoGateway =>
         Host(gateway) /\ gateway # address /\ gateway \div size = address \div size)

\* validNtpServer() accepts exactly the texts of addresses and host names, and
\* validStatic() exactly the settings that put two hosts on one subnet.
RulesExact == Ipv6Exact /\ NameOrAddress /\ OneSubnet
=============================================================================
