------------------------------- MODULE LogRecords -------------------------------
(***************************************************************************)
(* From a log call to the entry a reader gets: the records of DeveloperLog *)
(* and UserLog (common/mnc/logging/logging.cpp) and their decoding         *)
(* (current_entry() and changed_fields(), journal_reader.cpp).             *)
(*                                                                         *)
(* Abstractions: a string is a sequence of chunks; of a chunk the code     *)
(* looks at the size, at control characters, at whether all are identifier *)
(* characters, and at the number it starts with.  The marks [ ] " and ,    *)
(* are chunks of their own.  The limits on sizes are those of the code; the *)
(* limit on the number of changed fields, 64 there, is MaxNames.           *)
(***************************************************************************)
EXTENDS Integers, Sequences, SequencesExt, Folds

CONSTANTS
  Texts,       \* messages, actors, subjects and request ids
  Codes,       \* event codes, actions and outcomes
  FieldLists,       \* lists of changed fields
  Extras,      \* extra fields of a developer call
  Foreign,     \* records of other programs
  MaxNames     \* the most changed fields of an event

Chunk(id, size, clean, ident, num) ==
  [id |-> id, size |-> size, clean |-> clean, ident |-> ident, num |-> num]
Mark(c) == <<Chunk(c, 1, TRUE, FALSE, -1)>>
Number(n) == <<Chunk("number", 1, TRUE, TRUE, n)>>
Word(id) == <<Chunk(id, 8, TRUE, TRUE, -1)>>
Size(s) == MapThenFoldSet(+, 0, LAMBDA i : s[i].size, LAMBDA S : CHOOSE i \in S : TRUE, DOMAIN s)

VARIABLES
  source,  \* who wrote last: "none", "developer", "user" or "foreign"
  given,   \* what was given to the call
  record   \* the fields that reached the journal, <<>>: none

logVars == <<source, given, record>>

-----------------------------------------------------------------------------
(* Writing.                                                                 *)

Field(n, v) == [name |-> n, value |-> v]

\* valid_field_name(): of the names below, the others begin with _ or are in
\* small letters.
valid_field_name(n) == n \notin {"_PID", "lower"}

\* bug: MNC_LOG_AUDIENCE is not among them.
reservedBug(n) == n \in {"MESSAGE", "PRIORITY", "MNC_COMPONENT", "MNC_EVENT", "CODE_FILE"}
reserved(n) ==
  n \in {"MESSAGE", "PRIORITY", "MNC_COMPONENT", "MNC_MODULE", "MNC_EVENT", "MNC_LOG_AUDIENCE",
         "MNC_EVENT_CATEGORY", "MNC_ACTOR", "MNC_ACTION", "MNC_OUTCOME", "MNC_SUBJECT",
         "MNC_CHANGED_FIELDS", "CODE_FILE", "CODE_LINE", "CODE_FUNC"}

safe_text(s, maximum) == Size(s) <= maximum /\ \A i \in DOMAIN s : s[i].clean

identifier(s) == s # <<>> /\ Size(s) <= 128 /\ \A i \in DOMAIN s : s[i].ident

changed_json(names) ==
  Mark("[") \o FlattenSeq([k \in DOMAIN names |->
                             (IF k = 1 THEN <<>> ELSE Mark(",")) \o Mark("q") \o names[k] \o Mark("q")])
            \o Mark("]")

\* LogBase::emit(); the module is empty, a developer call has a source location.
Optional(n, v) == IF v = <<>> THEN <<>> ELSE <<Field(n, v)>>
emit(audience, priority, message, event, fields) ==
  <<Field("MESSAGE", message), Field("PRIORITY", Number(priority)),
    Field("MNC_COMPONENT", Word("component")), Field("MNC_LOG_AUDIENCE", Word(audience))>>
  \o Optional("MNC_EVENT", event)
  \o (IF audience = "developer" THEN <<Field("CODE_FILE", Word("source"))>> ELSE <<>>)
  \o SelectSeq(fields, LAMBDA f : /\ valid_field_name(f.name)
                                  /\ ~(reserved(f.name) /\ audience = "developer"))

Categories == {Word(c) : c \in {"network", "mqtt", "delivery", "settings", "authentication",
                                "administration", "availability"}}

valid_user_event(e) ==
  /\ identifier(e.code) /\ identifier(e.action) /\ identifier(e.outcome)
  /\ e.category \in Categories
  /\ e.message # <<>> /\ safe_text(e.message, 512)
  /\ safe_text(e.actor, 256) /\ safe_text(e.subject, 256) /\ safe_text(e.request_id, 128)
  /\ Len(e.changed_fields) <= MaxNames
  /\ \A k \in DOMAIN e.changed_fields : identifier(e.changed_fields[k])

user_fields(e) ==
  <<Field("MNC_EVENT_CATEGORY", e.category), Field("MNC_ACTOR", e.actor),
    Field("MNC_ACTION", e.action), Field("MNC_OUTCOME", e.outcome),
    Field("MNC_SUBJECT", e.subject), Field("MNC_CHANGED_FIELDS", changed_json(e.changed_fields)),
    Field("MNC_REQUEST_ID", e.request_id)>>

-----------------------------------------------------------------------------
(* Reading.                                                                 *)

field(r, n) ==
  LET found == SelectSeq(r, LAMBDA f : f.name = n) IN IF found = <<>> THEN <<>> ELSE found[1].value

\* bug: the length of a name is not looked at.
NameOkBug(s) == s # <<>> /\ \A i \in DOMAIN s : s[i].ident
NameOk(s) == Size(s) \in 1..128 /\ \A i \in DOMAIN s : s[i].ident

\* The loop of changed_fields(), at the character i of the text.
RECURSIVE ParseNames(_, _, _)
ParseNames(s, i, names) ==
  LET Ends == {e \in (i + 1)..Len(s) : s[e] = Mark("q")[1]}
      end == CHOOSE e \in Ends : \A d \in Ends : e <= d
      name == SubSeq(s, i + 1, end - 1)
  IN CASE s[i] # Mark("q")[1] \/ Ends = {} -> <<>>
       [] OTHER ->
          IF ~NameOk(name) \/ Len(names) = MaxNames THEN <<>>
          ELSE IF end = Len(s) THEN Append(names, name)
          ELSE IF SubSeq(s, end + 1, end + 2) # Mark(",") \o Mark("q") THEN <<>>
          ELSE ParseNames(s, end + 2, Append(names, name))

changed_fields(s) ==
  IF \/ Size(s) > MaxNames * 132 \/ Len(s) < 3
     \/ SubSeq(s, 1, 2) # Mark("[") \o Mark("q")
     \/ SubSeq(s, Len(s) - 1, Len(s)) # Mark("q") \o Mark("]")
  THEN <<>> ELSE ParseNames(SubSeq(s, 2, Len(s) - 1), 1, <<>>)

OrElse(s, default) == IF s = <<>> THEN default ELSE s

Priority(s) == IF s # <<>> /\ s[1].num \in 0..7 THEN s[1].num ELSE 6

current_entry(r) ==
  [message |-> field(r, "MESSAGE"), code |-> field(r, "MNC_EVENT"),
   audience |-> OrElse(field(r, "MNC_LOG_AUDIENCE"), Word("developer")),
   category |-> field(r, "MNC_EVENT_CATEGORY"), actor |-> field(r, "MNC_ACTOR"),
   action |-> field(r, "MNC_ACTION"), outcome |-> field(r, "MNC_OUTCOME"),
   subject |-> field(r, "MNC_SUBJECT"), request_id |-> field(r, "MNC_REQUEST_ID"),
   changed_fields |-> changed_fields(field(r, "MNC_CHANGED_FIELDS")),
   unit |-> OrElse(field(r, "UNIT"), field(r, "_SYSTEMD_UNIT")),
   source_file |-> field(r, "CODE_FILE"), priority |-> Priority(field(r, "PRIORITY"))]

-----------------------------------------------------------------------------
LogInit == source = "none" /\ given = <<>> /\ record = <<>>

\* JournalSink::write(): the record is sent, or dropped with the result false.
Send(r) == record' \in {r, <<>>}

DeveloperWrite ==
  \E p \in {0, 7}, m \in Texts, c \in Codes \cup {<<>>}, x \in Extras :
    /\ source' = "developer" /\ given' = [priority |-> p, message |-> m, code |-> c]
    /\ Send(emit("developer", p, m, c, x))

UserEvents ==
  [code : Codes, category : {Word("settings"), Word("internal")}, message : Texts, actor : Texts,
   action : {Word("save")}, outcome : Codes, subject : {Word("settings")},
   changed_fields : FieldLists, request_id : {<<>>, Word("r1")}]

UserWrite ==
  \E e \in UserEvents :
    /\ source' = "user" /\ given' = e
    /\ IF valid_user_event(e) THEN Send(emit("user", 6, e.message, e.code, user_fields(e)))
       ELSE record' = <<>>

ForeignWrite == \E r \in Foreign : source' = "foreign" /\ given' = <<>> /\ record' = r

\* One call: a record does not depend on earlier ones.
LogNext == source = "none" /\ (DeveloperWrite \/ UserWrite \/ ForeignWrite)

LogSpec == LogInit /\ [][LogNext]_logVars

-----------------------------------------------------------------------------
(* Properties.                                                              *)

Entry == current_entry(record)
Written == record # <<>>

\* "Public metadata is generated by UserLog only. Developer extra fields cannot
\* opt themselves into the public stream or replace core fields."
\* (logging.cpp:166): a reader gets the audience of the logger, whatever extra
\* fields the call carries.
AudienceOfLogger ==
  source \in {"developer", "user"} =>
    \A i \in DOMAIN record : record[i].name = "MNC_LOG_AUDIENCE" =>
      record[i].value = Word(source) /\ Entry.audience = Word(source)

\* A reader gets the message, the event, the priority and the source of a
\* developer call; each reserved field is in the record once, so that the
\* journal cannot present another one.
CoreKept ==
  Written /\ source = "developer" =>
    /\ [priority |-> Entry.priority, message |-> Entry.message, code |-> Entry.code] = given
    /\ Entry.source_file = Word("source")
    /\ \A i, j \in DOMAIN record :
         i # j /\ record[i].name = record[j].name => ~reserved(record[i].name)

\* A reader gets the user event that was written, with all its changed fields:
\* the limits of the writer are within those of the reader.
UserRoundTrip ==
  Written /\ source = "user" => [k \in DOMAIN given |-> Entry[k]] = given

\* What a reader gets of a call, developer or user, is what the call gave.
ReaderGetsCall == AudienceOfLogger /\ CoreKept /\ UserRoundTrip

\* "Control characters and invalid metadata are rejected, not cut"
\* (logging.hpp:76): what a user event brings into the journal is bounded.
UserBounded ==
  Written /\ source = "user" =>
    /\ \A i \in DOMAIN record : record[i].name # "MNC_CHANGED_FIELDS" =>
          /\ Size(record[i].value) <= 512
          /\ \A k \in DOMAIN record[i].value : record[i].value[k].clean
    /\ Size(Entry.code) \in 1..128 /\ Size(Entry.outcome) \in 1..128
    /\ Size(field(record, "MNC_CHANGED_FIELDS")) <= MaxNames * 132

\* Whatever another program writes, a reader gets a priority of the list and at
\* most MaxNames changed fields of at most 128 characters.
ForeignHarmless ==
  Written =>
  /\ Entry.priority \in 0..7 /\ Len(Entry.changed_fields) <= MaxNames
  /\ \A k \in DOMAIN Entry.changed_fields : Size(Entry.changed_fields[k]) \in 1..128

\* No record makes the journal or its reader exceed the limits of the code.
EntryBounded == UserBounded /\ ForeignHarmless
=============================================================================
