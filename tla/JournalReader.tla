------------------------------ MODULE JournalReader ------------------------------
(***************************************************************************)
(* Reading the journal (common/mnc/logging/journal_reader.cpp): read(),    *)
(* the reference bounded_page(), follow(), and a client that turns pages   *)
(* with a strict cursor, while journald appends and vacuums entries and    *)
(* the clock may be set back.                                              *)
(*                                                                         *)
(* Abstractions: an entry is its time and a kind, the record of the fields *)
(* a query can select on; its cursor is its number in the journal.         *)
(* sd_journal is external: it shows the entries its match leaves; seeking  *)
(* a cursor finds the entry or the nearest later one it shows; seeking a   *)
(* time finds an entry of that time or later whose predecessor is earlier, *)
(* of which there may be several once the clock was set back.              *)
(***************************************************************************)
EXTENDS Naturals, Sequences, FiniteSetsExt, Functions

CONSTANTS
  Kinds,       \* fields of the entries
  MaxEntries,  \* bound: entries appended
  MaxTime,     \* bound: clock
  MaxLosses,   \* bound: failures of the seek after an invalidation
  FollowQuery, \* the query given to follow()
  PageQuery    \* the query of the client that turns pages

\* struct Query; 0 for a time or cursor that is not set.
IsQuery(q) ==
  q \in [equal : {q.equal}, components : {q.components}, units : {q.units}, maximum : {q.maximum},
         since : Nat, until : Nat, after : Nat, limit : Nat, newest_first : BOOLEAN, strict : BOOLEAN]

\* follow() refuses a query that is newest first.
ASSUME ReaderAssumption ==
  /\ IsQuery(FollowQuery) /\ IsQuery(PageQuery) /\ ~FollowQuery.newest_first
  /\ MaxEntries \in Nat /\ MaxTime \in Nat

VARIABLES
  log, low,      \* entries ever appended; the first that is not vacuumed
  clock, setback,  \* history: the clock was set back
  at,            \* follow(): place
  after, since,  \* follow(): continuation.after and .since, 0: not set
  page,          \* follow(): entries read and not yet given to the handler
  delivered,     \* history: entries given to the handler
  losses,        \* history: cursors given up
  turn,          \* pages: "none", "start", "more", "done" or "expired"
  got,           \* pages: entries received
  top            \* history: newest entry when the first page was read

journal == <<log, low, clock, setback>>
follower == <<at, after, since, page, delivered, losses>>
pager == <<turn, got, top>>
journalVars == <<journal, follower, pager>>

Live == low..Len(log)

-----------------------------------------------------------------------------
(* Queries.                                                                 *)

listed(list, value) == list = {} \/ value \in list

\* bug: an entry of the very time of since is left out.
NotBeforeBug(e, q) == q.since = 0 \/ e.time > q.since
NotBefore(e, q) == q.since = 0 \/ e.time >= q.since

matches_query(e, q) ==
  /\ \A f \in DOMAIN q.equal : e.kind[f] = q.equal[f]
  /\ NotBefore(e, q) /\ (q.until = 0 \/ e.time <= q.until)
  /\ e.kind.priority <= q.maximum
  /\ IF q.components # {} /\ q.units # {}
     THEN e.kind.component \in q.components \/ e.kind.unit \in q.units
     ELSE listed(q.components, e.kind.component) /\ listed(q.units, e.kind.unit)

\* The numbers of a set in their order: the k-th has k of them up to itself.
Rank(S, i) == Cardinality({j \in S : j <= i})
Ascending(S) == [k \in 1..Cardinality(S) |-> CHOOSE i \in S : Rank(S, i) = k]
Descending(S) == [k \in 1..Cardinality(S) |-> Ascending(S)[Cardinality(S) - k + 1]]
LastOf(s) == s[Len(s)]
Take(s, n) == IF Len(s) <= n THEN s ELSE SubSeq(s, 1, n)
Matching(S, q) == {i \in S : matches_query(log[i], q)}
InOrder(S, q) == Take(IF q.newest_first THEN Descending(Matching(S, q))
                      ELSE Ascending(Matching(S, q)), q.limit)

\* JournalErrorCode::cursor_expired, told from every page.
Expired == <<0>>

\* bug: the entry of the cursor is among them.
BeyondBug(c, q) == {i \in Live : IF q.newest_first THEN i <= c ELSE i >= c}
\* Entries ahead of the cursor, which is at entry c.
Beyond(c, q) == {i \in Live : IF q.newest_first THEN i < c ELSE i > c}

\* bounded_page() of the entries in the journal.
bounded_page(q) ==
  IF q.limit = 0 THEN <<>>
  ELSE IF q.after = 0 THEN InOrder(Live, q)
  ELSE IF q.after \in Live THEN InOrder(Beyond(q.after, q), q)
  ELSE IF q.strict THEN Expired ELSE <<>>

\* The match MNC_LOG_AUDIENCE=user of a query of that audience; no other filter
\* of a query is native.
Public(q) == "audience" \in DOMAIN q.equal /\ q.equal["audience"] = "user"
Shown(i, q) == Public(q) => log[i].kind["audience"] = "user"
Visible(q) == {i \in Live : Shown(i, q)}

\* sd_journal_seek_realtime_usec()
SeekTime(q) ==
  {i \in Visible(q) :
     /\ log[i].time >= q.since
     /\ \/ \A j \in Visible(q) : i <= j
        \/ \E j \in Visible(q) : /\ j < i /\ log[j].time < q.since
                                 /\ \A k \in Visible(q) : k <= j \/ i <= k} \cup
  (IF \A i \in Visible(q) : log[i].time < q.since THEN {Len(log) + 1} ELSE {})

\* bug: the entry of the cursor is read again.
ContinueBug(q) == InOrder({i \in Live : IF q.newest_first THEN i <= q.after ELSE i >= q.after}, q)
\* From a cursor; the nearest entry stands in for one that was vacuumed or that
\* the match hides.
Continue(q) ==
  IF q.after \in Visible(q) THEN InOrder(Beyond(q.after, q), q)
  ELSE IF q.strict THEN Expired
  ELSE InOrder({i \in Visible(q) : IF q.newest_first THEN i < q.after ELSE i >= q.after}, q)

\* The page of the newest entries, oldest first.
Recent(q) ==
  LET s == Ascending(Matching(Live, q))
  IN  IF Len(s) <= q.limit THEN s ELSE SubSeq(s, Len(s) - q.limit + 1, Len(s))

\* The pages read() can return.
read(q) ==
  IF q.limit = 0 THEN {<<>>}
  ELSE IF q.after # 0 THEN {Continue(q)}
  ELSE IF q.newest_first THEN {InOrder(Live, q)}
  ELSE IF q.since = 0 THEN {Recent(q)}
  ELSE {InOrder({i \in Live : i >= p}, q) : p \in SeekTime(q)}

-----------------------------------------------------------------------------
\* Readers do not share state: one that follows or one that turns pages.
JournalInit ==
  /\ log = <<>> /\ low = 1 /\ clock = 1 /\ setback = FALSE
  /\ at \in {"called", "none"} /\ turn = IF at = "none" THEN "start" ELSE "none"
  /\ after = 0 /\ since = 0 /\ page = <<>> /\ delivered = <<>> /\ losses = 0
  /\ got = <<>> /\ top = 0

(* journald and the clock.                                                  *)

Append1(k) ==
  /\ Len(log) < MaxEntries /\ log' = Append(log, [time |-> clock, kind |-> k])
  /\ UNCHANGED <<low, clock, setback, follower, pager>>

\* The oldest entries go; the newest is in the active file and stays.
Vacuum == low < Len(log) /\ low' = low + 1 /\ UNCHANGED <<log, clock, setback, follower, pager>>

Tick ==
  /\ clock' \in 1..MaxTime \ {clock} /\ setback' = (setback \/ clock' < clock)
  /\ UNCHANGED <<log, low, follower, pager>>

(* follow().                                                                *)

Continuation == [FollowQuery EXCEPT !.after = after,
                                    !.since = IF since = 0 THEN FollowQuery.since ELSE since]

Follow ==
  /\ at = "called" /\ at' = "first"
  /\ UNCHANGED <<journal, after, since, page, delivered, losses, pager>>

\* An empty first page is followed by another read, any other by a wait.  (An
\* expired cursor is an exception, which ends follow().)
FollowRead ==
  /\ at \in {"first", "read"} /\ page' \in read(Continuation) \ {Expired}
  /\ at' = IF page' # <<>> THEN "deliver" ELSE IF at = "first" THEN "read" ELSE "wait"
  /\ UNCHANGED <<journal, after, since, delivered, losses, pager>>

Advance(i) == i
Since(i) == log[i].time

Deliver ==
  /\ at = "deliver" /\ delivered' = Append(delivered, Head(page))
  /\ after' = Advance(Head(page)) /\ since' = Since(Head(page)) /\ page' = Tail(page)
  /\ at' = IF page' = <<>> THEN "read" ELSE "deliver"
  /\ UNCHANGED <<journal, losses, pager>>

\* bug: it waits again without reading.
WakeBug == at = "wait" /\ UNCHANGED journalVars
\* sd_journal_wait() ends with news or its timeout; after an invalidation the
\* cursor is sought again and given up if that fails.
Wake ==
  /\ at = "wait" /\ at' = "read"
  /\ \/ UNCHANGED <<after, losses>>
     \/ after # 0 /\ after' = 0 /\ losses < MaxLosses /\ losses' = losses + 1
  /\ UNCHANGED <<journal, since, page, delivered, pager>>

\* keep_running() or the handler says no, or a call of sd_journal fails.
FollowStops ==
  /\ at \notin {"none", "called", "stopped"} /\ at' = "stopped" /\ page' = <<>>
  /\ UNCHANGED <<journal, after, since, delivered, losses, pager>>

(* A client that turns pages with the cursor of the last entry.             *)

TurnPage ==
  /\ turn \in {"start", "more"}
  /\ \E p \in read([PageQuery EXCEPT !.after = IF got = <<>> THEN 0 ELSE LastOf(got)]) :
        /\ got' = IF p = Expired THEN got ELSE got \o p
        /\ turn' = CASE p = Expired -> "expired" [] p = <<>> -> "done" [] OTHER -> "more"
  /\ top' = IF turn = "start" THEN Len(log) ELSE top
  /\ UNCHANGED <<journal, follower>>

Follower == FollowRead \/ Deliver \/ Wake
JournalNext ==
  \/ (\E k \in Kinds : Append1(k)) \/ Vacuum \/ Tick
  \/ Follow \/ Follower \/ FollowStops \/ TurnPage

JournalSpec == JournalInit /\ [][JournalNext]_journalVars

-----------------------------------------------------------------------------
(* Properties.                                                              *)

Wanted(i) == i \in Live /\ matches_query(log[i], FollowQuery)
Latest == IF delivered = <<>> THEN 0 ELSE Max(Range(delivered))

\* Once it has delivered an entry, follow() leaves none out that is in the
\* journal when it reads, unless the clock was set back; it goes back, or gives
\* an entry again, only after a failed seek, and then (unless the clock was set
\* back) only to the very time of its last entry.
FollowExact ==
  [][/\ page' # page /\ page' # <<>> /\ at # "deliver" /\ delivered # <<>> /\ ~setback =>
          \A i \in Live : Latest < i /\ i < LastOf(page') /\ Wanted(i) => i \in Range(page')
     /\ delivered' # delivered /\ LastOf(delivered') <= Latest =>
          losses > 0 /\ (log[LastOf(delivered')].time = since \/ setback)]_journalVars

\* A wanted entry after the delivered ones does not wait for ever, unless the
\* clock was set back: follow() then waits for the time of its last entry.
Pending(i) == /\ i <= Len(log) /\ Wanted(i) /\ i > Latest
              /\ at \notin {"none", "called", "stopped"}
CatchesUp == \A i \in 1..MaxEntries : Pending(i) ~> ~Pending(i) \/ setback

\* "bounded, stable pagination" (journal_reader.hpp:78): the pages of a strict
\* newest-first query go strictly back, and when they end no wanted entry of
\* the journal of the first page is missing, whatever was appended or vacuumed
\* in between.
StablePages ==
  [][/\ \A i, j \in 1..Len(got') : i < j => got'[i] > got'[j]
     /\ turn' # turn /\ turn' \in {"done", "expired"} =>
          \A i \in Live : i <= top' /\ matches_query(log[i], PageQuery) => i \in Range(got')]_journalVars

\* bounded_page() has "the same filtering, limit, and cursor-continuation
\* contract as JournalReader" (journal_query.hpp:13) for strict queries, newest
\* first or from a cursor, on any journal a client may find, except exactly when
\* the cursor is of an entry in the journal that the native match hides: read()
\* calls that one expired, bounded_page() goes on from it.  (For other queries
\* read() starts at the newest entries or next to a vacuumed cursor,
\* bounded_page() at the oldest or nowhere.)
StrictQuery(a, n, t, b) ==
  [FollowQuery EXCEPT !.after = a, !.limit = n, !.since = t, !.newest_first = b, !.strict = TRUE]
Hidden(q) == q.after \in Live \ Visible(q)
StrictContract ==
  turn = "start" =>
    \A a \in 0..Len(log), n \in 0..2, t \in 0..MaxTime, b \in BOOLEAN :
      LET q == StrictQuery(a, n, t, b)
      IN  b \/ a # 0 => read(q) = {IF n # 0 /\ Hidden(q) THEN Expired ELSE bounded_page(q)}
=============================================================================
