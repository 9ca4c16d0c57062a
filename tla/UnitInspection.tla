----------------------------- MODULE UnitInspection -----------------------------
(***************************************************************************)
(* status() and control() of the service manager                           *)
(* (common/mnc/service/service_manager.cpp): inspect() reads a unit with   *)
(* one bus call after another, and systemd moves the unit in between.      *)
(*                                                                         *)
(* The unit is external: jobs are queued by a call and run later, a        *)
(* crashed service is started again up to a limit, an unused unit is       *)
(* unloaded.  statuses() is status() for each service, under one lock.     *)
(***************************************************************************)
EXTENDS Integers

CONSTANTS
  Tier,       \* priority_tier of the service
  AutoStart,  \* auto_start of the service
  Faulty,     \* may a bus call fail?
  MaxMoves    \* bound: steps of systemd in a behaviour

Actions == {"start", "stop", "restart", "reload"}
StartLimit == 3

\* service_priority_nice()
service_priority_nice(tier) ==
  CASE tier = "critical" -> -10 [] tier = "high" -> -5 [] tier = "background" -> 5
    [] OTHER -> 0

ASSUME InspectionAssumption ==
  AutoStart \in BOOLEAN /\ Faulty \in BOOLEAN /\ MaxMoves \in Nat

VARIABLES
  place,      \* the next step of the call that holds mutex_, "idle" without one
  action,  \* the argument of control(), "none" in status()
  report,  \* struct ManagedServiceStatus under construction; the last one returned
  unit,    \* systemd: the unit
  job,     \* systemd: its queued job
  seen,    \* history: the states of the unit since the inspection began
  unanswered,  \* history: a bus call of the inspection failed
  moves

inspectionVars == <<place, action, report, unit, job, seen, unanswered, moves>>

SubState(state) ==
  CASE state = "inactive" -> "dead" [] state = "activating" -> "auto-restart"
    [] state = "active" -> "running" [] state = "failed" -> "failed"
    [] OTHER -> "not-found"

Blank == [active_state |-> "", sub_state |-> "", restart_count |-> 0,
          permanently_failed |-> FALSE, priority_matches |-> FALSE, required_active |-> TRUE]

InspectionInit ==
  /\ place = "idle" /\ action = "none" /\ report = Blank /\ job = "none"
  /\ unit \in [state : {"inactive", "active"}, restarts : {0, StartLimit}, nice : {-10, 0}]
  /\ seen = {} /\ unanswered = FALSE /\ moves = 0

-----------------------------------------------------------------------------
status ==
  /\ place = "idle" /\ place' = "unit" /\ action' = "none" /\ report' = Blank
  /\ seen' = {unit} /\ unanswered' = FALSE /\ UNCHANGED <<unit, job, moves>>

control(a) ==
  /\ place = "idle" /\ place' = "control" /\ action' = a
  /\ UNCHANGED <<report, unit, job, seen, unanswered, moves>>

\* controller_->control(): the job replaces a queued one.
ControlUnit ==
  /\ place = "control" /\ place' = "unit" /\ job' = action /\ report' = Blank
  /\ seen' = {unit} /\ unanswered' = FALSE /\ UNCHANGED <<action, unit, moves>>

\* The exception leaves the call without a status.
ControlFails ==
  /\ Faulty /\ place = "control" /\ place' = "idle"
  /\ UNCHANGED <<action, report, unit, job, seen, unanswered, moves>>

Read(from, to, bad, r) ==
  /\ place = from /\ place' = to /\ unanswered' = (unanswered \/ bad) /\ bad \in {FALSE, Faulty}
  /\ report' = r /\ UNCHANGED <<action, unit, job, seen, moves>>

NotFound == [report EXCEPT !.active_state = "inactive", !.sub_state = "not-found"]

GetUnit ==
  \E bad \in BOOLEAN :
    IF bad \/ unit.state = "unloaded" THEN Read("unit", "result", bad, NotFound)
    ELSE Read("unit", "active", bad, report)

\* A reply without a path: the exception leaves the call without a status.
InvalidReply ==
  /\ Faulty /\ place = "unit" /\ unit.state # "unloaded" /\ place' = "idle" /\ report' = Blank
  /\ UNCHANGED <<action, unit, job, seen, unanswered, moves>>

\* What a property reads as; a unit that was unloaded meanwhile has none.
Property(bad, value, default) == IF bad \/ unit.state = "unloaded" THEN default ELSE value

ActiveState ==
  \E bad \in BOOLEAN :
    Read("active", "sub", bad,
         [report EXCEPT !.active_state = Property(bad, unit.state, "unknown")])

ReadSubState ==
  \E bad \in BOOLEAN :
    Read("sub", "restarts", bad,
         [report EXCEPT !.sub_state = Property(bad, SubState(unit.state), "unknown")])

\* bug: whatever the state.
PermanentAnywayBug(state, restarts) == restarts >= 3
PermanentlyFailed(state, restarts) == state = "failed" /\ restarts >= 3

NRestarts ==
  \E bad \in BOOLEAN : LET n == Property(bad, unit.restarts, 0) IN
    Read("restarts", "nice", bad,
         [report EXCEPT !.restart_count = n,
                        !.permanently_failed = PermanentlyFailed(report.active_state, n)])

Nice ==
  \E bad \in BOOLEAN :
    Read("nice", "result", bad,
         [report EXCEPT !.priority_matches =
            Property(bad, unit.nice = service_priority_nice(Tier), FALSE)])

\* status() and control() complete the report from the registry.
Result ==
  /\ place = "result" /\ place' = "idle" /\ report' = [report EXCEPT !.required_active = AutoStart]
  /\ UNCHANGED <<action, unit, job, seen, unanswered, moves>>

Manager ==
  \/ ControlUnit \/ ControlFails \/ GetUnit \/ InvalidReply \/ ActiveState \/ ReadSubState \/ NRestarts \/ Nice
  \/ Result

-----------------------------------------------------------------------------
(* systemd.                                                                 *)

Move(state, restarts) ==
  /\ moves < MaxMoves /\ moves' = moves + 1
  /\ unit' = [unit EXCEPT !.state = state, !.restarts = restarts]
  /\ seen' = IF place \in {"idle", "control"} THEN seen ELSE seen \cup {unit'}
  /\ UNCHANGED <<place, action, report, unanswered>>

\* An explicit start begins to count the restarts anew.
Dispatch ==
  /\ job # "none" /\ job' = "none"
  /\ CASE job = "stop" -> Move("inactive", unit.restarts)
       [] job = "restart" \/ (job = "start" /\ unit.state \notin {"active", "activating"}) ->
            Move("activating", 0)
       [] OTHER -> Move(unit.state, unit.restarts)

Up == unit.state = "activating" /\ Move("active", unit.restarts) /\ UNCHANGED job

Crash ==
  /\ unit.state \in {"activating", "active"} /\ UNCHANGED job
  /\ IF unit.restarts < StartLimit THEN Move("activating", unit.restarts + 1)
     ELSE Move("failed", unit.restarts)

ResetFailed == unit.state = "failed" /\ Move("inactive", 0) /\ UNCHANGED job

Unload == unit.state = "inactive" /\ job = "none" /\ Move("unloaded", 0) /\ UNCHANGED job

InspectionNext ==
  \/ status \/ (\E a \in Actions : control(a)) \/ Manager
  \/ Dispatch \/ Up \/ Crash \/ ResetFailed \/ Unload

InspectionSpec == InspectionInit /\ [][InspectionNext]_inspectionVars

-----------------------------------------------------------------------------
(* Properties.                                                              *)

Reported == place = "idle" /\ report.active_state # ""

\* The report of a unit that rests during the inspection is its state, and it
\* says "permanently failed" exactly when the unit failed at the start limit.
RestingUnit ==
  Reported /\ ~unanswered => \A u \in seen : seen = {u} =>
    /\ report.active_state = IF u.state = "unloaded" THEN "inactive" ELSE u.state
    /\ report.sub_state = SubState(u.state)
    /\ u.state # "unloaded" => /\ report.restart_count = u.restarts
                               /\ report.priority_matches <=> u.nice = service_priority_nice(Tier)
    /\ report.permanently_failed <=> u.state = "failed" /\ u.restarts = StartLimit

\* However the unit moves and whichever calls fail, a report says "permanently
\* failed" only if the unit was failed at some moment, and another one at the
\* start limit.
FailureWasSeen ==
  report.permanently_failed =>
    /\ \E u \in seen : u.state = "failed"
    /\ \E u \in seen : u.restarts = StartLimit

\* inspect() never invents a state: it is right about a unit that rests, and it
\* calls only a unit permanently failed that it saw failed and at its limit.
HonestReport == RestingUnit /\ FailureWasSeen
=============================================================================
