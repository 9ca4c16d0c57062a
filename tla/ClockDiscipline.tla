---------------------------- MODULE ClockDiscipline ----------------------------
(***************************************************************************)
(* How a change of the time preferences reaches the running system:        *)
(* Native::preferences() (daemon/backend.cpp), writeClockPolicy()          *)
(* (daemon/clock_config.cpp), clockUnits() (daemon/ptp.cpp), called by     *)
(* Backend::apply() with its rollback and by bootstrap.  systemd runs      *)
(* beside it: a unit changes state in its own time, a start job may wait   *)
(* in the queue while its unit is still inactive, and a start whose marker *)
(* file exists is skipped (ConditionPathExists of the product's units).    *)
(*                                                                         *)
(* Abstractions: the lists of units are sets, walked in any order; a list  *)
(* of NTP servers is a value; time zone, hostname and SSH are calls that   *)
(* may fail; marker, server and drop-in files live under /run.             *)
(***************************************************************************)
CONSTANTS
  NtpUnits, IrigUnits,  \* profile_.ntp_units, irig_units
  LegacyUnits,          \* profile_.ptp_units: fixed instances of older products
  PtpTemplates,         \* profile_.ptp_unit_templates
  Ports, Interfaces,    \* network ports; the managed ones with hardware timestamps
  Servers, NoServers,   \* values of time.ntp_servers; the empty list
  NoUnit, NoPort,
  QueuedStarts          \* may systemd hold a start job while its unit is inactive?

\* clockUnits() instantiates every template for a port.
Instances(i) == PtpTemplates \X {i}
PtpUnits == PtpTemplates \X Interfaces
Units == NtpUnits \cup IrigUnits \cup LegacyUnits \cup PtpUnits
Modes == {"ntp", "ptp", "irig"}

\* TimePreferences; the port is read in PTP mode only.
Times ==
  {t \in [mode : Modes \cup {"local"}, interface : Ports \cup {NoPort}, servers : Servers] :
     t.interface = NoPort <=> t.mode # "ptp"}

ASSUME ProfileAssumption ==
  /\ NtpUnits \cap (IrigUnits \cup LegacyUnits \cup PtpUnits) = {}
  /\ IrigUnits \cap (LegacyUnits \cup PtpUnits) = {}
  /\ Interfaces \subseteq Ports /\ NoPort \notin Ports
  /\ NoUnit \notin Units /\ NoServers \in Servers /\ QueuedStarts \in BOOLEAN

VARIABLES
  unit,         \* ActiveState of each unit
  queued,       \* units with a start job that waits
  disabled,     \* modes whose marker file exists
  conf, dropin, \* timesyncd's server file; do the networkd drop-ins exist?
  loaded,       \* the servers each NTP unit read when it started
  links,        \* has networkd loaded the drop-ins?
  time,         \* state_.configuration.time
  pc, call,     \* control of apply()
  trouble       \* history: "none" since boot, or a crash or failed rollback that
                \* the last apply() has ("past") or has not ("now") followed

systemd == <<unit, queued, loaded>>
files   == <<disabled, conf, dropin, links>>
vars    == <<systemd, files, time, pc, call, trouble>>

-----------------------------------------------------------------------------
(* clockUnits() and unit().  (Here and below a definition marked "bug" is a *)
(* faulty variant of the next one.)                                         *)

Selected(t) ==
  CASE t.mode = "irig" -> IrigUnits
    [] t.mode = "ptp" -> Instances(t.interface)
    [] OTHER -> {}
ToStart(t) == IF t.mode = "ntp" THEN NtpUnits ELSE Selected(t)
ToStop(t) ==
  ((LegacyUnits \cup PtpUnits \cup IrigUnits) \ Selected(t))
    \cup (IF t.mode # "ntp" THEN NtpUnits ELSE {})

\* validateConfiguration(): the units of the mode exist.
ValidBug(t) == t.mode = "irig" => IrigUnits # {}
Valid(t) ==
  /\ t.mode = "ptp" => t.interface \in Interfaces /\ PtpTemplates # {}
  /\ t.mode = "irig" => IrigUnits # {}

Down == {"inactive", "failed"}
Running == {u \in Units : unit[u] \notin Down}
ThereBug(u) == IF pc = "start" THEN unit[u] = "active" ELSE unit[u] \in Down \cup {"deactivating"}
There(u) == IF pc = "start" THEN unit[u] = "active" ELSE unit[u] \in Down

-----------------------------------------------------------------------------
(* systemd and the product's units.                                        *)

\* The marker a unit is gated on.
MarkerOf(u) == IF u \in NtpUnits THEN "ntp" ELSE IF u \in IrigUnits THEN "irig" ELSE "ptp"

\* The start job of u runs: it is skipped when the marker exists; timesyncd
\* reads its servers.
Launch(u) ==
  IF MarkerOf(u) \in disabled THEN UNCHANGED <<unit, loaded>>
  ELSE /\ unit' = [unit EXCEPT ![u] = "activating"]
       /\ loaded' = IF u \in NtpUnits THEN [loaded EXCEPT ![u] = conf] ELSE loaded

StartUnit(u) ==
  \/ /\ unit[u] \in Down
     /\ Launch(u)
     /\ UNCHANGED queued
  \/ /\ unit[u] = "deactivating" \/ (QueuedStarts /\ unit[u] \in Down)
     /\ queued' = queued \cup {u}
     /\ UNCHANGED <<unit, loaded>>
  \/ unit[u] = "activating" /\ UNCHANGED systemd

StopUnit(u) ==
  /\ unit' = [unit EXCEPT ![u] = "deactivating"]
  /\ queued' = queued \ {u}
  /\ UNCHANGED loaded

\* A unit comes up, fails, has stopped, or starts again: from the queue or by its
\* own Restart= policy.
UnitMoves(u) ==
  /\ \/ /\ unit[u] = "activating" /\ unit' = [unit EXCEPT ![u] = "active"]
        /\ UNCHANGED <<queued, loaded>>
     \/ /\ unit[u] \in {"activating", "active"} /\ unit' = [unit EXCEPT ![u] = "failed"]
        /\ UNCHANGED <<queued, loaded>>
     \/ /\ unit[u] = "deactivating" /\ u \notin queued
        /\ unit' = [unit EXCEPT ![u] = "inactive"]
        /\ UNCHANGED <<queued, loaded>>
     \/ /\ unit[u] = "active" \/ u \in queued
        /\ queued' = queued \ {u}
        /\ IF MarkerOf(u) \in disabled
           THEN unit' = [unit EXCEPT ![u] = "inactive"] /\ UNCHANGED loaded
           ELSE Launch(u)
  /\ UNCHANGED <<files, time, pc, call, trouble>>

-----------------------------------------------------------------------------
(* apply(), preferences() and its rollback.                                *)

\* undo: "no", "yes" in the catch block, "doomed" when the journal has failed.
Frame(t, undo, previous) ==
  [target |-> t, undo |-> undo, previous |-> previous, todo |-> {}, waiting |-> NoUnit,
   restart |-> FALSE, reload |-> FALSE]
Working == Modes \cup {"servers", "dropins", "stop", "reload", "start", "save"}
Idle == pc' = "idle" /\ call' = Frame(time', "no", time')

\* An exception: apply() puts the previous preferences back; a second one is
\* "preferences failed and rollback needs recovery".
Throw ==
  IF call.undo = "no"
  THEN pc' = "ntp" /\ call' = Frame(call.previous, "yes", call.previous) /\ UNCHANGED trouble
  ELSE Idle /\ trouble' = "now"

Apply(t) ==
  /\ pc = "idle" /\ Valid(t)
  /\ pc' = "ntp" /\ call' = Frame(t, "no", time)
  /\ UNCHANGED <<systemd, files, time, trouble>>

\* Any system call or bus call of preferences() may fail.
Fails ==
  /\ pc \in Working
  /\ UNCHANGED <<systemd, files, time>>
  /\ Throw

\* writeClockPolicy(): the markers of ntp, ptp and irig in this order, the server
\* file, the drop-ins; a file is written only when its content changes.
FileAfter(m) == IF m = "ntp" THEN "ptp" ELSE IF m = "ptp" THEN "irig" ELSE "servers"
WriteMarkerBug ==
  \E m \in Modes :
    /\ pc = m
    /\ disabled' = IF call.target.mode = m THEN disabled \ {m} ELSE disabled
    /\ pc' = FileAfter(m)
    /\ UNCHANGED <<systemd, conf, dropin, links, time, call, trouble>>
WriteMarker ==
  \E m \in Modes :
    /\ pc = m
    /\ disabled' = IF call.target.mode = m THEN disabled \ {m} ELSE disabled \cup {m}
    /\ pc' = FileAfter(m)
    /\ UNCHANGED <<systemd, conf, dropin, links, time, call, trouble>>

ServersChangedBug == FALSE
ServersChanged == conf # call.target.servers
WriteServers ==
  /\ pc = "servers"
  /\ conf' = call.target.servers
  /\ pc' = "dropins" /\ call' = [call EXCEPT !.restart = ServersChanged]
  /\ UNCHANGED <<systemd, disabled, dropin, links, time, trouble>>

Explicit(t) == t.servers # NoServers
WriteDropIns ==
  /\ pc = "dropins"
  /\ dropin' = Explicit(call.target)
  /\ pc' = "stop"
  /\ call' = [call EXCEPT
       !.reload = dropin # Explicit(call.target),
       !.todo = ToStop(call.target) \cup
                (IF call.restart /\ call.target.mode = "ntp" THEN NtpUnits ELSE {})]
  /\ UNCHANGED <<systemd, disabled, conf, links, time, trouble>>

\* unit(): nothing to do, or a job is submitted and awaited.
UnitStep ==
  /\ pc \in {"stop", "start"}
  /\ \/ \E u \in call.todo :
          /\ call.waiting \in {NoUnit, u} /\ There(u)
          /\ call' = [call EXCEPT !.todo = @ \ {u}, !.waiting = NoUnit]
          /\ UNCHANGED systemd
     \/ \E u \in call.todo :
          /\ call.waiting = NoUnit /\ ~There(u)
          /\ call' = [call EXCEPT !.waiting = u]
          /\ IF pc = "start" THEN StartUnit(u) ELSE StopUnit(u)
  /\ UNCHANGED <<files, time, pc, trouble>>

\* Ten seconds pass, or the awaited unit fails to start.
DeadlineBug == call.waiting # NoUnit /\ pc = "start" /\ unit[call.waiting] = "failed"
Deadline == call.waiting # NoUnit
Timeout ==
  /\ pc \in {"stop", "start"}
  /\ Deadline
  /\ ~There(call.waiting)
  /\ UNCHANGED <<systemd, files, time>>
  /\ Throw

StageDone ==
  /\ pc \in {"stop", "start"} /\ call.todo = {}
  /\ pc' = IF pc = "stop" THEN "reload" ELSE "save"
  /\ UNCHANGED <<systemd, files, time, call, trouble>>

\* reloadNetwork(), when a drop-in changed.
Reload ==
  /\ pc = "reload"
  /\ links' = IF call.reload THEN dropin ELSE links
  /\ pc' = "start" /\ call' = [call EXCEPT !.todo = ToStart(call.target)]
  /\ UNCHANGED <<systemd, disabled, conf, dropin, time, trouble>>

\* The SSH policy and units, then persist(), which throws once the journal failed.
Save ==
  /\ pc = "save"
  /\ IF call.undo = "doomed"
     THEN time' = time /\ trouble' = "now"
     ELSE /\ time' = call.target
          /\ trouble' = IF call.undo = "no" /\ trouble = "now" THEN "past" ELSE trouble
  /\ Idle
  /\ UNCHANGED <<systemd, files>>

\* persist() fails first: the journal keeps the old content or shows the new one,
\* and the daemon is restarted after the rollback.
SaveFails ==
  /\ pc = "save" /\ call.undo # "doomed"
  /\ time' \in {time, call.target}
  /\ IF call.undo = "no"
     THEN pc' = "ntp" /\ call' = Frame(call.previous, "doomed", call.previous)
     ELSE Idle
  /\ trouble' = "now"
  /\ UNCHANGED <<systemd, files>>

-----------------------------------------------------------------------------
\* The daemon dies and is started again, which touches no clock setting.
Crash ==
  /\ pc # "idle"
  /\ UNCHANGED <<systemd, files, time>>
  /\ Idle /\ trouble' = "now"

\* The machine boots: clockBootPolicy() of bootstrap, then the enabled units
\* whose marker is absent.
Boot ==
  /\ disabled' = Modes \ {time.mode}
  /\ conf' = time.servers /\ dropin' = Explicit(time) /\ links' = Explicit(time)
  /\ unit' = [u \in Units |-> IF u \notin PtpUnits /\ MarkerOf(u) \notin disabled'
                              THEN "activating" ELSE "inactive"]
  /\ queued' = {} /\ loaded' = [u \in NtpUnits |-> conf']
  /\ UNCHANGED time
  /\ Idle /\ trouble' = "none"

Init ==
  /\ time \in {t \in Times : Valid(t)}
  /\ disabled = Modes \ {time.mode}
  /\ conf = time.servers /\ dropin = Explicit(time) /\ links = Explicit(time)
  /\ unit = [u \in Units |-> "inactive"] /\ queued = {} /\ loaded = [u \in NtpUnits |-> conf]
  /\ pc = "idle" /\ call = Frame(time, "no", time) /\ trouble = "none"

Daemon ==
  \/ WriteMarker \/ WriteServers \/ WriteDropIns \/ UnitStep \/ Timeout \/ StageDone \/ Reload
  \/ Save
Next ==
  \/ Daemon \/ Fails \/ SaveFails \/ Crash \/ Boot
  \/ \E t \in Times : Apply(t)
  \/ \E u \in Units : UnitMoves(u)
Spec == Init /\ [][Next]_vars
FairSpec == Spec /\ WF_vars(Daemon)

-----------------------------------------------------------------------------
Known == {t \in Times : Selected(t) \subseteq LegacyUnits \cup PtpUnits \cup IrigUnits}

\* Types; and a target of apply() has only units the profile knows, because
\* validateConfiguration() came first.
TypeOK ==
  /\ unit \in [Units -> {"inactive", "activating", "active", "deactivating", "failed"}]
  /\ queued \in SUBSET Units /\ loaded \in [NtpUnits -> Servers]
  /\ disabled \in SUBSET Modes
  /\ conf \in Servers /\ dropin \in BOOLEAN /\ links \in BOOLEAN
  /\ time \in Known
  /\ pc \in Working \cup {"idle"}
  /\ call \in [target : Known, undo : {"no", "yes", "doomed"}, previous : Known,
               todo : SUBSET Units, waiting : Units \cup {NoUnit},
               restart : BOOLEAN, reload : BOOLEAN]
  /\ trouble \in {"none", "now", "past"}

\* At no time do two clock disciplines, or the instances of two PTP ports, run
\* beside each other: a unit that still stops or already starts counts.  Holds
\* through failures of any step, failed rollbacks, timeouts, crashes and boots.
Exclusive ==
  \/ Running \subseteq LegacyUnits
  \/ \E t \in Times : Running \subseteq ToStart(t)

\* Once apply() has succeeded, or rolled back, or the machine has booted, only
\* units of the recorded mode run and only those could be started.
ModeHolds ==
  pc = "idle" /\ trouble # "now" =>
    /\ Running \subseteq ToStart(time) \cup (IF time.mode = "ptp" THEN LegacyUnits ELSE {})
    /\ disabled = Modes \ {time.mode}

\* A running NTP service uses the recorded servers, and networkd the matching
\* drop-ins, although NTP is restarted only when the server file changes.
ServersInUse ==
  pc = "idle" /\ trouble = "none" =>
    /\ time.mode = "ntp" => \A u \in NtpUnits \cap Running : loaded[u] = time.servers
    /\ links = Explicit(time)

\* apply() ends, whatever systemd does with the jobs it was given.
ApplyEnds == pc # "idle" ~> pc = "idle"

-----------------------------------------------------------------------------
(* What the documentation says and the code does not do.                   *)

\* README.md: "A custom list replaces configured servers".  Whether NTP has to
\* be restarted is decided from the file, which an interrupted apply() has
\* already rewritten.
ServersReplaced ==
  pc = "idle" /\ trouble # "now" /\ time.mode = "ntp" /\ Explicit(time) =>
    \A u \in NtpUnits \cap Running : loaded[u] = time.servers
=============================================================================
