---------------------------- MODULE ServiceLifecycle ----------------------------
(***************************************************************************)
(* The process of a long-running service: Service::execute()               *)
(* (common/mnc/service/service.cpp), its hooks and worker thread in the    *)
(* system manager (Daemon, daemon/main.cpp), and systemd, which signals    *)
(* the process and starts it again after a failure                         *)
(* (mnc-system-manager.service).                                           *)
(*                                                                         *)
(* Two threads share the atomics stop_requested_ and failed_ and the bus   *)
(* connection.  Each place below is a point where the other thread, a      *)
(* signal or a kill can come in between.                                   *)
(*                                                                         *)
(* Abstractions: SIGINT stands with SIGTERM; what the worker serves is in  *)
(* SystemManager and here returns, throws or never returns;                *)
(* the delivery of a notification is not modelled, its result is ignored.  *)
(***************************************************************************)
EXTENDS Naturals

CONSTANT MaxStarts  \* bound on the processes systemd starts

VARIABLES
  main, worker,   \* places of the two threads
  stop, failed,   \* stop_requested_, failed_
  start_done, result, reload,  \* locals of execute(), reload_requested_
  bus,            \* bus_ and slot_ are open
  blocked, signals,         \* are the lifecycle signals blocked; pending ones
  told,           \* the last state sent with notify()
  exit_status,         \* how the process ended
  wanted, starts  \* systemd: should the unit run; processes started so far

own  == <<start_done, result, reload>>
os   == <<blocked, signals>>
sysd == <<wanted, starts>>
lifecycleVars == <<main, worker, stop, failed, own, bus, os, told, exit_status, sysd>>

\* A new process: static initialisation, no thread, default signal mask.
LifecycleInit ==
  /\ main = "entry" /\ worker = "none" /\ stop = FALSE /\ failed = FALSE
  /\ start_done = FALSE /\ result = "0" /\ reload = FALSE /\ bus = FALSE
  /\ blocked = FALSE /\ signals = {} /\ told = "none" /\ exit_status = "running"
  /\ wanted = TRUE /\ starts = 1

Goto(from, to) == main = from /\ main' = to

-----------------------------------------------------------------------------
(* Service::execute(), on the main thread.                                  *)

\* Signals are blocked before a thread exists, which inherits the mask.
Mask ==
  /\ blocked' = TRUE /\ Goto("entry", "on_start")
  /\ UNCHANGED <<worker, stop, failed, own, bus, signals, told, exit_status, sysd>>

\* pthread_sigmask() fails: return 1 at once.
MaskFails ==
  /\ result' = "1" /\ Goto("entry", "return")
  /\ UNCHANGED <<worker, stop, failed, start_done, reload, bus, os, told, exit_status, sysd>>

\* Daemon::on_start(): backend, bus, vtable and name; the worker comes last.
OnStart ==
  /\ Goto("on_start", "ready") /\ bus' = TRUE /\ worker' = "loop" /\ start_done' = TRUE
  /\ UNCHANGED <<stop, failed, result, reload, os, told, exit_status, sysd>>

\* bug: the exception leaves the result alone.
ThrownBug == result
\* The handlers of execute(): log, and result = 1.
Thrown == "1"

\* It throws before or after the bus was opened.
OnStartThrows ==
  /\ Goto("on_start", "stopping") /\ bus' \in BOOLEAN /\ result' = Thrown
  /\ UNCHANGED <<worker, stop, failed, start_done, reload, os, told, exit_status, sysd>>

Ready ==
  /\ Goto("ready", "loop") /\ told' = "READY"
  /\ UNCHANGED <<worker, stop, failed, own, bus, os, exit_status, sysd>>

LoopHead ==
  /\ Goto("loop", IF stop THEN "stopping" ELSE "wait")
  /\ UNCHANGED <<worker, stop, failed, own, bus, os, told, exit_status, sysd>>

\* sigtimedwait() takes a pending signal, or times out after a second.
Wait ==
  /\ Goto("wait", "reload")
  /\ \/ /\ "TERM" \in signals /\ signals' = signals \ {"TERM"} /\ stop' = TRUE
        /\ UNCHANGED reload
     \/ /\ "HUP" \in signals /\ signals' = signals \ {"HUP"} /\ reload' = TRUE
        /\ UNCHANGED stop
     \/ signals = {} /\ UNCHANGED <<signals, stop, reload>>
  /\ UNCHANGED <<worker, failed, start_done, result, bus, blocked, told, exit_status, sysd>>

\* sigtimedwait() fails with another error, or on_reload() or health() throws.
LoopThrows ==
  /\ main \in {"ready", "wait", "reload", "health"} /\ main' = "stopping" /\ result' = Thrown
  /\ UNCHANGED <<worker, stop, failed, start_done, reload, bus, os, told, exit_status, sysd>>

\* reload_requested_.exchange(false); Daemon::on_reload() does nothing.
Reload ==
  /\ Goto("reload", "health") /\ reload' = FALSE
  /\ UNCHANGED <<worker, stop, failed, start_done, result, bus, os, told, exit_status, sysd>>

\* health() looks at failed_; a healthy answer is reported one step later.
Health ==
  /\ Goto("health", IF failed THEN "loop" ELSE "feed")
  /\ IF failed THEN result' = "1" /\ stop' = TRUE ELSE UNCHANGED <<result, stop>>
  /\ UNCHANGED <<worker, failed, start_done, reload, bus, os, told, exit_status, sysd>>

Feed ==
  /\ Goto("feed", "loop") /\ told' = "WATCHDOG"
  /\ UNCHANGED <<worker, stop, failed, own, bus, os, exit_status, sysd>>

Announce == "STOPPING"

Stopping ==
  /\ Goto("stopping", IF start_done THEN "join" ELSE "return") /\ told' = Announce
  /\ UNCHANGED <<worker, stop, failed, own, bus, os, exit_status, sysd>>

\* bug: the bus is released without joining the worker.
JoinableBug == TRUE
\* Daemon::on_stop(): join() waits for the end of the worker.
Joinable == worker \in {"none", "done"}

OnStop ==
  /\ Joinable /\ Goto("join", "return") /\ bus' = FALSE
  /\ UNCHANGED <<worker, stop, failed, own, os, told, exit_status, sysd>>

\* bug: the status of execute() alone.
ExitCodeBug == result
\* Daemon::run()
ExitCode == IF failed THEN "1" ELSE result

ExecuteReturns ==
  /\ Goto("return", "exited") /\ exit_status' = ExitCode
  /\ UNCHANGED <<worker, stop, failed, own, bus, os, told, sysd>>

Main ==
  \/ Mask \/ MaskFails \/ OnStart \/ OnStartThrows \/ Ready \/ LoopHead \/ Wait \/ LoopThrows
  \/ Reload \/ Health \/ Feed \/ Stopping \/ OnStop \/ ExecuteReturns

-----------------------------------------------------------------------------
(* The worker thread, while the process lives.                              *)

Thread(from, to) == main # "exited" /\ worker = from /\ worker' = to

\* bug: the loop does not look at stop_requested().
LeaveBug == FALSE
Leave == stop
\* while (!stop_requested()) { tick; process; wait }
WorkerHead ==
  /\ Thread("loop", IF Leave THEN "done" ELSE "busy")
  /\ UNCHANGED <<main, stop, failed, own, bus, os, told, exit_status, sysd>>

WorkerServes ==
  /\ Thread("busy", "loop") \/ Thread("busy", "caught")
  /\ UNCHANGED <<main, stop, failed, own, bus, os, told, exit_status, sysd>>

WorkerHangs ==
  /\ Thread("busy", "stuck")
  /\ UNCHANGED <<main, stop, failed, own, bus, os, told, exit_status, sysd>>

\* The handler of the exception: failed_ first, then request_stop().
WorkerFails ==
  /\ Thread("caught", "failing") /\ failed' = TRUE
  /\ UNCHANGED <<main, stop, own, bus, os, told, exit_status, sysd>>

WorkerStops ==
  /\ Thread("failing", "done") /\ stop' = TRUE
  /\ UNCHANGED <<main, failed, own, bus, os, told, exit_status, sysd>>

Worker == WorkerHead \/ WorkerServes \/ WorkerHangs \/ WorkerFails \/ WorkerStops

-----------------------------------------------------------------------------
(* systemd.                                                                 *)

\* A signal stays pending while it is blocked, else its default action kills.
Signal(s) ==
  /\ main # "exited" /\ signals' = signals \cup {s}
  /\ IF blocked THEN UNCHANGED <<main, exit_status>> ELSE main' = "exited" /\ exit_status' = "sigterm"
  /\ UNCHANGED <<worker, stop, failed, own, bus, blocked, told, starts>>

StopUnit == wanted' = FALSE /\ Signal("TERM")
Hangup == Signal("HUP") /\ UNCHANGED wanted

\* The stop timeout, the watchdog, or a crash.
Kill ==
  /\ main # "exited" /\ main' = "exited" /\ exit_status' = "sigkill"
  /\ UNCHANGED <<worker, stop, failed, own, bus, os, told, sysd>>

\* Restart=on-failure; a unit that was stopped can be started again.
\* bug: Restart=on-abnormal
RestartableBug == IF wanted THEN exit_status = "sigkill" ELSE TRUE
Restartable == IF wanted THEN exit_status \in {"1", "sigkill"} ELSE TRUE
Restart ==
  /\ main = "exited" /\ starts < MaxStarts /\ Restartable
  /\ main' = "entry" /\ worker' = "none" /\ stop' = FALSE /\ failed' = FALSE
  /\ start_done' = FALSE /\ result' = "0" /\ reload' = FALSE /\ bus' = FALSE
  /\ blocked' = FALSE /\ signals' = {} /\ told' = "none" /\ exit_status' = "running"
  /\ wanted' = TRUE /\ starts' = starts + 1

LifecycleNext == Main \/ Worker \/ StopUnit \/ Hangup \/ Kill \/ Restart

LifecycleSpec == LifecycleInit /\ [][LifecycleNext]_lifecycleVars

-----------------------------------------------------------------------------
(* Properties.                                                              *)

\* A process whose worker failed never ends with status 0, at whatever point
\* of start-up, of the loop or of an ordinary stop the failure came, so that
\* systemd starts it again (Daemon::run(), main.cpp:176).
FailureReported == exit_status = "0" => ~failed

\* Status 0 means an orderly stop that somebody asked for: the stop was
\* announced, the worker has ended and the bus is released.
OrderlyExit ==
  exit_status = "0" => /\ ~wanted /\ start_done /\ told = "STOPPING"
                  /\ worker = "done" /\ ~bus

\* The worker never runs on a released bus: on_stop() joins it before
\* sd_bus_unref(), and a start that throws has not created it.
BusOutlivesWorker == worker \notin {"none", "done"} => bus

\* A unit that is stopped ends, wherever the signal arrives.  It waits for the
\* kill after systemd's timeout in two cases only: the worker hangs, or the
\* loop of execute() ended with an exception, whose handler does not set
\* stop_requested_, and join() waits for a worker that goes on.
StopEnds ==
  ~wanted ~> main = "exited" \/ (main = "join" /\ (worker = "stuck" \/ (~stop /\ result = "1")))

\* A failed worker ends its process, and systemd starts another one (up to
\* the bound), unless the unit is not wanted any more.
FailureRestarts ==
  failed ~> \/ ~wanted \/ main = "entry"
            \/ starts = MaxStarts /\ main = "exited"
=============================================================================
