------------------------- MODULE ServiceLifecycleProofs -------------------------
(* Safety of the service process for any number of restarts. *)
EXTENDS ServiceLifecycle, TLAPS

\* Before the bodies of execute() end: what the places of the main thread
\* say about the worker and about who asked for the stop.
Unstarted == ~start_done => worker = "none" /\ ~failed /\ ~stop
Early == main \in {"entry", "on_start"} => ~start_done /\ ~bus /\ result = "0"
Entered == main \in {"ready", "loop", "wait", "reload", "health", "feed", "join"} => start_done
Asked == /\ "TERM" \in signals => ~wanted
         /\ stop => ~wanted \/ failed
Ending ==
  /\ main \in {"stopping", "join", "return"} /\ result = "0" => stop
  /\ main = "join" => told = "STOPPING"
  /\ main = "return" /\ start_done => worker = "done" /\ ~bus /\ told = "STOPPING"
Running == main # "exited" => exit_status = "running"
\* The worker exists from on_start() on, and sets failed_ first.
Threads == /\ start_done => worker # "none"
           /\ worker = "failing" => failed
Types == stop \in BOOLEAN /\ failed \in BOOLEAN /\ start_done \in BOOLEAN /\ bus \in BOOLEAN

\* The inductive invariant.
Inv ==
  /\ Types /\ Unstarted /\ Early /\ Entered /\ Asked /\ Ending /\ Running /\ Threads
  /\ BusOutlivesWorker /\ FailureReported /\ OrderlyExit

LEMMA InvInit == LifecycleInit => Inv
BY DEF LifecycleInit, Inv, Types, Threads, Unstarted, Early, Entered, Asked,
       Ending, Running, BusOutlivesWorker, FailureReported, OrderlyExit

USE DEF Inv, Types, Threads, Unstarted, Early, Entered, Asked,
        Ending, Running, BusOutlivesWorker, FailureReported, OrderlyExit,
        own, os, sysd, Goto, Thread

LEMMA MainStep == Inv /\ Main => Inv'
<1> SUFFICES ASSUME Inv, Main PROVE Inv'  OBVIOUS
<1>1. CASE Mask  BY <1>1 DEF Mask
<1>2. CASE MaskFails  BY <1>2 DEF MaskFails
<1>3. CASE OnStart  BY <1>3 DEF OnStart
<1>4. CASE OnStartThrows  BY <1>4 DEF OnStartThrows, Thrown
<1>5. CASE Ready  BY <1>5 DEF Ready
<1>6. CASE LoopHead  BY <1>6 DEF LoopHead
<1>7. CASE Wait
  <2>1. Asked'
    <3>1. "TERM" \in signals' => "TERM" \in signals  BY <1>7 DEF Wait
    <3>2. stop' => stop \/ "TERM" \in signals  BY <1>7 DEF Wait
    <3> QED  BY <1>7, <3>1, <3>2 DEF Wait
  <2>2. stop' \in BOOLEAN /\ start_done  BY <1>7 DEF Wait
  <2> QED  BY <1>7, <2>1, <2>2 DEF Wait
<1>8. CASE LoopThrows  BY <1>8 DEF LoopThrows, Thrown
<1>9. CASE Reload  BY <1>9 DEF Reload
<1>10. CASE Health  BY <1>10 DEF Health
<1>11. CASE Feed  BY <1>11 DEF Feed
<1>12. CASE Stopping  BY <1>12 DEF Stopping, Announce
<1>13. CASE OnStop  BY <1>13 DEF OnStop, Joinable
<1>14. CASE ExecuteReturns  BY <1>14 DEF ExecuteReturns, ExitCode
<1> QED  BY <1>1, <1>2, <1>3, <1>4, <1>5, <1>6, <1>7, <1>8, <1>9, <1>10, <1>11, <1>12, <1>13,
            <1>14 DEF Main

LEMMA WorkerStep == Inv /\ Worker => Inv'
<1> SUFFICES ASSUME Inv, Worker PROVE Inv'  OBVIOUS
<1>1. CASE WorkerHead  BY <1>1 DEF WorkerHead, Leave
<1>2. CASE WorkerServes  BY <1>2 DEF WorkerServes
<1>3. CASE WorkerHangs  BY <1>3 DEF WorkerHangs
<1>4. CASE WorkerFails  BY <1>4 DEF WorkerFails
<1>5. CASE WorkerStops  BY <1>5 DEF WorkerStops
<1> QED  BY <1>1, <1>2, <1>3, <1>4, <1>5 DEF Worker

LEMMA SystemdStep == Inv /\ (StopUnit \/ Hangup \/ Kill \/ Restart) => Inv'
<1> SUFFICES ASSUME Inv, StopUnit \/ Hangup \/ Kill \/ Restart PROVE Inv'  OBVIOUS
<1>1. CASE StopUnit  BY <1>1 DEF StopUnit, Signal
<1>2. CASE Hangup  BY <1>2 DEF Hangup, Signal
<1>3. CASE Kill  BY <1>3 DEF Kill
<1>4. CASE Restart  BY <1>4 DEF Restart
<1> QED  BY <1>1, <1>2, <1>3, <1>4

LEMMA InvStutter == Inv /\ UNCHANGED lifecycleVars => Inv'
BY DEF lifecycleVars

HIDE DEF Inv, Types, Threads, Unstarted, Early, Entered, Asked, Ending, Running,
         BusOutlivesWorker, FailureReported, OrderlyExit, own, os, sysd, Goto, Thread

LEMMA InvAlways == LifecycleSpec => []Inv
<1>1. Inv /\ [LifecycleNext]_lifecycleVars => Inv'
  BY MainStep, WorkerStep, SystemdStep, InvStutter DEF LifecycleNext
<1> QED  BY <1>1, InvInit, PTL DEF LifecycleSpec

\* A process whose worker failed never ends with status 0 (Daemon::run()).
THEOREM FailureReportedAlways == LifecycleSpec => []FailureReported
<1>1. Inv => FailureReported  BY DEF Inv
<1> QED  BY <1>1, InvAlways, PTL

\* Status 0 is an orderly stop that was asked for: announced, joined, released.
THEOREM OrderlyExitAlways == LifecycleSpec => []OrderlyExit
<1>1. Inv => OrderlyExit  BY DEF Inv
<1> QED  BY <1>1, InvAlways, PTL

\* The worker never runs on a released bus (Daemon::on_stop() joins first).
THEOREM BusOutlivesWorkerAlways == LifecycleSpec => []BusOutlivesWorker
<1>1. Inv => BusOutlivesWorker  BY DEF Inv
<1> QED  BY <1>1, InvAlways, PTL
=============================================================================
