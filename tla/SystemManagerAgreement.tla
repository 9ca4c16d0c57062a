------------------------ MODULE SystemManagerAgreement ------------------------
(***************************************************************************)
(* The network transaction and the settings authority agree: when the      *)
(* authority writes only what is still undecided, the running network is   *)
(* the one in its file, and no client is ever told both outcomes of a      *)
(* transaction.                                                            *)
(***************************************************************************)
EXTENDS SystemManagerSafety

-----------------------------------------------------------------------------
(* What a process has in hand at each place, and what each step changes.   *)

\* The daemon is past its recovery.
InService ==
  \/ pc \in DaemonPlaces \ {"start.recover"}
  \/ pc = "settle" /\ call.settle \notin {"start.job", "boot.apply"}

\* What the frames of start(), apply(), beginNetwork(), prepareNetworkCommit()
\* and settleNetwork() hold; an open transaction the daemon serves is durable.
Frames ==
  /\ call.catch \in {"stopped", "bootfailed"} => call.reply = "none"
  /\ \/ At({"start.recover", "start.job"})
     \/ pc = "settle" /\ call.settle = "start.job"
     => call.catch = "stopped"
  /\ call.catch = "undo" => call.previous.network = st.configuration.network
  /\ call.reply = "applied" =>
       /\ ~IsPending(st) /\ st.initialized
       /\ pc \in {"reply", "undo", "throw"} \/ (pc = "save" /\ call.save \in {"reply", "throw"})
       /\ pc = "reply" => journal.stable = st
  /\ call.reply = "grant" =>
       /\ call.tick = "prepare" /\ (pc = "settle" => call.settle = "tick.job")
       /\ At({"reply"}) => st.pending.state = "committing"
  /\ At({"begin.apply"}) => st.pending.state = "pending" /\ call.reply = "outcome"
  /\ IsPending(st) /\ ~storage_failed /\ InService => journal.stable.pending = st.pending


LEMMA ThrowFrames ==
  ASSUME TypeOK, Synced, Frames, NEW failed \in BOOLEAN, Throw(failed), pc \notin DeadPlaces,
         journal'.stable = journal.stable,
         failed \/ (call.catch # "undo" /\ (call.catch = "tick" => InService /\ ~storage_failed))
  PROVE  Frames'
<1>1. CASE call.catch = "tick"
  <2>1. /\ pc' = "tick" /\ call'.catch = "stopped" /\ call'.reply = "none" /\ st' = st
        /\ storage_failed' = failed
    BY <1>1 DEF Throw, Loop, NewFrame, DeadPlaces
  <2>2. QED
    BY <1>1, <2>1 DEF Frames, At, IsPending
<1>2. CASE call.catch = "undo"
  <2>1. /\ pc' = "undo" /\ call'.catch = "tick" /\ call'.reply = call.reply /\ call'.tick = call.tick
        /\ st'.pending = st.pending /\ st'.initialized = st.initialized /\ storage_failed'
    BY <1>2 DEF Throw, Loop, DeadPlaces, TypeOK, State, Frame
  <2>2. QED
    BY <1>2, <2>1 DEF Frames, At, IsPending
<1>3. CASE call.catch \in DeadPlaces
  <2>1. pc' \in DeadPlaces /\ call'.catch = "stopped" /\ call'.reply = "none"
    BY <1>3 DEF Throw, Halt, NewFrame, DeadPlaces
  <2>2. QED
    BY <2>1 DEF Frames, At, InService, DeadPlaces, DaemonPlaces
<1>4. QED
  BY <1>1, <1>2, <1>3 DEF TypeOK, Frame, DeadPlaces

LEMMA FramesStep ==
  TypeOK /\ Synced /\ OneOperation /\ Running /\ Frames /\ [Next]_vars => Frames'
<1> SUFFICES ASSUME TypeOK, Synced, OneOperation, Running, Frames, [Next]_vars PROVE Frames'
  OBVIOUS
<1>1. CASE Persist
  <2>1. CASE /\ ~storage_failed
             /\ journal' = [visible |-> st, stable |-> st]
             /\ Goto(call.save)
             /\ UNCHANGED memory
    <3>1. /\ pc = "save" /\ pc' = call.save /\ call' = call /\ st' = st /\ journal'.stable = st
          /\ pc' \notin {"save", "settle"}
      BY <1>1, <2>1 DEF Persist, Goto, memory, TypeOK, Frame, SaveReturns, SettleReturns
    <3>2. QED
      BY <3>1 DEF Frames, At
  <2>2. CASE Throw(TRUE) /\ journal'.stable = journal.stable
    BY <1>1, <2>2, ThrowFrames DEF Persist, DeadPlaces
  <2>3. QED
    BY <1>1, <2>1, <2>2 DEF Persist, TypeOK
<1>2. ASSUME pc \in {"throw", "tick", "serve", "boot.end", "settle", "undo", "boot.apply", "reset.remove"},
             Throw(storage_failed), UNCHANGED journal
      PROVE  Frames'
  <2>1. call.catch # "undo"
    BY <1>2 DEF Synced
  <2>2. call.catch = "tick" => InService
    BY <1>2 DEF Synced, Frames, InService, DaemonPlaces, BootPlaces
  <2>3. QED
    BY <1>2, <2>1, <2>2, ThrowFrames DEF DeadPlaces, TypeOK
<1>3. ASSUME NEW place, Save(place)
      PROVE  /\ pc' = "save" /\ call'.save = place /\ call'.catch = call.catch /\ call'.reply = call.reply
             /\ call'.tick = call.tick /\ call'.previous = call.previous
  BY <1>3 DEF Save, TypeOK, Frame
<1>4. CASE Rethrow \/ TickStorageFailed \/ CallFails
  BY <1>4, <1>2 DEF Rethrow, TickStorageFailed, CallFails, TypeOK
<1>5. CASE Settle
  <2>1. CASE /\ st' = [st EXCEPT !.configuration.network = SettledNetwork,
                         !.pending.state = IF call.commit THEN "committed" ELSE "rolled_back"]
             /\ Save(call.settle)
    <3>1. pc = "settle" /\ IsPending(st) /\ ~IsPending(st') /\ call.catch # "undo" /\ call.settle # "begin.apply"
      BY <1>5, <2>1, SMTT(30) DEF Settle, Running, IsPending, TypeOK, State, Pending, Synced, Frame, SettleReturns
    <3>2. call.reply # "applied" /\ (call.reply = "grant" => call.settle = "tick.job")
      BY <3>1 DEF Frames
    <3>3. call.settle \in SettleReturns
      BY DEF TypeOK, Frame
    <3>4. QED
      BY <2>1, <3>1, <3>2, <3>3, <1>3 DEF Frames, At, InService, DaemonPlaces, SettleReturns
  <2>2. QED
    BY <1>2, <1>5, <2>1 DEF Settle
<1>6. CASE BootReset \/ BootRecover \/ BootFirst
  <2>1. NewFrame("bootfailed") \in Frame /\ NewFrame("bootfailed").catch = "bootfailed"
        /\ NewFrame("bootfailed").reply = "none"
    BY NewFrameType DEF NewFrame
  <2>2. /\ call'.reply = "none" /\ pc' \in {"reset.remove", "settle", "boot.apply", "boot.end", "bootfailed"}
        /\ call'.catch \in {"bootfailed", "stopped"}
        /\ pc' = "settle" => call'.settle = "boot.apply"
    <3>1. CASE BootReset
      BY <3>1 DEF BootReset, Halt, NewFrame
    <3>2. CASE BootRecover
      <4>1. \/ pc' = "settle" /\ call' = [NewFrame("bootfailed") EXCEPT !.settle = "boot.apply", !.commit = Verdict]
            \/ pc' = "boot.apply" /\ call' = NewFrame("bootfailed")
        BY <3>2 DEF BootRecover, Recover
      <4>2. QED
        BY <2>1, <4>1 DEF Frame
    <3>3. CASE BootFirst
      BY <2>1, <3>3 DEF BootFirst
    <3>4. QED
      BY <1>6, <3>1, <3>2, <3>3
  <2>3. QED
    BY <2>2 DEF Frames, At, InService, DaemonPlaces
<1>7. CASE ResetRemove
  <2>1. pc = "reset.remove" /\ call.catch = "bootfailed" /\ journal' = journal /\ call.reply = "none"
    BY <1>7 DEF ResetRemove, Synced, BootPlaces, Frames
  <2>2. CASE Throw(storage_failed)
    BY <2>1, <2>2, <1>2
  <2>3. CASE ~Throw(storage_failed)
    <3>1. pc' \in {"reset.remove", "boot.apply"} /\ call'.catch = "bootfailed" /\ call'.reply = "none"
      BY <1>7, <2>1, <2>3 DEF ResetRemove, Goto, TypeOK, Frame
    <3>2. QED
      BY <3>1 DEF Frames, At, InService, DaemonPlaces
  <2>4. QED
    BY <2>2, <2>3
<1>8. CASE BootApply \/ BootEnd
  <2>1. pc \in {"boot.apply", "boot.end"} /\ call.catch = "bootfailed" /\ journal' = journal /\ call.reply = "none"
    BY <1>8 DEF BootApply, BootEnd, Synced, BootPlaces, Frames
  <2>2. CASE Throw(storage_failed)
    BY <2>1, <2>2, <1>2
  <2>3. CASE ~Throw(storage_failed)
    <3>1. /\ pc' \in {"boot.end", "boot.done"} \/ (pc' = "save" /\ call'.save \in {"boot.end", "boot.done"})
          /\ call'.catch = "bootfailed" /\ call'.reply = "none"
      BY <1>8, <2>1, <2>3, <1>3 DEF BootApply, BootEnd, Goto
    <3>2. QED
      BY <3>1 DEF Frames, At, InService, DaemonPlaces
  <2>4. QED
    BY <2>2, <2>3
<1>9. CASE BootDone \/ Crash \/ PowerLoss \/ MachineStops \/ PowerCycle
  <2>1. PICK place \in DeadPlaces : Halt(place)
    BY <1>9 DEF BootDone, Crash, PowerLoss, MachineStops, PowerCycle, MachineOff, DeadPlaces
  <2>2. pc' \in DeadPlaces /\ call'.catch = "stopped" /\ call'.reply = "none"
    BY <2>1 DEF Halt, NewFrame
  <2>3. QED
    BY <2>2 DEF Frames, At, InService, DeadPlaces, DaemonPlaces
<1>10. CASE Start
  <2>1. /\ pc = "stopped" /\ call.catch = "stopped" /\ call.reply = "none" /\ ~storage_failed
        /\ UNCHANGED <<journal, storage_failed>>
    BY <1>10 DEF Start, Running, DeadPlaces, Frames, Synced
  <2>2. CASE Loop /\ st.reset_intent /\ UNCHANGED st
    <3>1. pc' = "tick" /\ call'.catch = "stopped" /\ call'.reply = "none" /\ ~IsPending(st')
      BY <2>2 DEF Loop, NewFrame, OneOperation, Versions
    <3>2. QED
      BY <3>1 DEF Frames, At
  <2>3. CASE Goto("start.recover") \/ Save("start.recover")
    <3>1. /\ pc' = "start.recover" \/ (pc' = "save" /\ call'.save = "start.recover")
          /\ call'.catch = "stopped" /\ call'.reply = "none"
      BY <2>1, <2>3, <1>3 DEF Goto
    <3>2. QED
      BY <3>1 DEF Frames, At, InService, DaemonPlaces
  <2>4. QED
    BY <1>10, <2>2, <2>3 DEF Start, ResumeReset
<1>11. CASE StartRecover \/ TickExpire
  <2>1. /\ pc \in {"start.recover", "tick"} /\ ~storage_failed /\ UNCHANGED <<journal, memory>>
        /\ call.catch # "undo" /\ call.reply # "applied"
    BY <1>11 DEF StartRecover, TickExpire, MayExpire, Synced, Frames
  <2>2. ASSUME NEW place \in {"start.job", "tick.job"}, Recover(call, place)
        PROVE  /\ pc' = "settle" /\ call'.settle = place /\ call'.catch = call.catch
               /\ call'.reply = call.reply /\ call'.tick = call.tick
    BY <2>2 DEF Recover, TypeOK, Frame
  <2>3. CASE TickExpire
    <3>1. Recover(call, "tick.job") /\ pc = "tick"
      BY <2>3 DEF TickExpire
    <3>2. QED
      BY <2>1, <2>2, <3>1 DEF Frames, At, InService, DaemonPlaces, memory
  <2>4. CASE StartRecover
    <3>1. pc = "start.recover" /\ call.catch = "stopped" /\ call.reply = "none"
      BY <2>4 DEF StartRecover, Frames, At
    <3>2. CASE Recover(call, "start.job")
      BY <2>2, <3>1, <3>2 DEF Frames, At, InService, DaemonPlaces
    <3>3. CASE Goto("start.job") /\ ~IsPending(st)
      BY <2>1, <3>1, <3>3 DEF Goto, Frames, At, memory
    <3>4. QED
      BY <2>4, <3>2, <3>3 DEF StartRecover
  <2>5. QED
    BY <1>11, <2>3, <2>4
<1>12. CASE TickPass \/ NoDispatch
  <2>1. /\ pc \in {"tick", "tick.job"} /\ ~storage_failed /\ UNCHANGED <<journal, memory, call>>
        /\ pc' = (IF pc = "tick" THEN "tick.job" ELSE call.tick)
        /\ call.catch # "undo" /\ call.reply # "applied"
    BY <1>12 DEF TickPass, NoDispatch, Goto, Synced, Frames
  <2>2. call.tick \in {"serve", "reply", "prepare"}
    BY DEF TypeOK, Frame
  <2>3. QED
    BY <2>1, <2>2 DEF Frames, At, InService, DaemonPlaces, memory
<1>13. CASE StartJob \/ Dispatch \/ PowerCall
  <2>1. /\ pc \in {"start.job", "tick.job", "power"} /\ ~storage_failed /\ UNCHANGED <<journal, storage_failed>>
        /\ call.catch # "undo" /\ call.reply # "applied"
        /\ pc = "start.job" => call.reply = "none" /\ call.catch = "stopped"
    BY <1>13 DEF StartJob, Dispatch, PowerCall, Synced, Frames, At
  <2>2. st'.pending = st.pending
    BY <1>13 DEF StartJob, Dispatch, PowerCall, TypeOK, State
  <2>3. CASE UNCHANGED st /\ (Loop \/ Goto(call.tick))
    <3>1. call.tick \in {"serve", "reply", "prepare"}
      BY DEF TypeOK, Frame
    <3>2. CASE Loop
      BY <2>1, <2>3, <3>2 DEF Loop, NewFrame, Frames, At, InService, DaemonPlaces
    <3>3. CASE Goto(call.tick)
      BY <2>1, <2>3, <3>1, <3>3 DEF Goto, Frames, At, InService, DaemonPlaces
    <3>4. QED
      BY <2>3, <3>2, <3>3
  <2>4. ASSUME NEW place \in {"reply", "power", "throw"}, Save(place), place = "reply" => pc = "start.job"
        PROVE  Frames'
    BY <2>1, <2>2, <2>4, <1>3 DEF Frames, At, InService, DaemonPlaces, IsPending
  <2>5. QED
    BY <1>13, <2>3, <2>4 DEF StartJob, Dispatch, PowerCall
<1>14. CASE Reply \/ ServeNone
  <2>1. /\ pc \in {"reply", "serve"} /\ ~storage_failed /\ UNCHANGED <<journal, storage_failed, st>>
        /\ pc' = "tick" /\ call'.catch = "stopped" /\ call'.reply = "none"
    BY <1>14 DEF Reply, ServeNone, Synced, memory, Loop, NewFrame
  <2>2. QED
    BY <2>1 DEF Frames, At, InService, DaemonPlaces
<1>15. CASE Undo
  <2>1. CASE Save("throw") /\ UNCHANGED memory
    <3>1. pc = "undo" /\ call.catch # "undo"
      BY <1>15 DEF Undo, Synced
    <3>2. pc' = "save" /\ call'.save = "throw" /\ UNCHANGED <<journal, st, storage_failed>>
          /\ call'.catch = call.catch /\ call'.reply = call.reply /\ call'.tick = call.tick
      BY <1>3, <1>15, <2>1 DEF Undo, memory
    <3>3. QED
      BY <3>1, <3>2 DEF Frames, At, InService, DaemonPlaces
  <2>2. QED
    BY <1>2, <1>15, <2>1 DEF Undo
<1>16. CASE BeginApply
  <2>1. /\ pc = "begin.apply" /\ ~storage_failed /\ UNCHANGED <<journal, st, storage_failed>>
        /\ call.catch # "undo" /\ call.reply # "applied" /\ call.catch # "bootfailed"
    BY <1>16 DEF BeginApply, Synced, Frames, memory, Running, At, BootPlaces
  <2>2. CASE Goto("tick")
    BY <2>1, <2>2 DEF Goto, Frames, At, InService, DaemonPlaces
  <2>3. CASE pc' = "settle" /\ call' = [call EXCEPT !.settle = "throw", !.commit = FALSE]
    <3>1. /\ call'.settle = "throw" /\ call'.catch = call.catch /\ call'.reply = call.reply
      BY <2>3 DEF TypeOK, Frame
    <3>2. QED
      BY <2>1, <2>3, <3>1 DEF Frames, At, InService, DaemonPlaces
  <2>4. QED
    BY <1>16, <2>2, <2>3 DEF BeginApply
<1>17. CASE Prepare
  <2>1. /\ pc = "prepare" /\ ~storage_failed /\ UNCHANGED <<journal, storage_failed>>
        /\ call.catch # "undo" /\ call.reply # "applied"
    BY <1>17 DEF Prepare, Synced, Frames
  <2>2. CASE st' = [st EXCEPT !.pending.state = "committing"] /\ Save("reply")
    <3>1. st'.pending.state = "committing"
      BY <2>2 DEF TypeOK, State, Pending
    <3>2. QED
      BY <2>1, <2>2, <3>1, <1>3 DEF Frames, At, InService, DaemonPlaces
  <2>3. CASE st.pending.state = "committing" /\ Goto("reply") /\ UNCHANGED st
    BY <2>1, <2>3 DEF Goto, Frames, At, InService, DaemonPlaces
  <2>4. CASE Loop /\ UNCHANGED st
    BY <2>1, <2>4 DEF Loop, NewFrame, Frames, At, InService, DaemonPlaces
  <2>5. QED
    BY <1>17, <2>2, <2>3, <2>4 DEF Prepare
<1>18. ASSUME NEW p \in Preferences, ApplyPreferences(p) PROVE Frames'
  <2>1. /\ ~IsPending(st) /\ st.initialized
    <3>1. Acting
      BY <1>18 DEF ApplyPreferences, Acting, ServicesUp, Synced, Running, At, BootPlaces, DaemonPlaces
    <3>2. QED
      BY <1>18, <3>1, ActingFacts DEF ApplyPreferences, Idle
  <2>2. st'.pending = st.pending /\ st'.initialized /\ st'.configuration.network = st.configuration.network
    <3>1. UNCHANGED st \/ st' = [st EXCEPT !.configuration.preferences = p, !.initialized = TRUE]
      BY <1>18 DEF ApplyPreferences
    <3>2. CASE st' = [st EXCEPT !.configuration.preferences = p, !.initialized = TRUE]
      BY <3>2 DEF TypeOK, State, Configuration
    <3>3. QED
      BY <2>1, <3>1, <3>2
  <2>3. /\ call'.reply = "applied" /\ call'.previous = st.configuration /\ call'.catch \in {"tick", "undo"}
        /\ pc' = "undo" \/ (pc' = "save" /\ call'.save = "reply")
    BY <1>18 DEF ApplyPreferences, Request, NewFrame
  <2>4. QED
    BY <2>1, <2>2, <2>3 DEF Frames, At, IsPending
<1>19. ASSUME NEW n \in Networks, BeginNetwork(n) PROVE Frames'
  <2>1. st'.pending.state = "pending"
    BY <1>19 DEF BeginNetwork, TypeOK, State
  <2>2. pc' = "save" /\ call'.save = "begin.apply" /\ call'.catch = "tick" /\ call'.reply = "outcome"
    BY <1>19 DEF BeginNetwork, Request, NewFrame
  <2>3. QED
    BY <2>1, <2>2 DEF Frames, At, InService, DaemonPlaces
<1>20. ASSUME NEW action, AcceptJob(action) PROVE Frames'
  <2>1. pc' = "save" /\ call'.save = "reply" /\ call'.catch = "tick" /\ call'.reply = "job"
    BY <1>20 DEF AcceptJob, Request, NewFrame
  <2>2. QED
    BY <2>1 DEF Frames, At, InService, DaemonPlaces
<1>21. CASE GetNetworkTransaction \/ PrepareNetworkCommit
  <2>1. /\ pc = "serve" /\ UNCHANGED <<journal, storage_failed, st>> /\ call'.catch = "tick" /\ pc' = "tick"
        /\ call'.reply = "outcome" \/ (call'.reply = "grant" /\ call'.tick = "prepare")
    BY <1>21 DEF GetNetworkTransaction, PrepareNetworkCommit, Request, NewFrame, memory
  <2>2. QED
    BY <2>1 DEF Frames, At, InService, DaemonPlaces
<1>22. ASSUME NEW commit \in BOOLEAN, FinishNetwork(commit) PROVE Frames'
  <2>1. /\ pc = "serve" /\ UNCHANGED <<journal, storage_failed, st>> /\ call'.catch = "tick"
        /\ call'.reply = "outcome" /\ (pc' = "reply" \/ (pc' = "settle" /\ call'.settle = "reply"))
    BY <1>22 DEF FinishNetwork, Request, NewFrame, memory
  <2>2. QED
    BY <2>1 DEF Frames, At, InService, DaemonPlaces
<1>23. CASE AuthorityCommits \/ AuthoritySaves \/ AuthorityGivesUp \/ CustomerWrites \/ UNCHANGED vars
  <2>1. UNCHANGED <<journal, st, storage_failed, pc, call>>
    BY <1>23 DEF AuthorityCommits, AuthoritySaves, AuthorityGivesUp, CustomerWrites, vars, memory
  <2>2. QED
    BY <2>1 DEF Frames, At, InService
<1>24. CASE System
  BY <1>24, <1>1, <1>4, <1>5, <1>6, <1>7, <1>8, <1>9, <1>10, <1>11, <1>12, <1>13, <1>14, <1>15, <1>16,
     <1>17 DEF System
<1>25. CASE Requests
  BY <1>25, <1>18, <1>19, <1>20, <1>21, <1>22 DEF Requests, Power, ResetDevice
<1>26. QED
  BY <1>4, <1>9, <1>23, <1>24, <1>25 DEF Next, Environment

\* What the stack frame and the durable journal hold at every place.
THEOREM AlwaysFrames == Spec => []Frames
<1>1. Init => Frames
  BY InitShape DEF Frames, At
<1>2. QED
  BY <1>1, FramesStep, TypeCorrect, AlwaysSynced, OneOperationAlways, AlwaysRunning, PTL DEF Spec

\* A step leaves the journal alone, writes memory to it, or stops the machine
\* with one of its versions.
LEMMA JournalCases ==
  TypeOK /\ [Next]_vars =>
    \/ UNCHANGED journal
    \/ /\ Writing /\ journal'.visible = st /\ journal'.stable \in {st, journal.stable}
       /\ UNCHANGED <<settings, authority, told>>
       /\ used'.proposals = used.proposals
    \/ \E s \in Versions : MachineOff(s)
<1> SUFFICES ASSUME TypeOK, [Next]_vars, ~UNCHANGED journal, ~(\E s \in Versions : MachineOff(s))
             PROVE  /\ Writing /\ journal'.visible = st /\ journal'.stable \in {st, journal.stable}
                    /\ UNCHANGED <<settings, authority, told>>
                    /\ used'.proposals = used.proposals
  OBVIOUS
<1>1. CASE Persist
  <2>1. used'.proposals = used.proposals
    BY <1>1 DEF Persist, Fault, TypeOK
  <2>2. Writing /\ journal'.visible = st /\ journal'.stable \in {st, journal.stable}
    <3>1. CASE journal' = [visible |-> st, stable |-> st] /\ ~storage_failed
      BY <1>1, <3>1 DEF Persist, Writing
    <3>2. CASE journal' = [journal EXCEPT !.visible = st] /\ ~storage_failed
      BY <1>1, <3>2 DEF Persist, Writing, TypeOK
    <3>3. QED
      BY <1>1, <3>1, <3>2 DEF Persist
  <2>3. QED
    BY <1>1, <2>1, <2>2 DEF Persist, world, product, history
<1>2. CASE Crash
  BY <1>2 DEF Crash, CrashBudget, Writing, TypeOK, world, product, history
<1>3. CASE PowerLoss \/ MachineStops \/ PowerCycle
  BY <1>3 DEF PowerLoss, MachineStops, PowerCycle, Versions
<1>4. CASE System /\ ~Persist
  BY <1>4 DEF System, Rethrow, Reply, Settle, BootReset, BootRecover, BootFirst, PowerOn,
    ResetRemove, BootApply, BootEnd, BootDone, Start, StartRecover, StartJob, TickStorageFailed,
    TickExpire, TickPass, Dispatch, NoDispatch, PowerCall, ServeNone, Undo, BeginApply, Prepare
<1>5. CASE Requests
  BY <1>5 DEF Requests, ApplyPreferences, BeginNetwork, GetNetworkTransaction,
    PrepareNetworkCommit, FinishNetwork, Power, ResetDevice, AcceptJob
<1>6. CASE AuthorityCommits \/ AuthoritySaves \/ AuthorityGivesUp \/ CustomerWrites \/ CallFails
  BY <1>6 DEF AuthorityCommits, AuthoritySaves, AuthorityGivesUp, CustomerWrites, CallFails
<1>7. QED
  BY <1>1, <1>2, <1>3, <1>4, <1>5, <1>6 DEF Next, Environment, vars

\* Memory is reread, or keeps its transaction and, once initialized, its network.
TransactionKept ==
  \/ st' = journal'.visible
  \/ /\ st'.pending = st.pending
     /\ st.initialized => st'.initialized /\ st'.configuration.network = st.configuration.network

LEMMA ThrowTransaction ==
  ASSUME TypeOK, Frames, NEW failed, Throw(failed) PROVE TransactionKept
<1>1. CASE call.catch = "undo"
  <2>1. st' = [st EXCEPT !.configuration = call.previous]
    BY <1>1 DEF Throw, DeadPlaces
  <2>2. QED
    BY <1>1, <2>1 DEF Frames, TransactionKept, TypeOK, State
<1>2. CASE call.catch # "undo"
  BY <1>2 DEF Throw, Halt, TransactionKept
<1>3. QED
  BY <1>1, <1>2

\* The only steps that change the transaction or the network in memory.
LEMMA TransactionSteps ==
  TypeOK /\ Frames /\ [Next]_vars =>
    TransactionKept \/ Settle \/ ResetRemove \/ Prepare \/ \E n \in Networks : BeginNetwork(n)
<1> SUFFICES ASSUME TypeOK, Frames, [Next]_vars, ~Settle, ~ResetRemove, ~Prepare,
                    ~(\E n \in Networks : BeginNetwork(n))
             PROVE  TransactionKept
  OBVIOUS
<1>1. CASE Rethrow \/ TickStorageFailed \/ CallFails \/ Persist \/ Undo
  <2>1. UNCHANGED memory \/ Throw(TRUE) \/ Throw(storage_failed)
    BY <1>1 DEF Rethrow, TickStorageFailed, CallFails, Persist, Undo
  <2>2. QED
    BY <2>1, ThrowTransaction DEF memory, TransactionKept
<1>2. CASE BootReset \/ BootDone \/ Crash \/ PowerLoss \/ MachineStops \/ PowerCycle
  <2>1. UNCHANGED st \/ st' = journal'.visible
    BY <1>2 DEF BootReset, BootDone, Crash, PowerLoss, MachineStops, PowerCycle, MachineOff, Halt, memory
  <2>2. QED
    BY <2>1 DEF TransactionKept
<1>3. CASE UNCHANGED st
  BY <1>3 DEF TransactionKept
<1>4. CASE BootFirst
  <2>1. CASE ~st.initialized /\ st' = [st EXCEPT !.configuration = Initial]
    BY <2>1 DEF TransactionKept, TypeOK, State
  <2>2. QED
    BY <1>3, <1>4, <2>1 DEF BootFirst
<1>5. CASE Start
  <2>1. ASSUME NEW c \in Configuration, ~st.initialized,
               st' = [st EXCEPT !.configuration = c, !.initialized = TRUE]
        PROVE  TransactionKept
    BY <2>1 DEF TransactionKept, TypeOK, State
  <2>2. QED
    BY <1>3, <1>5, <2>1 DEF Start, ResumeReset
<1>6. CASE BootApply
  <2>1. CASE st' = [st EXCEPT !.initialized = TRUE, !.reset_intent = FALSE,
                      !.job.state = IF st.reset_intent THEN "completed" ELSE @]
    BY <2>1 DEF TransactionKept, TypeOK, State
  <2>2. QED
    BY <1>3, <1>6, <2>1, ThrowTransaction DEF BootApply
<1>7. CASE StartJob \/ Dispatch \/ PowerCall
  <2>1. ASSUME NEW job, st' = [st EXCEPT !.job.state = job] PROVE TransactionKept
    BY <2>1 DEF TransactionKept, TypeOK, State
  <2>2. QED
    BY <1>3, <1>7, <2>1 DEF StartJob, Dispatch, PowerCall
<1>8. ASSUME NEW p \in Preferences, ApplyPreferences(p) PROVE TransactionKept
  <2>1. CASE st' = [st EXCEPT !.configuration.preferences = p, !.initialized = TRUE]
    BY <2>1 DEF TransactionKept, TypeOK, State, Configuration
  <2>2. QED
    BY <1>3, <1>8, <2>1 DEF ApplyPreferences
<1>9. ASSUME NEW action, AcceptJob(action) PROVE TransactionKept
  BY <1>9 DEF AcceptJob, TransactionKept, TypeOK, State
<1>10. ASSUME Reply \/ BootRecover \/ BootEnd \/ StartRecover \/ TickExpire \/ TickPass
              \/ NoDispatch \/ ServeNone \/ BeginApply
       PROVE  UNCHANGED st
  BY <1>10 DEF Reply, BootRecover, BootEnd, StartRecover, TickExpire, TickPass, NoDispatch,
               ServeNone, BeginApply, memory
<1>11. ASSUME GetNetworkTransaction \/ PrepareNetworkCommit \/ (\E commit \in BOOLEAN : FinishNetwork(commit))
              \/ AuthorityCommits \/ AuthoritySaves \/ AuthorityGivesUp \/ CustomerWrites
              \/ UNCHANGED vars
       PROVE  UNCHANGED st
  BY <1>11 DEF GetNetworkTransaction, PrepareNetworkCommit, FinishNetwork, AuthorityCommits,
               AuthoritySaves, AuthorityGivesUp, CustomerWrites, memory, vars
<1>12. CASE System
  BY <1>1, <1>2, <1>3, <1>4, <1>5, <1>6, <1>7, <1>10, <1>12 DEF System
<1>13. CASE Requests
  BY <1>3, <1>8, <1>9, <1>11, <1>13 DEF Requests, Power, ResetDevice
<1>14. QED
  BY <1>1, <1>2, <1>3, <1>11, <1>12, <1>13 DEF Next, Environment

\* The only steps that change the settings file, the grant, what clients were
\* told and the number of proposals.
LEMMA ProductSteps ==
  TypeOK /\ [Next]_vars =>
    /\ UNCHANGED settings \/ AuthorityCommits \/ AuthoritySaves \/ (ResetRemove /\ settings' = NoFile)
    /\ authority' \in {authority, NoGrant} \/ Reply
    /\ UNCHANGED told \/ Reply
    /\ used'.proposals = used.proposals \/ \E n \in Networks : BeginNetwork(n)
<1> SUFFICES ASSUME TypeOK, [Next]_vars
             PROVE  /\ UNCHANGED settings \/ AuthorityCommits \/ AuthoritySaves \/ (ResetRemove /\ settings' = NoFile)
                    /\ authority' \in {authority, NoGrant} \/ Reply
                    /\ UNCHANGED told \/ Reply
                    /\ used'.proposals = used.proposals \/ \E n \in Networks : BeginNetwork(n)
  OBVIOUS
<1>1. \/ UNCHANGED used \/ Fault \/ CrashBudget \/ used' = [used EXCEPT !.jobs = @ + 1]
      \/ \E n \in Networks : BeginNetwork(n)
  <2>1. CASE System
    BY <2>1 DEF System, Persist, Rethrow, Reply, Settle, BootReset, BootRecover, BootFirst, HalfApplied,
      ResetRemove, BootApply, BootEnd, BootDone, Start, StartRecover, StartJob, TickStorageFailed,
      TickExpire, TickPass, Dispatch, NoDispatch, PowerCall, ServeNone, Undo, BeginApply, Prepare
  <2>2. CASE Requests
    BY <2>2 DEF Requests, ApplyPreferences, HalfApplied, GetNetworkTransaction,
      PrepareNetworkCommit, FinishNetwork, Power, ResetDevice, AcceptJob
  <2>3. CASE Environment
    BY <2>3 DEF Environment, AuthorityCommits, AuthoritySaves, AuthorityGivesUp, CustomerWrites,
      CallFails, Crash, PowerLoss, MachineStops, PowerCycle
  <2>4. QED
    BY <2>1, <2>2, <2>3 DEF Next, vars
<1>2. used'.proposals = used.proposals \/ \E n \in Networks : BeginNetwork(n)
  BY <1>1 DEF Fault, CrashBudget, TypeOK
<1>3. UNCHANGED <<settings, authority, told>> \/ Reply \/ Environment \/ ResetRemove
  <2>1. CASE System
    BY <2>1 DEF System, Persist, Rethrow, Settle, BootReset, BootRecover, BootFirst, PowerOn,
      BootApply, BootEnd, BootDone, Start, StartRecover, StartJob, TickStorageFailed,
      TickExpire, TickPass, Dispatch, NoDispatch, PowerCall, ServeNone, Undo, BeginApply, Prepare,
      world, product, history
  <2>2. CASE Requests
    BY <2>2 DEF Requests, ApplyPreferences, BeginNetwork, GetNetworkTransaction,
      PrepareNetworkCommit, FinishNetwork, Power, ResetDevice, AcceptJob, world, product, history
  <2>3. QED
    BY <2>1, <2>2 DEF Next, vars, world, product, history
<1>4. Reply => UNCHANGED settings
  BY DEF Reply
<1>5. ResetRemove => settings' \in {settings, NoFile} /\ UNCHANGED <<authority, told>>
  BY DEF ResetRemove, history
<1>6. Environment => /\ UNCHANGED settings \/ AuthorityCommits \/ AuthoritySaves
                     /\ authority' \in {authority, NoGrant} /\ UNCHANGED told
  BY DEF Environment, AuthorityCommits, AuthoritySaves, AuthorityGivesUp, CustomerWrites,
      CallFails, Crash, PowerLoss, MachineStops, PowerCycle, MachineOff, world, product, history
<1>7. QED
  BY <1>2, <1>3, <1>4, <1>5, <1>6

\* Services stay up until the machine stops.
LEMMA ServicesStep ==
  TypeOK /\ Synced /\ ServicesUp /\ [Next]_vars => ServicesUp' \/ \E s \in Versions : MachineOff(s)
<1> SUFFICES ASSUME TypeOK, Synced, ServicesUp, [Next]_vars, ~(\E s \in Versions : MachineOff(s))
             PROVE  ServicesUp'
  OBVIOUS
<1>1. pc \notin {"off", "bootfailed"} \cup BootPlaces /\ call.catch # "bootfailed"
  BY DEF ServicesUp, Synced, BootPlaces
<1>2. ASSUME NEW failed, Throw(failed) PROVE ServicesUp'
  BY <1>1, <1>2 DEF Throw, Loop, Halt, NewFrame, ServicesUp, TypeOK, Frame, DeadPlaces
<1>3. ASSUME NEW place, Save(place) PROVE ServicesUp'
  BY <1>1, <1>3 DEF Save, ServicesUp, TypeOK, Frame
<1>4. ASSUME NEW place, Goto(place), place \notin {"off", "bootfailed"} PROVE ServicesUp'
  BY <1>1, <1>4 DEF Goto, ServicesUp
<1>5. CASE Loop
  BY <1>5 DEF Loop, NewFrame, ServicesUp
<1>6. call.save \notin {"off", "bootfailed"} /\ call.tick \notin {"off", "bootfailed"}
  BY DEF TypeOK, Frame, SaveReturns, SettleReturns
<1>7. CASE Persist \/ Rethrow \/ TickStorageFailed \/ CallFails \/ Settle \/ Undo
  BY <1>2, <1>3, <1>4, <1>6, <1>7 DEF Persist, Rethrow, TickStorageFailed, CallFails, Settle, Undo
<1>8. CASE BootReset \/ BootRecover \/ BootFirst \/ ResetRemove \/ BootApply \/ BootEnd \/ BootDone
  BY <1>1, <1>8 DEF BootReset, BootRecover, BootFirst, PowerOn, ResetRemove, BootApply, BootEnd, BootDone, BootPlaces
<1>9. CASE Start \/ StartJob \/ TickPass \/ Dispatch \/ NoDispatch \/ PowerCall \/ ServeNone \/ Prepare \/ Reply
  BY <1>3, <1>4, <1>5, <1>6, <1>9 DEF Start, ResumeReset, StartJob, TickPass, Dispatch, NoDispatch, PowerCall,
     ServeNone, Prepare, Reply
<1>10. CASE StartRecover \/ TickExpire
  <2>1. ASSUME NEW place, Recover(call, place) PROVE ServicesUp'
    BY <1>1, <2>1 DEF Recover, ServicesUp, TypeOK, Frame
  <2>2. QED
    BY <1>4, <1>10, <2>1 DEF StartRecover, TickExpire
<1>11. CASE BeginApply
  <2>1. CASE pc' = "settle" /\ call' = [call EXCEPT !.settle = "throw", !.commit = FALSE]
    BY <1>1, <2>1 DEF ServicesUp, TypeOK, Frame
  <2>2. QED
    BY <1>4, <1>11, <2>1 DEF BeginApply
<1>12. CASE Requests
  BY <1>12 DEF Requests, ApplyPreferences, BeginNetwork, GetNetworkTransaction, PrepareNetworkCommit,
     FinishNetwork, Power, ResetDevice, AcceptJob, Request, NewFrame, ServicesUp
<1>13. CASE AuthorityCommits \/ AuthoritySaves \/ AuthorityGivesUp \/ CustomerWrites \/ UNCHANGED vars
  BY <1>13 DEF AuthorityCommits, AuthoritySaves, AuthorityGivesUp, CustomerWrites, vars, ServicesUp
<1>14. CASE Crash
  BY <1>1, <1>14 DEF Crash, Halt, NewFrame, ServicesUp
<1>15. CASE PowerLoss \/ MachineStops \/ PowerCycle
  BY <1>15 DEF PowerLoss, MachineStops, PowerCycle, Versions
<1>16. CASE System
  BY <1>7, <1>8, <1>9, <1>10, <1>11, <1>16 DEF System
<1>17. QED
  BY <1>7, <1>12, <1>13, <1>14, <1>15, <1>16 DEF Next, Environment

\* What does not depend on the authority.
Base == TypeOK /\ Synced /\ OneOperation /\ Resetting /\ Running /\ Frames

\* What a change of the transaction in memory looks like.
LEMMA SettleShape ==
  ASSUME TypeOK, Frames, Settle
  PROVE  /\ pc = "settle" /\ UNCHANGED <<journal, settings, authority, told>>
         /\ \/ TransactionKept
            \/ /\ st'.pending = [st.pending EXCEPT !.state = IF call.commit THEN "committed" ELSE "rolled_back"]
               /\ st'.configuration.network = SettledNetwork /\ st'.initialized = st.initialized
               /\ pc' = "save"
<1>1. CASE st' = [st EXCEPT !.configuration.network = SettledNetwork,
                    !.pending.state = IF call.commit THEN "committed" ELSE "rolled_back"]
            /\ Save(call.settle)
  BY <1>1 DEF Settle, Save, product, history, TypeOK, State, Configuration
<1>2. CASE Throw(storage_failed)
  BY <1>2, ThrowTransaction DEF Settle, product, history
<1>3. QED
  BY <1>1, <1>2 DEF Settle

LEMMA PrepareShape ==
  ASSUME TypeOK, Prepare
  PROVE  /\ pc = "prepare" /\ UNCHANGED <<journal, settings, authority, told>>
         /\ \/ UNCHANGED st
            \/ /\ st.pending.state = "pending" /\ settings = st.pending.previous_hash
               /\ st'.pending = [st.pending EXCEPT !.state = "committing"]
               /\ st'.configuration = st.configuration /\ st'.initialized = st.initialized
               /\ pc' = "save"
BY DEF Prepare, Save, world, product, history, TypeOK, State

LEMMA BeginShape ==
  ASSUME TypeOK, NEW n \in Networks, BeginNetwork(n)
  PROVE  /\ pc = "serve" /\ UNCHANGED <<journal, settings, authority, told>> /\ ~IsPending(st)
         /\ authority.phase = "idle" /\ settings # NoFile /\ n # settings.network /\ pc' = "save"
         /\ st'.pending.id = used.proposals + 1 /\ st'.pending.state = "pending" /\ st'.pending.network = n
         /\ st'.pending.previous = st.configuration.network /\ st'.pending.previous_hash = settings
         /\ st'.pending.candidate_hash.network = n
         /\ st'.configuration = st.configuration /\ st'.initialized = st.initialized
         /\ used.proposals < MaxProposals /\ used'.proposals = used.proposals + 1
<1>1. /\ pc = "serve" /\ UNCHANGED <<journal, settings, authority, told>> /\ ~IsPending(st)
      /\ authority.phase = "idle" /\ settings # NoFile /\ n # settings.network /\ pc' = "save"
      /\ st'.pending = [id |-> used.proposals + 1, state |-> "pending", network |-> n,
                        previous |-> st.configuration.network, previous_hash |-> settings,
                        candidate_hash |-> [settings EXCEPT !.network = n]]
      /\ st'.configuration = st.configuration /\ st'.initialized = st.initialized
      /\ used.proposals < MaxProposals /\ used'.proposals = used.proposals + 1
  BY DEF BeginNetwork, Idle, world, product, history, TypeOK, State
<1>2. [settings EXCEPT !.network = n].network = n
  BY <1>1 DEF TypeOK, Configuration
<1>3. /\ st'.pending.id = used.proposals + 1 /\ st'.pending.state = "pending" /\ st'.pending.network = n
      /\ st'.pending.previous = st.configuration.network /\ st'.pending.previous_hash = settings
  BY <1>1
<1>4. st'.pending.candidate_hash = [settings EXCEPT !.network = n]
  BY <1>1
<1>5. st'.pending.candidate_hash.network = n
  BY <1>2, <1>4
<1>6. QED
  BY <1>1, <1>3, <1>5

LEMMA ResetShape ==
  ASSUME Base, ResetRemove
  PROVE  /\ pc = "reset.remove" /\ ~ServicesUp /\ UNCHANGED <<journal, authority, told>>
         /\ \A s \in Versions : s.reset_intent /\ ~IsPending(s)
         /\ \/ TransactionKept
            \/ st'.pending = NoPending /\ st'.initialized /\ settings' = NoFile
<1>1. pc = "reset.remove" /\ call.catch = "bootfailed" /\ UNCHANGED <<journal, authority, told>>
  BY DEF ResetRemove, Base, Synced, BootPlaces, history
<1>2. \A s \in Versions : s.reset_intent /\ ~IsPending(s)
  BY <1>1 DEF Base, Resetting, Clearing, Versions, OneOperation
<1>3. CASE Throw(storage_failed)
  BY <1>1, <1>2, <1>3, ThrowTransaction DEF Base, ServicesUp
<1>4. CASE UNCHANGED memory
  BY <1>1, <1>2, <1>4 DEF memory, TransactionKept, ServicesUp
<1>5. CASE /\ AllRemoved /\ UNCHANGED settings
           /\ st' = [st EXCEPT !.configuration = Defaults, !.initialized = TRUE, !.pending = NoPending]
  <2>1. settings = NoFile
    BY <1>1, <1>5 DEF AllRemoved, Base, Resetting
  <2>2. QED
    BY <1>1, <1>2, <1>5, <2>1 DEF Base, TypeOK, State, ServicesUp
<1>6. QED
  BY <1>3, <1>4, <1>5 DEF ResetRemove

-----------------------------------------------------------------------------
(* The settings authority and the daemon agree.                            *)

\* The settings file holds the candidate of an open transaction.
Chosen(s, file) == s.pending.state = "committing" /\ file = s.pending.candidate_hash
\* The network that recovery of version s would leave running.
Decided(s, file) ==
  IF ~IsPending(s) THEN s.configuration.network
  ELSE IF Chosen(s, file) THEN s.pending.network ELSE s.pending.previous
\* The outcome of its transaction that recovery would leave in the journal.
Outcome(s, file) ==
  IF ~IsPending(s) THEN s.pending.state
  ELSE IF Chosen(s, file) THEN "committed" ELSE "rolled_back"
\* What clients have been told of the transaction of version s.
Answer(s, answers) == IF s.pending.id \in DOMAIN answers THEN answers[s.pending.id] ELSE "none"

\* An open transaction proposes a change, and the verdict on it stands while it
\* is settled.
Verdicts ==
  /\ pc = "settle" => call.commit = Verdict
  /\ \A s \in Versions : IsPending(s) =>
       /\ s.pending.candidate_hash.network = s.pending.network
       /\ s.pending.previous_hash.network # s.pending.network

\* What the authority may write fits every version of the journal.
Grants ==
  /\ ~ServicesUp => authority.phase = "idle"
  /\ authority.phase = "applied" => \A s \in Versions :
       ~IsPending(s) /\ s.initialized /\ s.configuration.network = authority.content.network
  /\ authority.phase = "granted" =>
       /\ \A s \in Versions : s.pending.id = authority.id => s.pending.state # "pending"
       /\ \A s \in {st, journal.visible} :
            s.pending.id = authority.id /\ s.pending.state = "committing" =>
              /\ s.pending = journal.visible.pending /\ s.pending = journal.stable.pending
              /\ s.pending.candidate_hash = authority.content

\* Every version of the journal recovers to the network of the settings file.
Agreed ==
  settings # NoFile => \A s \in Versions : s.initialized /\ settings.network = Decided(s, settings)

\* The daemon is past its recovery, the writes of the journal it makes included.
Serving == InService \/ (pc = "save" /\ call.save \in DaemonPlaces \ {"start.recover"})

\* Every version recovers to the outcome a client has been told, and versions of
\* one transaction recover to the same one.
Faithful ==
  /\ used.proposals <= MaxProposals
  /\ \A s \in Versions : s.pending.id <= used.proposals /\ (s.pending.id = 0 => s.pending.state = "none")
  /\ \A i \in DOMAIN told : told[i] # "none" => i <= used.proposals
  /\ \A r, s \in Versions : r.pending.id = s.pending.id => Outcome(r, settings) = Outcome(s, settings)
  /\ \A s \in Versions : Answer(s, told) # "none" => Answer(s, told) = Outcome(s, settings)
  /\ IsPending(st) /\ ~storage_failed /\ Serving => Answer(st, told) = "none"
  /\ authority.phase = "granted" => \A s \in {st, journal.visible} :
       s.pending.id = authority.id /\ s.pending.state = "committing" => Answer(s, told) = "none"


\* A version of the state after a step is a version before it, or the new memory.
LEMMA VersionsStep ==
  TypeOK /\ [Next]_vars => Versions' \subseteq Versions \cup {st'}
BY JournalStep DEF Versions

LEMMA VerdictsStep ==
  ASSUME WriteBeforeDecision, Base, Verdicts, Grants, [Next]_vars
  PROVE  Verdicts'
<1> DEFINE Change(s) == IsPending(s) => /\ s.pending.candidate_hash.network = s.pending.network
                                        /\ s.pending.previous_hash.network # s.pending.network
<1>1. \A s \in Versions : Change(s)
  BY DEF Verdicts
<1>2. Change(st')
  <2>1. CASE TransactionKept
    BY <2>1, <1>1, JournalStep DEF TransactionKept, Base, Versions, IsPending
  <2>2. CASE Settle
    BY <2>1, <2>2, SettleShape DEF Base, IsPending, TypeOK, State, Pending
  <2>3. CASE ResetRemove
    BY <2>1, <2>3, ResetShape DEF NoPending, IsPending
  <2>4. CASE Prepare
    BY <1>1, <2>4, PrepareShape DEF Base, IsPending, Versions, TypeOK, State, Pending
  <2>5. ASSUME NEW n \in Networks, BeginNetwork(n) PROVE Change(st')
    BY <2>5, BeginShape DEF Base
  <2>6. QED
    BY <2>1, <2>2, <2>3, <2>4, <2>5, TransactionSteps DEF Base
<1>3. \A s \in Versions' : Change(s)
  BY <1>1, <1>2, VersionsStep DEF Base
<1>4. pc' = "settle" => call'.commit = Verdict'
  <2> SUFFICES ASSUME pc' = "settle" PROVE call'.commit = Verdict'
    OBVIOUS
  <2>1. ASSUME UNCHANGED <<st, settings>>, call'.commit = Verdict PROVE call'.commit = Verdict'
    BY <2>1 DEF Verdict
  <2>2. CASE BootRecover \/ StartRecover \/ TickExpire
    <3>1. PICK frame \in Frame, place \in SettleReturns : Recover(frame, place)
      BY <2>2, NewFrameType DEF BootRecover, StartRecover, TickExpire, Goto, Base, TypeOK, SettleReturns
    <3>2. call'.commit = Verdict
      BY <3>1 DEF Recover, Frame
    <3>3. QED
      BY <2>1, <2>2, <3>2 DEF BootRecover, PowerOn, StartRecover, TickExpire, memory, world, product
  <2>3. ASSUME NEW commit \in BOOLEAN, FinishNetwork(commit) PROVE call'.commit = Verdict'
    <3>1. call'.commit = commit /\ commit = Verdict
      BY <2>3 DEF FinishNetwork, MayFinish, Request, NewFrame
    <3>2. QED
      BY <2>1, <2>3, <3>1 DEF FinishNetwork, memory, world, product
  <2>4. CASE BeginApply
    <3>1. st.pending.state = "pending" /\ call'.commit = FALSE
      <4>1. st.pending.state = "pending"
        BY <2>4 DEF BeginApply, Base, Frames, At
      <4>2. call' = [call EXCEPT !.settle = "throw", !.commit = FALSE]
        BY <2>4 DEF BeginApply, Goto
      <4>3. QED
        BY <4>1, <4>2 DEF Base, TypeOK, Frame
    <3>2. QED
      BY <2>1, <2>4, <3>1 DEF BeginApply, memory, product, Verdict
  <2>5. CASE AuthorityCommits
    <3>1. /\ pc = "settle" /\ call' = call /\ st' = st /\ settings' = authority.content
          /\ st.pending.id = authority.id /\ st.pending.state = "committing" /\ call.commit
          /\ authority.phase = "granted"
      BY <2>5 DEF AuthorityCommits, Undecided, memory
    <3>2. st.pending.candidate_hash = authority.content
      BY <3>1 DEF Grants
    <3>3. QED
      BY <3>1, <3>2 DEF Verdict
  <2>6. CASE AuthoritySaves
    <3>1. pc = "settle" /\ authority.phase = "applied"
      BY <2>6 DEF AuthoritySaves
    <3>2. QED
      BY <3>1 DEF Grants, Base, Running, Versions
  <2>7. CASE AuthorityGivesUp \/ CustomerWrites \/ UNCHANGED vars
    BY <2>1, <2>7 DEF AuthorityGivesUp, CustomerWrites, vars, memory, world, product, Verdicts
  <2>8. ~Loop /\ (\A place : Goto(place) => place = "settle") /\ (\A place : ~Save(place))
        /\ (\A place : Halt(place) => place = "settle") /\ (\A failed : ~Throw(failed))
    BY DEF Loop, Goto, Save, Halt, Throw, DeadPlaces
  <2>9. call.save # "settle" /\ call.tick # "settle"
    BY DEF Base, TypeOK, Frame, SaveReturns, SettleReturns
  <2>10. CASE System /\ ~BootRecover /\ ~StartRecover /\ ~TickExpire /\ ~BeginApply
    <3>1. ~Persist /\ ~Rethrow /\ ~TickStorageFailed /\ ~Settle /\ ~Undo
      BY <2>8, <2>9 DEF Persist, Rethrow, TickStorageFailed, Settle, Undo
    <3>2. ~BootReset /\ ~BootFirst /\ ~ResetRemove /\ ~BootApply /\ ~BootEnd /\ ~BootDone
      BY <2>8 DEF BootReset, BootFirst, ResetRemove, BootApply, BootEnd, BootDone
    <3>3. ~Start /\ ~StartJob /\ ~TickPass /\ ~Dispatch /\ ~NoDispatch /\ ~PowerCall /\ ~ServeNone
          /\ ~Prepare /\ ~Reply
      BY <2>8, <2>9 DEF Start, ResumeReset, StartJob, TickPass, Dispatch, NoDispatch, PowerCall,
         ServeNone, Prepare, Reply
    <3>4. QED
      BY <2>10, <3>1, <3>2, <3>3 DEF System
  <2>11. CASE Requests
    BY <2>3, <2>11 DEF Requests, ApplyPreferences, BeginNetwork, GetNetworkTransaction, PrepareNetworkCommit,
       Power, ResetDevice, AcceptJob
  <2>12. ~CallFails /\ ~Crash /\ ~PowerLoss /\ ~MachineStops /\ ~PowerCycle
    BY <2>8 DEF CallFails, Crash, PowerLoss, MachineStops, PowerCycle, MachineOff
  <2>13. QED
    BY <2>2, <2>4, <2>5, <2>6, <2>7, <2>10, <2>11, <2>12 DEF Next, Environment
<1>5. QED
  BY <1>3, <1>4 DEF Verdicts

LEMMA AgreedStep ==
  ASSUME WriteBeforeDecision, Base, Verdicts, Grants, Agreed, [Next]_vars
  PROVE  Agreed'
<1> DEFINE Fits(s, file) == s.initialized /\ file.network = Decided(s, file)
<1> SUFFICES ASSUME settings' # NoFile PROVE \A s \in Versions' : Fits(s, settings')
  BY DEF Agreed
<1>1. CASE UNCHANGED settings
  <2>1. \A s \in Versions : Fits(s, settings)
    BY <1>1 DEF Agreed
  <2>2. Fits(st', settings)
    <3>1. CASE TransactionKept
      BY <3>1, <2>1, JournalStep, SMTT(30) DEF TransactionKept, Base, Versions, Decided, Chosen, IsPending
    <3>2. CASE Settle
      <4>1. CASE /\ st'.pending = [st.pending EXCEPT !.state = IF call.commit THEN "committed" ELSE "rolled_back"]
                 /\ st'.configuration.network = SettledNetwork /\ st'.initialized = st.initialized
        <5>1. ~IsPending(st')
          BY <4>1 DEF IsPending, Base, TypeOK, State, Pending
        <5>2. IsPending(st) /\ call.commit = Chosen(st, settings)
          BY <3>2, SettleShape DEF Verdicts, Verdict, Chosen, Base, Running
        <5>3. SettledNetwork = Decided(st, settings)
          BY <5>2 DEF SettledNetwork, Decided
        <5>4. QED
          BY <2>1, <4>1, <5>1, <5>3 DEF Decided, Versions
      <4>2. QED
        BY <3>1, <3>2, <4>1, SettleShape DEF Base
    <3>3. CASE ResetRemove
      BY <1>1, <3>1, <3>3, ResetShape
    <3>4. CASE Prepare
      <4>1. CASE /\ st.pending.state = "pending" /\ settings = st.pending.previous_hash
                 /\ st'.pending = [st.pending EXCEPT !.state = "committing"]
                 /\ st'.configuration = st.configuration /\ st'.initialized = st.initialized
        <5>1. /\ st'.pending.state = "committing" /\ st'.pending.candidate_hash = st.pending.candidate_hash
              /\ st'.pending.previous = st.pending.previous
          BY <4>1 DEF Base, TypeOK, State, Pending
        <5>2. settings # st.pending.candidate_hash
          BY <4>1 DEF Verdicts, Versions, IsPending
        <5>3. Decided(st', settings) = Decided(st, settings)
          BY <4>1, <5>1, <5>2 DEF Decided, Chosen, IsPending
        <5>4. QED
          BY <2>1, <4>1, <5>3 DEF Versions
      <4>2. CASE UNCHANGED st
        BY <2>1, <4>2 DEF Versions
      <4>3. QED
        BY <3>4, <4>1, <4>2, PrepareShape DEF Base
    <3>5. ASSUME NEW n \in Networks, BeginNetwork(n) PROVE Fits(st', settings)
      <4>1. /\ st'.pending.state = "pending" /\ st'.pending.previous = st.configuration.network 
            /\ ~IsPending(st) /\ st'.initialized = st.initialized
        BY <3>5, BeginShape DEF Base
      <4>2. QED
        BY <2>1, <4>1 DEF Versions, Decided, Chosen, IsPending
    <3>6. QED
      BY <3>1, <3>2, <3>3, <3>4, <3>5, TransactionSteps DEF Base
  <2>3. QED
    BY <1>1, <2>1, <2>2, VersionsStep DEF Base
<1>2. CASE AuthorityCommits
  <2>1. /\ UNCHANGED <<journal, st>> /\ settings' = authority.content /\ authority.phase = "granted"
        /\ st.pending.id = authority.id /\ st.pending.state = "committing"
    BY <1>2 DEF AuthorityCommits, Undecided, memory
  <2>2. /\ \A s \in Versions : s.pending = st.pending
        /\ st.pending.candidate_hash = authority.content
    BY <2>1 DEF Grants, Versions
  <2>3. authority.content.network = st.pending.network
    BY <2>1, <2>2 DEF Verdicts, Versions, IsPending
  <2>4. \A s \in Versions : s.initialized
    BY <2>1, <2>2 DEF Base, Running, IsPending
  <2>5. Versions' = Versions
    BY <2>1 DEF Versions
  <2>6. QED
    BY <2>1, <2>2, <2>3, <2>4, <2>5 DEF Decided, Chosen, IsPending
<1>3. CASE AuthoritySaves
  <2>1. /\ UNCHANGED <<journal, st>> /\ authority.phase = "applied"
        /\ settings' = [authority.content EXCEPT !.network = IF settings = NoFile THEN @ ELSE settings.network]
    BY <1>3 DEF AuthoritySaves, memory
  <2>2. \A s \in Versions : ~IsPending(s) /\ s.initialized /\ s.configuration.network = authority.content.network
    BY <2>1 DEF Grants
  <2>3. settings # NoFile => \A s \in Versions : settings.network = s.configuration.network
    BY <2>2 DEF Agreed, Decided
  <2>4. \A s \in Versions : settings'.network = s.configuration.network
    <3>1. settings'.network = IF settings = NoFile THEN authority.content.network ELSE settings.network
      BY <2>1 DEF Base, TypeOK, Configuration
    <3>2. QED
      BY <2>2, <2>3, <3>1
  <2>5. Versions' = Versions
    BY <2>1 DEF Versions
  <2>6. QED
    BY <2>2, <2>4, <2>5 DEF Decided
<1>4. QED
  BY <1>1, <1>2, <1>3, ProductSteps DEF Base

\* While a grant is out, the transaction in memory is kept or is not the granted
\* one in its committing state.
LEMMA GrantedKept ==
  ASSUME Base, Grants, [Next]_vars, authority.phase = "granted", UNCHANGED authority
  PROVE  TransactionKept \/ ~(st'.pending.id = authority.id /\ st'.pending.state \in {"pending", "committing"})
<1>1. CASE Settle
  BY <1>1, SettleShape DEF Base, TypeOK, State, Pending
<1>2. CASE Prepare
  <2>1. CASE UNCHANGED st
    BY <2>1 DEF TransactionKept
  <2>2. CASE st.pending.state = "pending" /\ st'.pending = [st.pending EXCEPT !.state = "committing"]
    <3>1. st'.pending.id = st.pending.id
      BY <2>2 DEF Base, TypeOK, State, Pending
    <3>2. QED
      BY <2>2, <3>1 DEF Grants, Versions
  <2>3. QED
    BY <1>2, <2>1, <2>2, PrepareShape DEF Base
<1>3. ~ResetRemove /\ ~(\E n \in Networks : BeginNetwork(n))
  BY ResetShape, BeginShape DEF Base, Grants
<1>4. QED
  BY <1>1, <1>2, <1>3, TransactionSteps DEF Base

LEMMA GrantsStep ==
  ASSUME Base, Grants, [Next]_vars
  PROVE  Grants'
<1>1. CASE authority' = NoGrant
  BY <1>1 DEF NoGrant, Grants
<1>2. CASE Reply
  <2>1. /\ pc = "reply" /\ pc' = "tick" /\ call'.catch = "stopped" /\ UNCHANGED <<journal, st>> /\ ~storage_failed
        /\ st = journal.visible /\ call.catch # "bootfailed"
    BY <1>2 DEF Reply, Loop, NewFrame, Base, Synced, Ahead, BootPlaces, Running, At
  <2>2. Versions' = Versions /\ ServicesUp' /\ Versions = {st, journal.stable}
    BY <2>1 DEF Versions, ServicesUp
  <2>3. CASE authority' = [phase |-> "granted", id |-> st.pending.id, content |-> st.pending.candidate_hash]
             /\ call.reply = "grant"
    <3>1. st.pending.state = "committing"
      BY <2>1, <2>3 DEF Base, Frames, At
    <3>2. journal.stable.pending = st.pending
      BY <2>1, <3>1 DEF Base, Frames, InService, DaemonPlaces, IsPending
    <3>3. QED
      BY <2>1, <2>2, <2>3, <3>1, <3>2, SMTT(30) DEF Grants
  <2>4. CASE authority' = [phase |-> "applied", id |-> 0, content |-> st.configuration] /\ call.reply = "applied"
    <3>1. ~IsPending(st) /\ st.initialized /\ journal.stable = st
      BY <2>1, <2>4 DEF Base, Frames
    <3>2. QED
      BY <2>1, <2>2, <2>4, <3>1 DEF Grants
  <2>5. CASE UNCHANGED authority
    BY <2>1, <2>2, <2>5 DEF Grants
  <2>6. QED
    BY <1>2, <2>3, <2>4, <2>5 DEF Reply
<1>3. CASE UNCHANGED authority /\ authority.phase # "idle"
  <2>1. ServicesUp
    BY <1>3 DEF Grants
  <2>2. ~(\E s \in Versions : MachineOff(s))
    BY <1>3 DEF MachineOff, NoGrant
  <2>3. ServicesUp' /\ ~ResetRemove /\ ~(\E n \in Networks : BeginNetwork(n))
    BY <1>3, <2>1, <2>2, ServicesStep, ResetShape, BeginShape DEF Base
  <2>4. CASE authority.phase = "applied"
    <3> DEFINE Still(s) == ~IsPending(s) /\ s.initialized /\ s.configuration.network = authority.content.network
    <3>1. \A s \in Versions : Still(s)
      BY <2>4 DEF Grants
    <3>2. CASE TransactionKept
      <4>1. Still(st')
        BY <3>1, <3>2, JournalStep, SMTT(30) DEF TransactionKept, Base, Versions, IsPending
      <4>2. QED
        BY <1>3, <2>3, <2>4, <3>1, <4>1, VersionsStep DEF Base, Grants
    <3>3. CASE Settle
      BY <3>1, <3>3, SettleShape DEF Base, Running, Versions
    <3>4. CASE Prepare
      <4>1. UNCHANGED st
        BY <3>1, <3>4, PrepareShape DEF Base, Versions, IsPending
      <4>2. QED
        BY <3>2, <4>1 DEF TransactionKept
    <3>5. QED
      BY <2>3, <3>2, <3>3, <3>4, TransactionSteps DEF Base
  <2>5. CASE authority.phase = "granted"
    <3> DEFINE Granted(s) == s.pending.id = authority.id
               Open(s) == Granted(s) /\ s.pending.state = "committing"
    <3>1. /\ \A s \in Versions : Granted(s) => s.pending.state # "pending"
          /\ \A s \in {st, journal.visible} : Open(s) =>
               /\ s.pending = journal.visible.pending /\ s.pending = journal.stable.pending
               /\ s.pending.candidate_hash = authority.content
      BY <2>5 DEF Grants
    <3>2. TransactionKept \/ ~(Granted(st') /\ st'.pending.state \in {"pending", "committing"})
      BY <1>3, <2>5, GrantedKept
    <3>3. \A s \in Versions' : Granted(s) => s.pending.state # "pending"
      <4>1. Granted(st') => st'.pending.state # "pending"
        BY <3>1, <3>2, JournalStep DEF TransactionKept, Base, Versions
      <4>2. QED
        BY <3>1, <4>1, VersionsStep DEF Base
    <3>4. \/ UNCHANGED journal
          \/ journal'.visible = st /\ journal'.stable \in {st, journal.stable}
      BY <2>2, JournalCases DEF Base
    <3>5. Open(journal'.visible) =>
            /\ journal'.visible.pending = journal'.stable.pending
            /\ journal'.visible.pending.candidate_hash = authority.content
      BY <3>1, <3>4
    <3>6. Open(st') => st'.pending = journal'.visible.pending
      BY <3>1, <3>2, <3>4, SMTT(30) DEF TransactionKept
    <3>7. QED
      BY <1>3, <2>3, <2>5, <3>3, <3>5, <3>6 DEF Grants
  <2>6. QED
    BY <1>3, <2>4, <2>5 DEF Base, TypeOK
<1>4. CASE UNCHANGED authority /\ authority.phase = "idle"
  BY <1>4 DEF Grants
<1>5. QED
  BY <1>1, <1>2, <1>3, <1>4, ProductSteps DEF Base

\* What every state keeps whatever the settings authority does: types, the journal
\* that is written, the operation that runs, resets and the running network.
THEOREM AlwaysBase == Spec => []Base
BY TypeCorrect, AlwaysSynced, OneOperationAlways, ResettingAlways, AlwaysRunning, AlwaysFrames, PTL DEF Base

\* While the authority writes only before the decision, every version of the
\* journal recovers to the network its settings file records.
THEOREM AlwaysAgreed == WriteBeforeDecision /\ Spec => [](Verdicts /\ Grants /\ Agreed)
<1> SUFFICES ASSUME WriteBeforeDecision PROVE Spec => [](Verdicts /\ Grants /\ Agreed)
  OBVIOUS
<1>1. Init => Verdicts /\ Grants /\ Agreed
  BY InitShape DEF Verdicts, Grants, Agreed
<1>2. Base /\ (Verdicts /\ Grants /\ Agreed) /\ [Next]_vars => (Verdicts /\ Grants /\ Agreed)'
  BY VerdictsStep, GrantsStep, AgreedStep
<1>3. QED
  BY <1>1, <1>2, AlwaysBase, PTL DEF Spec

\* Whenever no transaction is open, the network the daemon runs and journals is
\* the one in the authoritative settings file, through timeouts, cancels,
\* crashes, power loss and failed writes.
THEOREM AgreementAlways == WriteBeforeDecision /\ Spec => []Agreement
<1>1. TypeOK /\ Synced /\ Running /\ Agreed => Agreement
  <2> SUFFICES ASSUME TypeOK, Synced, Running, Agreed, pc = "serve", ~IsPending(st), settings # NoFile
               PROVE  settings.network = st.configuration.network /\ live.network = st.configuration.network
    BY DEF Agreement
  <2>1. Acting
    BY DEF Acting, ServicesUp, Synced, Running, At, BootPlaces, DaemonPlaces
  <2>2. live.network = st.configuration.network
    BY <2>1, ActingFacts DEF Covered
  <2>3. settings.network = st.configuration.network
    BY DEF Agreed, Decided, Versions
  <2>4. QED
    BY <2>2, <2>3
<1>2. QED
  BY <1>1, TypeCorrect, AlwaysSynced, AlwaysRunning, AlwaysAgreed, PTL

\* A daemon that serves an open transaction after a step has served it before,
\* or has just opened it.
LEMMA ServingStep ==
  ASSUME Base, [Next]_vars, Serving', IsPending(st'), ~storage_failed'
  PROVE  \/ Serving /\ IsPending(st) /\ ~storage_failed /\ st'.pending.id = st.pending.id
         \/ \E n \in Networks : BeginNetwork(n)
<1> DEFINE Served == Serving /\ IsPending(st) /\ ~storage_failed /\ st'.pending.id = st.pending.id
<1> SUFFICES ASSUME ~(\E n \in Networks : BeginNetwork(n)) PROVE Served
  OBVIOUS
<1>0. pc' \notin DeadPlaces \cup BootPlaces \cup {"start.recover"}
  BY DEF Serving, InService, DaemonPlaces, DeadPlaces, BootPlaces
<1>1. ASSUME pc \in {"throw", "tick", "serve", "boot.end", "settle", "undo", "boot.apply", "reset.remove"},
             Throw(storage_failed)
      PROVE  Served
  <2>1. call.catch = "tick" /\ st' = st /\ ~storage_failed
    BY <1>0, <1>1 DEF Throw, Halt, Base, Synced, DeadPlaces, TypeOK, Frame
  <2>2. InService
    BY <1>1, <2>1 DEF Base, Synced, Frames, InService, DaemonPlaces, BootPlaces
  <2>3. QED
    BY <2>1, <2>2 DEF Serving
<1>2. CASE Persist
  <2>1. ~Throw(TRUE)
    BY <1>0 DEF Throw, Halt, DeadPlaces
  <2>2. /\ pc = "save" /\ ~storage_failed /\ pc' = call.save /\ st' = st /\ call.save \in SaveReturns
    BY <1>2, <2>1 DEF Persist, Goto, memory, Base, TypeOK, Frame
  <2>3. QED
    BY <1>0, <2>2 DEF Serving, InService, SaveReturns, SettleReturns, DaemonPlaces, BootPlaces
<1>3. CASE Rethrow \/ TickStorageFailed \/ CallFails
  BY <1>1, <1>3 DEF Rethrow, TickStorageFailed, CallFails, Base, TypeOK
<1>4. CASE Settle
  <2>1. CASE st' = [st EXCEPT !.configuration.network = SettledNetwork,
                      !.pending.state = IF call.commit THEN "committed" ELSE "rolled_back"]
    <3>1. st'.pending.state \in {"committed", "rolled_back"}
      BY <2>1 DEF Base, TypeOK, State, Pending
    <3>2. QED
      BY <3>1 DEF IsPending
  <2>2. QED
    BY <1>1, <1>4, <2>1 DEF Settle
<1>5. CASE BootReset \/ BootRecover \/ BootFirst
  <2>1. pc' = "settle" /\ BootRecover
    BY <1>0, <1>5 DEF BootReset, BootRecover, BootFirst, Halt, Recover, BootPlaces, DeadPlaces
  <2>2. call' = [NewFrame("bootfailed") EXCEPT !.settle = "boot.apply", !.commit = Verdict]
    BY <1>0, <2>1 DEF BootRecover, Recover, BootPlaces
  <2>3. call'.settle = "boot.apply"
    BY <2>2, NewFrameType DEF Frame
  <2>4. QED
    BY <2>1, <2>3 DEF Serving, InService, DaemonPlaces
<1>6. CASE ResetRemove \/ BootApply \/ BootEnd
  <2>1. CASE Throw(storage_failed)
    BY <1>1, <1>6, <2>1 DEF ResetRemove, BootApply, BootEnd
  <2>2. CASE ~Throw(storage_failed)
    <3>1. pc' = "save" /\ call'.save \in {"boot.end", "boot.done"}
      BY <1>0, <1>6, <2>2 DEF ResetRemove, BootApply, BootEnd, Goto, Save, BootPlaces, Base, TypeOK, Frame
    <3>2. QED
      BY <3>1 DEF Serving, InService, DaemonPlaces
  <2>3. QED
    BY <2>1, <2>2
<1>7. CASE BootDone \/ Crash \/ PowerLoss \/ MachineStops \/ PowerCycle
  BY <1>0, <1>7 DEF BootDone, Crash, PowerLoss, MachineStops, PowerCycle, MachineOff, Halt, DeadPlaces
<1>8. CASE Start
  <2>1. CASE st.reset_intent /\ UNCHANGED st
    BY <2>1 DEF Base, OneOperation, Versions
  <2>2. CASE Save("start.recover")
    <3>1. pc' = "save" /\ call'.save = "start.recover"
      BY <2>2 DEF Save, Base, TypeOK, Frame
    <3>2. QED
      BY <3>1 DEF Serving, InService, DaemonPlaces
  <2>3. QED
    BY <1>0, <1>8, <2>1, <2>2 DEF Start, ResumeReset, Goto
<1>9. CASE StartRecover
  <2>1. Recover(call, "start.job")
    BY <1>9 DEF StartRecover, memory
  <2>2. pc' = "settle" /\ call'.settle = "start.job"
    BY <2>1 DEF Recover, Base, TypeOK, Frame
  <2>3. QED
    BY <2>2 DEF Serving, InService, DaemonPlaces
<1>10. CASE /\ pc \in {"tick", "tick.job", "start.job", "power", "reply", "serve", "prepare", "begin.apply", "undo"}
            /\ ~storage_failed /\ st'.pending.id = st.pending.id /\ (IsPending(st') => IsPending(st))
  BY <1>10 DEF Serving, InService, DaemonPlaces
<1>11. CASE TickPass \/ TickExpire \/ NoDispatch \/ Reply \/ ServeNone \/ BeginApply
            \/ GetNetworkTransaction \/ PrepareNetworkCommit
  <2>1. /\ pc \in {"tick", "tick.job", "reply", "serve", "begin.apply"} /\ ~storage_failed /\ st' = st
    BY <1>11 DEF TickPass, TickExpire, MayExpire, NoDispatch, Reply, ServeNone, BeginApply, GetNetworkTransaction,
      PrepareNetworkCommit, memory, Base, Synced
  <2>2. QED
    BY <1>10, <2>1
<1>12. CASE StartJob \/ Dispatch \/ PowerCall
  <2>1. /\ pc \in {"tick.job", "start.job", "power"} /\ ~storage_failed /\ st'.pending = st.pending
    BY <1>12 DEF StartJob, Dispatch, PowerCall, Base, TypeOK, State, Synced
  <2>2. QED
    BY <1>10, <2>1 DEF IsPending
<1>13. CASE Undo
  <2>1. CASE Save("throw") /\ UNCHANGED memory
    BY <1>10, <1>13, <2>1 DEF Undo, memory
  <2>2. QED
    BY <1>1, <1>13, <2>1 DEF Undo
<1>14. CASE Prepare
  <2>1. pc = "prepare" /\ ~storage_failed
    BY <1>14 DEF Prepare, Base, Synced
  <2>2. st'.pending.id = st.pending.id /\ (IsPending(st') => IsPending(st))
    BY <1>14, PrepareShape DEF IsPending, Base, TypeOK, State, Pending
  <2>3. QED
    BY <1>10, <2>1, <2>2
<1>15. ASSUME NEW p \in Preferences, ApplyPreferences(p) PROVE Served
  <2>1. pc = "serve" /\ ~storage_failed
    BY <1>15 DEF ApplyPreferences, Base, Synced
  <2>2. st'.pending = st.pending
    <3>1. CASE st' = [st EXCEPT !.configuration.preferences = p, !.initialized = TRUE]
      BY <3>1 DEF Base, TypeOK, State
    <3>2. QED
      BY <1>15, <3>1 DEF ApplyPreferences
  <2>3. QED
    BY <1>10, <2>1, <2>2 DEF IsPending
<1>16. ASSUME NEW action, AcceptJob(action) PROVE Served
  <2>1. pc = "serve" /\ ~storage_failed /\ st'.pending = st.pending
    BY <1>16 DEF AcceptJob, Idle, Base, TypeOK, State
  <2>2. QED
    BY <1>10, <2>1 DEF IsPending
<1>17. ASSUME NEW commit \in BOOLEAN, FinishNetwork(commit) PROVE Served
  <2>1. pc = "serve" /\ ~storage_failed /\ st' = st
    BY <1>17 DEF FinishNetwork, memory, Base, Synced
  <2>2. QED
    BY <1>10, <2>1
<1>18. CASE AuthorityCommits \/ AuthoritySaves \/ AuthorityGivesUp \/ CustomerWrites \/ UNCHANGED vars
  <2>1. UNCHANGED <<st, storage_failed, pc, call>>
    BY <1>18 DEF AuthorityCommits, AuthoritySaves, AuthorityGivesUp, CustomerWrites, vars, memory
  <2>2. QED
    BY <2>1 DEF Serving, InService
<1>19. CASE System
  BY <1>19, <1>2, <1>3, <1>4, <1>5, <1>6, <1>7, <1>8, <1>9, <1>11, <1>12, <1>13, <1>14 DEF System
<1>20. CASE Requests
  BY <1>20, <1>15, <1>16, <1>17, <1>11 DEF Requests, Power, ResetDevice
<1>21. QED
  BY <1>3, <1>7, <1>18, <1>19, <1>20 DEF Next, Environment

\* A version after a step has the outcome of one before it, or is a new
\* transaction, or has none; unless the authority decides.
LEMMA OutcomesStep ==
  ASSUME Base, Verdicts, Grants, Faithful, [Next]_vars, ~AuthorityCommits, NEW s \in Versions'
  PROVE  \/ \E o \in Versions : o.pending.id = s.pending.id /\ Outcome(o, settings) = Outcome(s, settings')
         \/ s = st' /\ s.pending.id = used.proposals + 1 /\ used'.proposals = used.proposals + 1 /\ UNCHANGED settings
         \/ s = st' /\ s.pending = NoPending
<1> DEFINE Old(v) == \E o \in Versions : o.pending.id = v.pending.id /\ Outcome(o, settings) = Outcome(v, settings')
<1>1. CASE AuthoritySaves
  <2>1. \A v \in Versions : ~IsPending(v)
    BY <1>1 DEF AuthoritySaves, Grants
  <2>2. Versions' = Versions
    BY <1>1 DEF AuthoritySaves, memory, Versions
  <2>3. QED
    BY <2>1, <2>2 DEF Outcome
<1>2. CASE ResetRemove
  <2>1. \A v \in Versions : ~IsPending(v)
    BY <1>2, ResetShape
  <2>2. \A v \in Versions : Old(v)
    BY <2>1 DEF Outcome
  <2>3. CASE st'.pending = NoPending
    BY <2>2, <2>3, VersionsStep DEF Base
  <2>4. CASE TransactionKept
    <3>1. Old(st')
      BY <2>1, <2>4, JournalStep DEF TransactionKept, Outcome, IsPending, Base, Versions
    <3>2. QED
      BY <2>2, <3>1, VersionsStep DEF Base
  <2>5. QED
    BY <1>2, <2>3, <2>4, ResetShape
<1>3. CASE UNCHANGED settings /\ ~ResetRemove
  <2>1. \A v \in Versions : Old(v)
    BY <1>3
  <2>2. st \in Versions
    BY DEF Versions
  <2>3. CASE TransactionKept
    <3>1. Old(st')
      BY <1>3, <2>3, JournalStep DEF TransactionKept, Outcome, Chosen, IsPending, Base, Versions
    <3>2. QED
      BY <2>1, <3>1, VersionsStep DEF Base
  <2>4. CASE Settle
    <3>1. CASE st'.pending = [st.pending EXCEPT !.state = IF call.commit THEN "committed" ELSE "rolled_back"]
      <4>1. st'.pending.state = (IF call.commit THEN "committed" ELSE "rolled_back") /\ st'.pending.id = st.pending.id
        BY <3>1 DEF Base, TypeOK, State, Pending
      <4>2. IsPending(st) /\ call.commit = Chosen(st, settings)
        BY <2>4, SettleShape DEF Verdicts, Verdict, Chosen, Base, Running
      <4>3. Outcome(st', settings') = Outcome(st, settings)
        BY <4>1, <4>2 DEF Outcome, IsPending
      <4>4. QED
        BY <2>1, <2>2, <4>1, <4>3, VersionsStep DEF Base
    <3>2. QED
      BY <2>3, <2>4, <3>1, SettleShape DEF Base
  <2>5. CASE Prepare
    <3>1. CASE st.pending.state = "pending" /\ settings = st.pending.previous_hash
               /\ st'.pending = [st.pending EXCEPT !.state = "committing"]
      <4>1. /\ st'.pending.state = "committing" /\ st'.pending.candidate_hash = st.pending.candidate_hash
            /\ st'.pending.id = st.pending.id
        BY <3>1 DEF Base, TypeOK, State, Pending
      <4>2. settings # st.pending.candidate_hash
        BY <3>1 DEF Verdicts, Versions, IsPending
      <4>3. Outcome(st', settings') = Outcome(st, settings)
        BY <1>3, <3>1, <4>1, <4>2 DEF Outcome, Chosen, IsPending
      <4>4. QED
        BY <2>1, <2>2, <4>1, <4>3, VersionsStep DEF Base
    <3>2. CASE UNCHANGED st
      BY <2>3, <3>2 DEF TransactionKept
    <3>3. QED
      BY <2>5, <3>1, <3>2, PrepareShape DEF Base
  <2>6. ASSUME NEW n \in Networks, BeginNetwork(n)
        PROVE  st'.pending.id = used.proposals + 1 /\ used'.proposals = used.proposals + 1
    BY <2>6, BeginShape DEF Base
  <2>7. CASE \E n \in Networks : BeginNetwork(n)
    BY <1>3, <2>1, <2>6, <2>7, VersionsStep DEF Base
  <2>8. QED
    BY <1>3, <2>3, <2>4, <2>5, <2>7, TransactionSteps DEF Base
<1>4. QED
  BY <1>1, <1>2, <1>3, ProductSteps DEF Base

LEMMA ReplyShape ==
  ASSUME Base, Reply
  PROVE  /\ pc = "reply" /\ UNCHANGED <<journal, st, settings, used, storage_failed>> /\ ~storage_failed
         /\ st = journal.visible
<1>1. pc = "reply" /\ UNCHANGED <<journal, st, settings, used, storage_failed>>
  BY DEF Reply
<1>2. QED
  BY <1>1 DEF Base, Synced, Ahead, BootPlaces

LEMMA FaithfulStep ==
  ASSUME WriteBeforeDecision, Base, Verdicts, Grants, Faithful, [Next]_vars
  PROVE  Faithful'
<1> TypeOK /\ Synced /\ Running /\ Frames
  BY DEF Base
<1> DEFINE New(s) == s = st' /\ s.pending.id = used.proposals + 1 /\ used'.proposals = used.proposals + 1
                     /\ UNCHANGED settings
           Old(s) == \E o \in Versions : o.pending.id = s.pending.id /\ Outcome(o, settings) = Outcome(s, settings')
           None(s) == s = st' /\ s.pending = NoPending
<1>1. /\ used.proposals \in Nat /\ used'.proposals \in Nat /\ used.proposals <= used'.proposals
      /\ used.proposals <= MaxProposals /\ used'.proposals <= MaxProposals
      /\ DOMAIN told = 1 .. MaxProposals /\ MaxProposals \in Nat
      /\ \A s \in Versions \cup Versions' : s.pending.id \in Nat
  <2>1. TypeOK'
    BY TypeStep
  <2>2. used.proposals \in Nat /\ MaxProposals \in Nat /\ used.proposals <= MaxProposals
    BY ConstantsAssumption DEF TypeOK, Faithful
  <2>3. \/ used'.proposals = used.proposals
        \/ used'.proposals = used.proposals + 1 /\ used.proposals < MaxProposals
    BY ProductSteps, BeginShape
  <2>4. \A s \in Versions \cup Versions' : s.pending.id \in Nat
    BY <2>1 DEF TypeOK, Versions, State, Pending
  <2>5. QED
    BY <2>2, <2>3, <2>4, SMTT(30) DEF TypeOK
<1>2. \A s \in Versions : s.pending.id <= used.proposals /\ (s.pending.id = 0 => s.pending.state = "none")
  BY DEF Faithful
<1>3. CASE AuthorityCommits
  <2>1. /\ UNCHANGED <<journal, st, told, storage_failed, pc, call, used>> /\ authority.phase = "granted"
        /\ st.pending.id = authority.id /\ st.pending.state = "committing" /\ authority'.phase # "granted"
    BY <1>3 DEF AuthorityCommits, Undecided, memory, history, NoGrant
  <2>2. /\ \A s \in Versions : s.pending = st.pending
        /\ Answer(st, told) = "none"
    BY <2>1 DEF Grants, Versions, Faithful
  <2>3. \A r, s \in Versions : Outcome(r, settings') = Outcome(s, settings')
    BY <2>2 DEF Outcome, Chosen, IsPending
  <2>4. \A s \in Versions : Answer(s, told) = "none"
    BY <2>2 DEF Answer
  <2>5. Versions' = Versions /\ Serving' = Serving
    BY <2>1 DEF Versions, Serving, InService
  <2>6. QED
    BY <1>1, <2>1, <2>3, <2>4, <2>5 DEF Faithful, Versions
<1>4. CASE ~AuthorityCommits
  <2>1. \A s \in Versions' : Old(s) \/ New(s) \/ None(s)
    BY <1>4, OutcomesStep
  <2>2. \A s \in Versions' : s.pending.id <= used'.proposals /\ (s.pending.id = 0 => s.pending.state = "none")
    <3>1. \A s \in Versions' : s.pending.id <= used'.proposals
      <4> SUFFICES ASSUME NEW s \in Versions' PROVE s.pending.id <= used'.proposals
        OBVIOUS
      <4>1. CASE Old(s)
        <5>1. s.pending.id <= used.proposals /\ s.pending.id \in Nat
          BY <1>1, <1>2, <4>1
        <5>2. QED
          BY <1>1, <5>1
      <4>2. CASE New(s)
        BY <1>1, <4>2
      <4>3. CASE None(s)
        BY <1>1, <4>3, SMTT(30) DEF NoPending
      <4>4. QED
        BY <2>1, <4>1, <4>2, <4>3
    <3>2. st'.pending.id = 0 => st'.pending.state = "none"
      <4>1. CASE TransactionKept
        BY <1>2, <4>1, JournalStep DEF TransactionKept, Versions
      <4>2. CASE Settle
        <5>1. IsPending(st) /\ st.pending.id # 0
          BY <1>2, <4>2, SettleShape DEF Running, Versions, IsPending
        <5>2. QED
          BY <4>1, <4>2, <5>1, SettleShape DEF TypeOK, State, Pending
      <4>3. CASE Prepare
        BY <1>2, <4>3, PrepareShape DEF TypeOK, State, Pending, Versions
      <4>4. CASE ResetRemove
        BY <4>1, <4>4, ResetShape DEF NoPending
      <4>5. ASSUME NEW n \in Networks, BeginNetwork(n) PROVE st'.pending.id # 0
        BY <1>1, <4>5, BeginShape, SMTT(30)
      <4>6. QED
        BY <4>1, <4>2, <4>3, <4>4, <4>5, TransactionSteps
    <3>3. QED
      BY <1>2, <3>1, <3>2, VersionsStep
  <2>3. \A r, s \in Versions' : r.pending.id = s.pending.id => Outcome(r, settings') = Outcome(s, settings')
    <3> SUFFICES ASSUME NEW r \in Versions', NEW s \in Versions', r.pending.id = s.pending.id
                 PROVE  Outcome(r, settings') = Outcome(s, settings')
      OBVIOUS
    <3>1. CASE r.pending.id = 0
      BY <2>2, <3>1 DEF Outcome, IsPending
    <3>2. CASE r.pending.id # 0
      <4>0. ~None(r) /\ ~None(s)
        <5>1. NoPending.id = 0
          BY DEF NoPending
        <5>2. QED
          BY <3>2, <5>1
      <4>1. (Old(r) \/ New(r)) /\ (Old(s) \/ New(s))
        BY <2>1, <4>0
      <4>2. \A o \in Versions : o.pending.id # used.proposals + 1
        BY <1>1, <1>2, SMTT(30)
      <4>3. CASE Old(r) /\ Old(s)
        <5>1. PICK q \in Versions : q.pending.id = r.pending.id /\ Outcome(q, settings) = Outcome(r, settings')
          BY <4>3
        <5>2. PICK t \in Versions : t.pending.id = s.pending.id /\ Outcome(t, settings) = Outcome(s, settings')
          BY <4>3
        <5>3. Outcome(q, settings) = Outcome(t, settings)
          BY <5>1, <5>2 DEF Faithful
        <5>4. QED
          BY <5>1, <5>2, <5>3
      <4>4. QED
        BY <4>1, <4>2, <4>3
    <3>3. QED
      BY <3>1, <3>2
  <2>4. CASE UNCHANGED told
    <3>1. \A i \in DOMAIN told : told[i] # "none" => i <= used.proposals /\ i # used.proposals + 1
      <4> SUFFICES ASSUME NEW i \in 1 .. MaxProposals, told[i] # "none"
                   PROVE  i <= used.proposals /\ i # used.proposals + 1
        BY <1>1
      <4>1. i <= used.proposals
        BY <1>1 DEF Faithful
      <4>2. QED
        BY <1>1, <4>1
    <3>2. \A i \in DOMAIN told' : told'[i] # "none" => i <= used'.proposals
      BY <1>1, <2>4, <3>1
    <3>3. \A s \in Versions' : Answer(s, told) # "none" => Answer(s, told) = Outcome(s, settings')
      <4> SUFFICES ASSUME NEW s \in Versions', Answer(s, told) # "none"
                   PROVE  Answer(s, told) = Outcome(s, settings')
        OBVIOUS
      <4>1. s.pending.id \in DOMAIN told /\ told[s.pending.id] # "none"
        BY DEF Answer
      <4>2. ~New(s) /\ ~None(s)
        <5>1. NoPending.id = 0
          BY DEF NoPending
        <5>2. s.pending.id # 0 /\ s.pending.id # used.proposals + 1
          BY <1>1, <3>1, <4>1, SMTT(30)
        <5>3. QED
          BY <5>1, <5>2
      <4>3. PICK o \in Versions : o.pending.id = s.pending.id /\ Outcome(o, settings) = Outcome(s, settings')
        BY <2>1, <4>2
      <4>4. Answer(o, told) = Answer(s, told)
        BY <4>3 DEF Answer
      <4>5. QED
        BY <4>3, <4>4 DEF Faithful
    <3>4. IsPending(st') /\ ~storage_failed' /\ Serving' => Answer(st', told) = "none"
      <4> SUFFICES ASSUME IsPending(st'), ~storage_failed', Serving' PROVE Answer(st', told) = "none"
        OBVIOUS
      <4>1. CASE Serving /\ IsPending(st) /\ ~storage_failed /\ st'.pending.id = st.pending.id
        BY <4>1 DEF Faithful, Answer
      <4>2. ASSUME NEW n \in Networks, BeginNetwork(n) PROVE Answer(st', told) = "none"
        BY <3>1, <4>2, BeginShape DEF Answer
      <4>3. QED
        BY <4>1, <4>2, ServingStep
    <3>5. authority'.phase = "granted" => \A s \in {st', journal'.visible} :
            s.pending.id = authority'.id /\ s.pending.state = "committing" => Answer(s, told) = "none"
      <4> SUFFICES ASSUME authority'.phase = "granted"
                   PROVE  \A s \in {st', journal'.visible} :
                            s.pending.id = authority'.id /\ s.pending.state = "committing" => Answer(s, told) = "none"
        OBVIOUS
      <4>1. CASE Reply /\ ~UNCHANGED authority
        <5>1. pc = "reply" /\ UNCHANGED <<journal, st>> /\ st = journal.visible /\ ~storage_failed
          BY <4>1, ReplyShape
        <5>2. call.reply = "grant"
          BY <4>1 DEF Reply
        <5>3. Answer(st, told) = "none"
          BY <5>1, <5>2 DEF Frames, At, Faithful, Serving, InService, DaemonPlaces, IsPending
        <5>4. QED
          BY <5>1, <5>3
      <4>2. CASE UNCHANGED authority
        <5> DEFINE Open(s) == s.pending.id = authority.id /\ s.pending.state = "committing"
        <5>1. \A s \in {st, journal.visible} : Open(s) => Answer(s, told) = "none"
          BY <4>2 DEF Faithful
        <5>2. journal'.visible \in {st, journal.visible}
          BY <4>2, JournalCases, SMTT(30) DEF MachineOff, NoGrant
        <5>3. Open(st') => (st'.pending.id = st.pending.id /\ Open(st)) \/ st' = journal'.visible
          BY <4>2, GrantedKept DEF TransactionKept
        <5>4. Open(journal'.visible) => Answer(journal'.visible, told) = "none"
          BY <5>1, <5>2
        <5>5. Open(st') => Answer(st', told) = "none"
          BY <5>1, <5>3, <5>4 DEF Answer
        <5>6. \A s : s.pending.id = authority'.id /\ s.pending.state = "committing" => Open(s)
          BY <4>2
        <5>7. QED
          BY <5>4, <5>5, <5>6
      <4>3. QED
        BY <4>1, <4>2, ProductSteps, SMTT(30) DEF NoGrant
    <3>6. QED
      BY <1>1, <2>2, <2>3, <2>4, <3>2, <3>3, <3>4, <3>5 DEF Faithful
  <2>5. CASE ~UNCHANGED told
    <3>1. Reply
      BY <2>5, ProductSteps
    <3>2. /\ pc = "reply" /\ UNCHANGED <<journal, st, settings, used, storage_failed>> /\ ~storage_failed
          /\ st = journal.visible /\ UNCHANGED authority
          /\ st.pending.state \in {"committed", "rolled_back"}
          /\ told' = [told EXCEPT ![st.pending.id] = st.pending.state]
      <4>1. call.reply = "outcome"
        BY <2>5, <3>1 DEF Reply
      <4>2. QED
        BY <2>5, <3>1, <4>1, ReplyShape DEF Reply
    <3>3. /\ st \in Versions /\ st.pending.id \in DOMAIN told /\ st.pending.id <= used.proposals
          /\ Versions' = Versions
      <4>1. st \in Versions /\ Versions' = Versions
        BY <3>2 DEF Versions
      <4>2. st.pending.id <= used.proposals /\ st.pending.id # 0 /\ st.pending.id \in Nat
        BY <1>1, <1>2, <3>2, <4>1
      <4>3. QED
        BY <1>1, <4>1, <4>2
    <3>4. /\ DOMAIN told' = DOMAIN told /\ told'[st.pending.id] = st.pending.state
          /\ \A i \in DOMAIN told : i # st.pending.id => told'[i] = told[i]
      BY <3>2, <3>3
    <3>5. \A i \in DOMAIN told' : told'[i] # "none" => i <= used'.proposals
      BY <3>2, <3>3, <3>4 DEF Faithful
    <3>6. Outcome(st, settings) = st.pending.state
      BY <3>2 DEF Outcome, IsPending
    <3>7. \A s \in Versions : Answer(s, told') # "none" => Answer(s, told') = Outcome(s, settings)
      BY <3>3, <3>4, <3>6 DEF Faithful, Answer
    <3>8. ~IsPending(st') /\ st'.pending.state # "committing" /\ journal'.visible = st'
      BY <3>2 DEF IsPending
    <3>9. QED
      BY <1>1, <2>2, <2>3, <3>2, <3>3, <3>5, <3>7, <3>8 DEF Faithful
  <2>6. QED
    BY <2>4, <2>5
<1>5. QED
  BY <1>3, <1>4

\* Every version of the journal recovers to the outcome clients have been told.
THEOREM AlwaysFaithful == WriteBeforeDecision /\ Spec => []Faithful
<1> SUFFICES ASSUME WriteBeforeDecision PROVE Spec => []Faithful
  OBVIOUS
<1>1. Init => Faithful
  <2> SUFFICES ASSUME Init PROVE Faithful
    OBVIOUS
  <2>1. \A i \in DOMAIN told : told[i] = "none"
    BY DEF Init
  <2>2. \A s \in Versions : Answer(s, told) = "none"
    BY <2>1 DEF Answer
  <2>3. used.proposals <= MaxProposals
    BY InitShape, ConstantsAssumption
  <2>4. /\ Versions = {Fresh} /\ st = Fresh /\ ~IsPending(Fresh) /\ Fresh.pending.id = 0
        /\ Fresh.pending.state = "none" /\ authority.phase = "idle" /\ used.proposals = 0
    BY InitShape
  <2>5. \A s \in Versions : s.pending.id <= used.proposals /\ (s.pending.id = 0 => s.pending.state = "none")
    BY <2>4, SMTT(30)
  <2>6. QED
    BY <2>1, <2>2, <2>3, <2>4, <2>5 DEF Faithful
<1>2. Base /\ Verdicts /\ Grants /\ Faithful /\ [Next]_vars => Faithful'
  BY FaithfulStep
<1>3. QED
  BY <1>1, <1>2, AlwaysBase, AlwaysAgreed, PTL DEF Spec

\* A client that has been told an outcome is never told the other one.
THEOREM OutcomesStay == WriteBeforeDecision /\ Spec => OutcomeStable
<1> SUFFICES ASSUME WriteBeforeDecision PROVE Spec => OutcomeStable
  OBVIOUS
<1> DEFINE Stable == \A i \in DOMAIN told : told[i] # "none" => told'[i] = told[i]
<1>1. TypeOK /\ Faithful /\ [Next]_vars => [Stable]_told
  <2> SUFFICES ASSUME TypeOK, Faithful, [Next]_vars, ~UNCHANGED told PROVE Stable
    OBVIOUS
  <2>1. Reply
    BY ProductSteps
  <2>2. /\ st.pending.state \in {"committed", "rolled_back"}
        /\ told' = [told EXCEPT ![st.pending.id] = st.pending.state]
    BY <2>1 DEF Reply
  <2>3. st.pending.id \in DOMAIN told /\ told[st.pending.id] # "none" => told[st.pending.id] = st.pending.state
    BY <2>2 DEF Faithful, Versions, Answer, Outcome, IsPending
  <2>4. QED
    BY <2>2, <2>3 DEF TypeOK
<1>2. QED
  BY <1>1, TypeCorrect, AlwaysFaithful, PTL DEF Spec, OutcomeStable
=============================================================================
