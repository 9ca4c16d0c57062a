-------------------------- MODULE SystemManagerSafety --------------------------
(***************************************************************************)
(* Machine-checked proofs about SystemManager, for every set of networks,  *)
(* preferences and reset paths and every bound.                            *)
(***************************************************************************)
EXTENDS SystemManager, TLAPS

\* The control state and the memory of the running process.
ProcessOK ==
  /\ st \in State /\ storage_failed \in BOOLEAN /\ job_deadline \in BOOLEAN
  /\ pc \in Places /\ call \in Frame

\* A new stack frame is a frame.
LEMMA NewFrameType ==
  \A catch \in {"tick", "undo", "stopped", "bootfailed"} : NewFrame(catch) \in Frame
BY ConstantsAssumption DEF NewFrame, Frame, SettleReturns, SaveReturns

\* Every Request(reply) is a frame that catches exceptions for an error reply.
LEMMA RequestType ==
  \A reply \in {"none", "outcome", "grant", "job", "applied"} :
    /\ Request(reply) \in Frame
    /\ Request(reply).catch = "tick"
BY ConstantsAssumption DEF Request, NewFrame, Frame, SettleReturns, SaveReturns

\* What the constructor builds, and the state after a reset, are well typed.
LEMMA FreshType == NoPending \in Pending /\ Fresh \in State
BY ConstantsAssumption DEF Fresh, NoPending, Pending, Job, State, Configuration

\* The end of a process leaves a well-typed process behind.
LEMMA HaltType ==
  ASSUME NEW place \in DeadPlaces, journal' \in [visible : State, stable : State], Halt(place)
  PROVE  ProcessOK'
BY NewFrameType DEF Halt, ProcessOK, DeadPlaces, Places

\* So does an exception, wherever it is caught.
LEMMA ThrowType ==
  ASSUME TypeOK, journal' \in [visible : State, stable : State],
         NEW failed \in BOOLEAN, Throw(failed)
  PROVE  ProcessOK'
<1>1. CASE call.catch = "tick" /\ Loop /\ storage_failed' = failed /\ UNCHANGED <<st, job_deadline>>
  BY <1>1, NewFrameType DEF Loop, ProcessOK, TypeOK, Places, DaemonPlaces
<1>2. CASE /\ call.catch = "undo"
           /\ pc' = "undo" /\ call' = [call EXCEPT !.catch = "tick"]
           /\ st' = [st EXCEPT !.configuration = call.previous]
           /\ storage_failed' = failed
           /\ UNCHANGED job_deadline
  <2>1. call' \in Frame
    BY <1>2 DEF TypeOK, Frame
  <2>2. st' \in State
    BY <1>2 DEF TypeOK, Frame, State
  <2>3. QED
    BY <1>2, <2>1, <2>2 DEF ProcessOK, TypeOK, Places, DaemonPlaces
<1>3. CASE call.catch \in DeadPlaces /\ Halt(call.catch)
  BY <1>3, HaltType
<1>4. QED
  BY <1>1, <1>2, <1>3 DEF Throw

\* Spending from a bound.
LEMMA UsedType ==
  ASSUME NEW u \in [proposals : Nat, jobs : Nat, faults : Nat, crashes : Nat]
  PROVE  /\ [u EXCEPT !.proposals = @ + 1] \in [proposals : Nat, jobs : Nat, faults : Nat, crashes : Nat]
         /\ [u EXCEPT !.jobs = @ + 1] \in [proposals : Nat, jobs : Nat, faults : Nat, crashes : Nat]
         /\ [u EXCEPT !.crashes = @ + 1] \in [proposals : Nat, jobs : Nat, faults : Nat, crashes : Nat]
OBVIOUS

\* Every step keeps every variable in its type.
LEMMA TypeStep == TypeOK /\ [Next]_vars => TypeOK'
<1> SUFFICES ASSUME TypeOK, [Next]_vars PROVE TypeOK'
  OBVIOUS
<1> USE ConstantsAssumption
<1> DEFINE Journals == [visible : State, stable : State]
           Live == [network : Networks \cup {Unknown}, preferences : Preferences \cup {Unknown}]
<1>a. ASSUME journal' \in Journals, ProcessOK', live' \in Live, Fault \/ UNCHANGED used,
             UNCHANGED <<going_down, product, history>>
      PROVE  TypeOK'
  BY <1>a, SMTT(30) DEF TypeOK, ProcessOK, Fault, product, history
<1>b. ASSUME UNCHANGED <<storage_failed, job_deadline>>, st' \in State, pc' \in Places, call' \in Frame
      PROVE  ProcessOK'
  BY <1>b DEF ProcessOK, TypeOK
<1>c. ASSUME NEW place \in SaveReturns, Save(place)
      PROVE  pc' \in Places /\ call' \in Frame
  BY <1>c DEF Save, TypeOK, Frame, Places
<1>d. ASSUME Loop PROVE pc' \in Places /\ call' \in Frame
  BY <1>d, NewFrameType DEF Loop, Places, DaemonPlaces
<1>e. call.save \in Places /\ call.settle \in SaveReturns /\ call.tick \in Places
  BY DEF TypeOK, Frame, Places, DaemonPlaces, BootPlaces, SaveReturns, SettleReturns
<1>f. ASSUME NEW setting \in {"network", "preferences"}, HalfApplied(setting)
      PROVE  live' \in Live
  BY <1>f DEF HalfApplied, TypeOK
<1>g. ASSUME NEW frame \in Frame, NEW place \in {"tick.job", "start.job", "boot.apply"},
             Recover(frame, place)
      PROVE  pc' \in Places /\ call' \in Frame
  <2>1. Verdict \in BOOLEAN
    BY DEF Verdict
  <2>2. QED
    BY <1>g, <2>1 DEF Recover, Frame, SettleReturns, Places
<1>h. ASSUME NEW frame \in Frame, NEW place \in SaveReturns, NEW tick \in {"serve", "reply", "prepare"}
      PROVE  /\ [frame EXCEPT !.save = place] \in Frame
             /\ [frame EXCEPT !.tick = tick] \in Frame
             /\ [frame EXCEPT !.save = place, !.tick = tick] \in Frame
  BY DEF Frame
<1>1. CASE Persist
  <2>1. journal' \in Journals
    <3>1. [journal EXCEPT !.visible = st] \in Journals /\ [visible |-> st, stable |-> st] \in Journals
      BY DEF TypeOK
    <3>2. QED
      BY <1>1, <3>1 DEF Persist, TypeOK
  <2>2. ProcessOK'
    <3>1. CASE Goto(call.save) /\ UNCHANGED memory
      BY <3>1, <1>e DEF Goto, memory, ProcessOK, TypeOK
    <3>2. CASE Throw(TRUE)
      BY <3>2, <2>1, ThrowType
    <3>3. QED
      BY <1>1, <3>1, <3>2 DEF Persist
  <2>3. QED
    BY <1>1, <2>1, <2>2, <1>a DEF Persist, world, TypeOK
<1>2. CASE Rethrow \/ TickStorageFailed \/ CallFails
  <2>1. Throw(storage_failed) /\ UNCHANGED <<journal, world, history>> /\ (Fault \/ UNCHANGED used)
    BY <1>2 DEF Rethrow, TickStorageFailed, CallFails, TypeOK
  <2>2. ProcessOK'
    BY <2>1, ThrowType DEF TypeOK
  <2>3. QED
    BY <2>1, <2>2, <1>a DEF world, TypeOK
<1>3. CASE Reply
  <2>1. pc' \in Places /\ call' \in Frame
    BY <1>3, <1>d DEF Reply
  <2>2. told' \in [1 .. MaxProposals -> {"none", "committed", "rolled_back"}]
    BY <1>3 DEF Reply, TypeOK
  <2>3. authority' \in [phase : {"idle", "applied", "granted"}, id : Nat, content : Configuration]
    BY <1>3 DEF Reply, TypeOK, State, Pending
  <2>4. job_deadline' \in BOOLEAN
    BY <1>3 DEF Reply, TypeOK
  <2>5. QED
    BY <1>3, <2>1, <2>2, <2>3, <2>4 DEF Reply, TypeOK
<1>4. CASE Settle
  <2>1. SettledNetwork \in Networks
    BY DEF SettledNetwork, TypeOK, State, Pending
  <2>2. CASE /\ live' = [live EXCEPT !.network = SettledNetwork]
             /\ st' = [st EXCEPT !.configuration.network = SettledNetwork,
                         !.pending.state = IF call.commit THEN "committed" ELSE "rolled_back"]
             /\ Save(call.settle)
             /\ UNCHANGED <<storage_failed, job_deadline, used>>
    <3>1. st' \in State
      BY <2>1, <2>2, ZenonT(30) DEF TypeOK, State, Pending, Configuration
    <3>2. ProcessOK'
      BY <2>2, <3>1, <1>b, <1>c, <1>e
    <3>3. QED
      BY <1>4, <2>1, <2>2, <3>2, <1>a DEF Settle, TypeOK
  <2>3. CASE HalfApplied("network") /\ Throw(storage_failed)
    BY <1>4, <2>3, <1>f, <1>a, ThrowType DEF Settle, HalfApplied, TypeOK
  <2>4. QED
    BY <1>4, <2>2, <2>3 DEF Settle
<1>5. CASE BootReset
  <2>1. ProcessOK'
    <3>1. CASE /\ pc' = "reset.remove"
               /\ call' = [NewFrame("bootfailed") EXCEPT !.todo = ResetPaths]
               /\ UNCHANGED memory
      <4>1. call' \in Frame
        BY <3>1, NewFrameType DEF Frame
      <4>2. QED
        BY <3>1, <4>1 DEF ProcessOK, TypeOK, memory, Places, BootPlaces
    <3>2. CASE Halt("bootfailed")
      BY <1>5, <3>2, HaltType DEF BootReset, PowerOn, DeadPlaces, TypeOK
    <3>3. QED
      BY <1>5, <3>1, <3>2 DEF BootReset
  <2>2. QED
    <3>1. used' \in [proposals : Nat, jobs : Nat, faults : Nat, crashes : Nat]
      BY <1>5 DEF BootReset, Fault, TypeOK
    <3>2. live' \in Live
      BY <1>5 DEF BootReset, NothingApplied
    <3>3. QED
      BY <1>5, <2>1, <3>1, <3>2 DEF BootReset, PowerOn, TypeOK, ProcessOK, product, history
<1>6. CASE BootRecover
  <2>1. pc' \in Places /\ call' \in Frame
    BY <1>6, <1>g, NewFrameType DEF BootRecover, Places, BootPlaces
  <2>2. QED
    BY <1>6, <2>1 DEF BootRecover, PowerOn, NothingApplied, TypeOK, memory, product, history
<1>7. CASE BootFirst
  <2>1. st' \in State
    BY <1>7 DEF BootFirst, TypeOK, State
  <2>2. pc' \in Places /\ call' \in Frame
    BY <1>7, NewFrameType DEF BootFirst, Places, BootPlaces
  <2>3. live' \in Live
    BY <1>7 DEF BootFirst, NothingApplied, Configuration
  <2>4. QED
    BY <1>7, <2>1, <2>2, <2>3 DEF BootFirst, PowerOn, TypeOK, product, history
<1>8. CASE ResetRemove
  <2>1. CASE /\ st' = [st EXCEPT !.configuration = Defaults, !.initialized = TRUE, !.pending = NoPending]
             /\ Goto("boot.apply")
             /\ UNCHANGED <<storage_failed, job_deadline, settings, data, used>>
    <3>1. st' \in State
      BY <2>1, FreshType DEF TypeOK, State
    <3>2. QED
      BY <1>8, <2>1, <3>1 DEF ResetRemove, Goto, TypeOK, Places, BootPlaces, history
  <2>2. CASE \E p \in call.todo :
               /\ call' = [call EXCEPT !.todo = @ \ {p}]
               /\ data' = data \ {p}
               /\ settings' = IF p = SettingsPath THEN NoFile ELSE settings
               /\ UNCHANGED <<pc, memory, used>>
    <3>1. call' \in Frame
      BY <2>2, SMTT(30) DEF TypeOK, Frame
    <3>2. QED
      BY <1>8, <2>2, <3>1 DEF ResetRemove, TypeOK, memory, history
  <2>3. CASE Fault /\ Throw(storage_failed) /\ UNCHANGED <<settings, data>>
    BY <1>8, <2>3, <1>a, ThrowType DEF ResetRemove, TypeOK, product
  <2>4. QED
    BY <1>8, <2>1, <2>2, <2>3 DEF ResetRemove
<1>9. CASE BootApply
  <2>1. live' \in Live
    BY <1>9 DEF BootApply, TypeOK, State, Configuration
  <2>2. ASSUME Throw(storage_failed) PROVE ProcessOK'
    BY <1>9, <2>2, ThrowType DEF BootApply, TypeOK
  <2>3. ASSUME Goto("boot.end"), UNCHANGED <<st, storage_failed, job_deadline>> PROVE ProcessOK'
    BY <2>3 DEF Goto, ProcessOK, TypeOK, Places, BootPlaces
  <2>4. ASSUME st' = [st EXCEPT !.initialized = TRUE, !.reset_intent = FALSE,
                        !.job.state = IF st.reset_intent THEN "completed" ELSE @],
               Save("boot.end"), UNCHANGED <<storage_failed, job_deadline>>
        PROVE  ProcessOK'
    <3>1. [st.job EXCEPT !.state = IF st.reset_intent THEN "completed" ELSE @] \in Job
      BY DEF TypeOK, State, Job
    <3>2. st' = [st EXCEPT !.initialized = TRUE, !.reset_intent = FALSE,
                   !.job = [st.job EXCEPT !.state = IF st.reset_intent THEN "completed" ELSE @]]
      BY <2>4 DEF TypeOK, State
    <3>3. st' \in State
      BY <3>1, <3>2 DEF TypeOK, State
    <3>4. QED
      BY <2>4, <3>3, <1>b, <1>c DEF SaveReturns
  <2>5. ProcessOK'
    BY <1>9, <2>2, <2>3, <2>4 DEF BootApply
  <2>6. QED
    BY <1>9, <2>1, <2>5, <1>a DEF BootApply, TypeOK
<1>10. CASE BootEnd
  BY <1>10, <1>c DEF BootEnd, Goto, TypeOK, SaveReturns, Places, BootPlaces, memory, world, product, history
<1>11. CASE BootDone
  BY <1>11, <1>a, HaltType DEF BootDone, TypeOK, DeadPlaces, world
<1>12. CASE Start
  <2>1. st' \in State
    <3>1. \A c \in Configuration : [st EXCEPT !.configuration = c, !.initialized = TRUE] \in State
      BY DEF TypeOK, State
    <3>2. st \in State
      BY DEF TypeOK
    <3>3. QED
      BY <1>12, <3>1, <3>2 DEF Start, ResumeReset
  <2>2. pc' \in Places /\ call' \in Frame
    BY <1>12, <1>c, <1>d DEF Start, ResumeReset, Goto, TypeOK, SaveReturns, Places, DaemonPlaces
  <2>3. job_deadline' \in BOOLEAN
    BY <1>12 DEF Start, ResumeReset, TypeOK
  <2>4. QED
    BY <1>12, <2>1, <2>2, <2>3 DEF Start, TypeOK, world, product, history
<1>13. CASE StartRecover \/ TickExpire \/ TickPass \/ NoDispatch
  <2>1. pc' \in Places /\ call' \in Frame
    BY <1>13, <1>e, <1>g DEF StartRecover, TickExpire, TickPass, NoDispatch, Goto, TypeOK,
                             Places, DaemonPlaces
  <2>2. QED
    BY <1>13, <2>1, ZenonT(30) DEF StartRecover, TickExpire, TickPass, NoDispatch, TypeOK, memory, world,
                       product, history
<1>14. CASE StartJob \/ Dispatch \/ Prepare
  <2>1. st' \in State
    <3>1. /\ [st EXCEPT !.job.state = "interrupted"] \in State
          /\ [st EXCEPT !.job.state = "dispatched"] \in State
          /\ [st EXCEPT !.pending.state = "committing"] \in State
      BY ZenonT(30) DEF TypeOK, State, Job, Pending
    <3>2. QED
      BY <1>14, <3>1 DEF StartJob, Dispatch, Prepare, TypeOK
  <2>2. pc' \in Places /\ call' \in Frame
    BY <1>14, <1>c, <1>d DEF StartJob, Dispatch, Prepare, Goto, TypeOK, SettleReturns, SaveReturns,
                             Places, DaemonPlaces
  <2>3. QED
    BY <1>14, <2>1, <2>2, ZenonT(30) DEF StartJob, Dispatch, Prepare, TypeOK, world, product, history
<1>15. CASE PowerCall
  <2>1. st' \in State
    <3>1. [st EXCEPT !.job.state = "failed"] \in State
      BY DEF TypeOK, State, Job
    <3>2. QED
      BY <1>15, <3>1 DEF PowerCall, TypeOK
  <2>2. pc' \in Places /\ call' \in Frame
    BY <1>15, <1>c, <1>e DEF PowerCall, Goto, TypeOK, SettleReturns, SaveReturns
  <2>3. handed' \in SUBSET Nat
    BY <1>15, SMTT(30) DEF PowerCall, TypeOK, State, Job
  <2>4. used' \in [proposals : Nat, jobs : Nat, faults : Nat, crashes : Nat]
    BY <1>15 DEF PowerCall, Fault, TypeOK
  <2>5. QED
    BY <1>15, <2>1, <2>2, <2>3, <2>4 DEF PowerCall, TypeOK, product
<1>16. CASE ServeNone
  BY <1>16, <1>d DEF ServeNone, TypeOK, memory, world, product, history
<1>17. ASSUME NEW p \in Preferences, ApplyPreferences(p) PROVE TypeOK'
  <2> DEFINE frame == [Request("applied") EXCEPT !.previous = st.configuration]
  <2>1. frame \in Frame /\ [frame EXCEPT !.catch = "undo", !.save = "reply"] \in Frame
    <3>1. Request("applied") \in Frame /\ st.configuration \in Configuration
      BY RequestType DEF TypeOK, State
    <3>2. frame \in Frame
      BY <3>1 DEF Frame
    <3>3. QED
      BY <3>2, ZenonT(30) DEF Frame, SettleReturns, SaveReturns
  <2>2. /\ [st EXCEPT !.configuration.preferences = p, !.initialized = TRUE] \in State
        /\ [live EXCEPT !.preferences = p] \in Live
    BY <1>17 DEF TypeOK, State, Configuration
  <2>3. pc' \in Places /\ call' \in Frame
    BY <1>17, <2>1 DEF ApplyPreferences, Places, DaemonPlaces
  <2>4. st' \in State /\ live' \in Live /\ (Fault \/ UNCHANGED used)
    BY <1>17, <2>2, <1>f DEF ApplyPreferences, HalfApplied, TypeOK
  <2>5. QED
    BY <1>17, <2>3, <2>4, <1>a, <1>b DEF ApplyPreferences, TypeOK
<1>18. CASE Undo
  <2>1. [live EXCEPT !.preferences = call.previous.preferences] \in Live
    BY DEF TypeOK, Frame, Configuration
  <2>2. ASSUME Throw(storage_failed) PROVE ProcessOK'
    BY <1>18, <2>2, ThrowType DEF Undo, TypeOK
  <2>3. ASSUME Save("throw"), UNCHANGED memory PROVE ProcessOK'
    BY <2>3, <1>c DEF memory, ProcessOK, TypeOK, SettleReturns, SaveReturns
  <2>4. ProcessOK' /\ live' \in Live /\ (Fault \/ UNCHANGED used)
    BY <1>18, <2>1, <2>2, <2>3, <1>f DEF Undo, HalfApplied
  <2>5. QED
    BY <1>18, <2>4, <1>a DEF Undo, TypeOK
<1>19. ASSUME NEW n \in Networks, BeginNetwork(n) PROVE TypeOK'
  <2>1. [id |-> used.proposals + 1, state |-> "pending", network |-> n,
         previous |-> st.configuration.network, previous_hash |-> settings,
         candidate_hash |-> [settings EXCEPT !.network = n]] \in Pending
    <3>1. settings \in Configuration /\ [settings EXCEPT !.network = n] \in Configuration
      BY <1>19 DEF BeginNetwork, TypeOK, Configuration
    <3>2. used.proposals + 1 \in Nat /\ st.configuration.network \in Networks
      BY DEF TypeOK, State, Configuration
    <3>3. QED
      BY <3>1, <3>2 DEF Pending
  <2>2. st' \in State
    BY <1>19, <2>1 DEF BeginNetwork, TypeOK, State
  <2>3. pc' \in Places /\ call' \in Frame
    <3>1. [Request("outcome") EXCEPT !.save = "begin.apply", !.tick = "reply"] \in Frame
      <4>1. "begin.apply" \in SaveReturns
        BY DEF SaveReturns
      <4>2. QED
        BY <4>1, RequestType, <1>h
    <3>2. QED
      BY <1>19, <3>1 DEF BeginNetwork, Places
  <2>4. used' \in [proposals : Nat, jobs : Nat, faults : Nat, crashes : Nat]
    <3>1. [used EXCEPT !.proposals = @ + 1] \in [proposals : Nat, jobs : Nat, faults : Nat, crashes : Nat]
      BY UsedType DEF TypeOK
    <3>2. QED
      BY <1>19, <3>1 DEF BeginNetwork
  <2>5. QED
    BY <1>19, <2>2, <2>3, <2>4 DEF BeginNetwork, TypeOK, world, product, history
<1>20. CASE BeginApply
  <2>1. [live EXCEPT !.network = st.pending.network] \in Live
    BY DEF TypeOK, State, Pending
  <2>2. [call EXCEPT !.settle = "throw", !.commit = FALSE] \in Frame
    BY DEF TypeOK, Frame, SettleReturns
  <2>3. pc' \in Places /\ call' \in Frame
    BY <1>20, <2>2 DEF BeginApply, Goto, TypeOK, Places, DaemonPlaces
  <2>4. live' \in Live /\ (Fault \/ UNCHANGED used)
    BY <1>20, <2>1, <1>f DEF BeginApply, HalfApplied
  <2>5. QED
    BY <1>20, <2>3, <2>4, <1>a, <1>b DEF BeginApply, TypeOK, memory
<1>21. CASE GetNetworkTransaction \/ PrepareNetworkCommit
  <2>1. pc' \in Places /\ call' \in Frame
    BY <1>21, RequestType, <1>h DEF GetNetworkTransaction, PrepareNetworkCommit, Places, DaemonPlaces,
                                    SaveReturns
  <2>2. QED
    BY <1>21, <2>1 DEF GetNetworkTransaction, PrepareNetworkCommit, TypeOK, memory, world,
                       product, history
<1>22. ASSUME NEW commit \in BOOLEAN, FinishNetwork(commit) PROVE TypeOK'
  <2>1. [Request("outcome") EXCEPT !.settle = "reply", !.commit = commit] \in Frame
    BY RequestType, ZenonT(30) DEF Frame, SettleReturns
  <2>2. pc' \in Places /\ call' \in Frame
    BY <1>22, <2>1, RequestType DEF FinishNetwork, Places, DaemonPlaces
  <2>3. QED
    BY <1>22, <2>2 DEF FinishNetwork, TypeOK, memory, world, product, history
<1>23. ASSUME NEW action \in {"reboot", "shutdown", "device_reset"}, AcceptJob(action) PROVE TypeOK'
  <2>1. [id |-> used.jobs + 1, action |-> action, state |-> "accepted"] \in Job
    BY DEF TypeOK, Job
  <2>3. st' \in State
    <3>1. \A job \in Job, intent \in BOOLEAN : [st EXCEPT !.job = job, !.reset_intent = intent] \in State
      BY DEF TypeOK, State
    <3>2. (st.reset_intent \/ action = "device_reset") \in BOOLEAN
      OBVIOUS
    <3>3. QED
      BY <1>23, <2>1, <3>1, <3>2 DEF AcceptJob
  <2>4. pc' \in Places /\ call' \in Frame
    BY <1>23, RequestType, <1>h DEF AcceptJob, Places, SettleReturns, SaveReturns
  <2>5. used' \in [proposals : Nat, jobs : Nat, faults : Nat, crashes : Nat]
    <3>1. [used EXCEPT !.jobs = @ + 1] \in [proposals : Nat, jobs : Nat, faults : Nat, crashes : Nat]
      BY UsedType DEF TypeOK
    <3>2. QED
      BY <1>23, <3>1 DEF AcceptJob
  <2>6. QED
    BY <1>23, <2>3, <2>4, <2>5 DEF AcceptJob, TypeOK, world, product, history
<1>24. CASE AuthorityCommits \/ AuthoritySaves \/ AuthorityGivesUp \/ CustomerWrites
  <2>1. NoGrant \in [phase : {"idle", "applied", "granted"}, id : Nat, content : Configuration]
    BY DEF NoGrant
  <2>2. [authority.content EXCEPT !.network = IF settings = NoFile THEN @ ELSE settings.network]
           \in Configuration
    BY DEF TypeOK, Configuration
  <2>3. settings' \in Configuration \cup {NoFile}
    BY <1>24, <2>2 DEF AuthorityCommits, AuthoritySaves, AuthorityGivesUp, CustomerWrites, TypeOK
  <2>4. /\ authority' \in {authority, NoGrant}
        /\ data' \in SUBSET ResetPaths
        /\ UNCHANGED <<journal, memory, pc, call, live, going_down, history, used>>
    BY <1>24 DEF AuthorityCommits, AuthoritySaves, AuthorityGivesUp, CustomerWrites, TypeOK
  <2>5. QED
    BY <2>1, <2>3, <2>4 DEF TypeOK, memory, history
<1>25. CASE Crash
  <2>1. journal' \in Journals
    BY <1>25 DEF Crash, TypeOK
  <2>2. ProcessOK'
    BY <1>25, <2>1, HaltType DEF Crash, DeadPlaces
  <2>3. used' \in [proposals : Nat, jobs : Nat, faults : Nat, crashes : Nat]
    <3>1. [used EXCEPT !.crashes = @ + 1] \in [proposals : Nat, jobs : Nat, faults : Nat, crashes : Nat]
      BY UsedType DEF TypeOK
    <3>2. QED
      BY <1>25, <3>1 DEF Crash, CrashBudget
  <2>4. QED
    BY <1>25, <2>1, <2>2, <2>3 DEF Crash, ProcessOK, TypeOK, world, product, history
<1>26. CASE PowerLoss \/ MachineStops \/ PowerCycle
  <2>1. PICK s \in State : MachineOff(s)
    BY <1>26 DEF PowerLoss, MachineStops, PowerCycle, TypeOK
  <2>2. journal' \in Journals
    BY <2>1 DEF MachineOff
  <2>3. ProcessOK'
    BY <2>1, <2>2, HaltType DEF MachineOff, DeadPlaces
  <2>4. used' \in [proposals : Nat, jobs : Nat, faults : Nat, crashes : Nat]
    BY <1>26 DEF PowerLoss, MachineStops, PowerCycle, CrashBudget, TypeOK
  <2>5. QED
    BY <2>1, <2>2, <2>3, <2>4 DEF MachineOff, NoGrant, ProcessOK, TypeOK, history
<1>27. CASE UNCHANGED vars
  BY <1>27 DEF vars, memory, world, product, history, TypeOK
<1>28. QED
  BY <1>1, <1>2, <1>3, <1>4, <1>5, <1>6, <1>7, <1>8, <1>9, <1>10, <1>11, <1>12, <1>13, <1>14,
     <1>15, <1>16, <1>17, <1>18, <1>19, <1>20, <1>21, <1>22, <1>23, <1>24, <1>25, <1>26, <1>27
     DEF Next, System, Requests, Environment, Power, ResetDevice

\* Every variable keeps its type: no crash, failed call or uncertain write
\* makes the daemon hold or journal a malformed state.
THEOREM TypeCorrect == Spec => []TypeOK
<1>1. Init => TypeOK
  <2>1. Init => /\ told \in [1 .. MaxProposals -> {"none", "committed", "rolled_back"}]
                /\ used \in [proposals : Nat, jobs : Nat, faults : Nat, crashes : Nat]
    BY DEF Init
  <2>2. NewFrame("stopped") \in Frame
    BY NewFrameType
  <2>3. Init => pc \in Places
    BY DEF Init, Places, DeadPlaces
  <2>4. Init => /\ live \in [network : Networks \cup {Unknown}, preferences : Preferences \cup {Unknown}]
                /\ authority \in [phase : {"idle", "applied", "granted"}, id : Nat, content : Configuration]
                /\ journal \in [visible : State, stable : State]
    BY ConstantsAssumption, FreshType DEF Init, NoGrant
  <2>5. QED
    BY FreshType, <2>1, <2>2, <2>3, <2>4 DEF Init, TypeOK
<1>2. QED
  BY <1>1, TypeStep, PTL DEF Spec


-----------------------------------------------------------------------------
(* MemoryIsJournal.                                                        *)

\* Places at which state_ is ahead of the journal.
Ahead == BootPlaces \cup {"save"}

\* Memory is the journal except ahead of a write or after a failed one; a failed
\* write is known only to the tick() that ends the daemon and to the rollback of
\* apply(); only apply() arranges for that rollback; an exception in bootstrap
\* ends it.
Synced ==
  /\ ~storage_failed /\ pc \notin Ahead => st = journal.visible
  /\ storage_failed => pc \in {"tick", "undo", "save"}
  /\ call.catch = "undo" => (pc = "save" /\ call.save = "reply") \/ pc = "reply"
  /\ \/ pc \in BootPlaces
     \/ pc = "save" /\ call.save \in BootPlaces
     \/ pc = "settle" /\ call.settle = "boot.apply"
     => call.catch = "bootfailed"

\* An exception caught where nothing awaits a write, or after a failed one.
LEMMA ThrowSynced ==
  ASSUME TypeOK, NEW failed \in BOOLEAN, Throw(failed),
         failed \/ (call.catch # "undo" /\ (call.catch = "tick" => st = journal'.visible))
  PROVE  Synced'
BY NewFrameType DEF Throw, Loop, Halt, Synced, NewFrame, TypeOK, Frame, Ahead, BootPlaces, DeadPlaces

LEMMA SyncedStep == TypeOK /\ Synced /\ [Next]_vars => Synced'
<1> SUFFICES ASSUME TypeOK, Synced, [Next]_vars PROVE Synced'
  OBVIOUS
<1>1. CASE Persist
  <2>1. CASE /\ ~storage_failed
             /\ journal' = [visible |-> st, stable |-> st]
             /\ Goto(call.save)
             /\ UNCHANGED memory
    BY <1>1, <2>1 DEF Persist, Synced, Goto, memory, TypeOK, Frame, SaveReturns, SettleReturns
  <2>2. CASE Throw(TRUE)
    BY <2>2, ThrowSynced
  <2>3. QED
    BY <1>1, <2>1, <2>2 DEF Persist
<1>2. CASE Rethrow \/ TickStorageFailed \/ CallFails
  <2>1. Throw(storage_failed) /\ journal' = journal /\ pc \in {"throw", "tick", "serve", "boot.end"}
    BY <1>2 DEF Rethrow, TickStorageFailed, CallFails, TypeOK
  <2>2. QED
    BY <2>1, ThrowSynced DEF Synced, TypeOK, Ahead, BootPlaces
<1>3. CASE Reply
  BY <1>3 DEF Reply, Loop, NewFrame, Synced, Ahead, BootPlaces
<1>4. CASE Settle
  <2>1. CASE Save(call.settle) /\ UNCHANGED storage_failed
    <3>1. /\ pc = "settle" /\ pc' = "save" /\ call'.save = call.settle /\ call'.catch = call.catch
          /\ call.settle \in SettleReturns
      BY <1>4, <2>1 DEF Settle, Save, TypeOK, Frame
    <3>2. QED
      BY <2>1, <3>1 DEF Synced, Ahead, BootPlaces, SettleReturns
  <2>2. CASE Throw(storage_failed)
    BY <1>4, <2>2, ThrowSynced DEF Settle, Synced, TypeOK, Ahead, BootPlaces
  <2>3. QED
    BY <1>4, <2>1, <2>2 DEF Settle
<1>5. CASE BootReset \/ BootRecover \/ BootFirst
  <2>1. ~storage_failed /\ st = journal.visible /\ journal' = journal
    BY <1>5 DEF BootReset, BootRecover, BootFirst, PowerOn, Synced, Ahead, BootPlaces
  <2>2. CASE BootReset
    BY <2>1, <2>2 DEF BootReset, Halt, memory, NewFrame, Synced, Ahead, BootPlaces
  <2>3. CASE BootRecover
    <3>1. NewFrame("bootfailed") \in Frame /\ NewFrame("bootfailed").catch = "bootfailed"
      BY NewFrameType DEF NewFrame
    <3>2. call'.catch = "bootfailed" /\ pc' \in {"settle", "boot.apply"}
      BY <2>3, <3>1 DEF BootRecover, Recover, Frame
    <3>3. QED
      BY <2>1, <2>3, <3>2 DEF BootRecover, memory, Synced, Ahead, BootPlaces
  <2>4. CASE BootFirst
    BY <2>1, <2>4 DEF BootFirst, NewFrame, Synced, Ahead, BootPlaces
  <2>5. QED
    BY <1>5, <2>2, <2>3, <2>4
<1>6. CASE ResetRemove \/ BootApply
  <2>1. pc \in BootPlaces /\ call.catch = "bootfailed" /\ ~storage_failed
    BY <1>6 DEF ResetRemove, BootApply, Synced, BootPlaces
  <2>2. CASE Throw(storage_failed)
    BY <2>1, <2>2, ThrowSynced DEF TypeOK
  <2>3. CASE ResetRemove /\ ~Throw(storage_failed)
    BY <2>1, <2>3 DEF ResetRemove, Goto, memory, Synced, Ahead, BootPlaces, TypeOK, Frame
  <2>4. CASE BootApply /\ ~Throw(storage_failed)
    BY <2>1, <2>4 DEF BootApply, Goto, Save, Synced, Ahead, BootPlaces, TypeOK, Frame
  <2>5. QED
    BY <1>6, <2>2, <2>3, <2>4
<1>7. CASE BootEnd
  BY <1>7 DEF BootEnd, Goto, Save, memory, Synced, Ahead, BootPlaces, TypeOK, Frame
<1>8. CASE BootDone \/ Crash \/ PowerLoss \/ MachineStops \/ PowerCycle
  <2>1. PICK place \in DeadPlaces : Halt(place)
    BY <1>8 DEF BootDone, Crash, PowerLoss, MachineStops, PowerCycle, MachineOff, DeadPlaces
  <2>2. QED
    BY <2>1 DEF Halt, NewFrame, Synced, Ahead, BootPlaces, DeadPlaces
<1>9. CASE StartRecover \/ TickExpire \/ TickPass \/ NoDispatch
  <2>1. /\ pc \in {"start.recover", "tick", "tick.job"} /\ ~storage_failed /\ call.catch # "undo"
        /\ UNCHANGED <<journal, memory>>
    BY <1>9 DEF StartRecover, TickExpire, TickPass, NoDispatch, MayExpire, Synced
  <2>2. ASSUME NEW place \in {"start.job", "tick.job"}, Recover(call, place) PROVE Synced'
    <3>1. pc' = "settle" /\ call'.settle = place /\ call'.catch = call.catch
      BY <2>2 DEF Recover, TypeOK, Frame
    <3>2. QED
      BY <2>1, <2>2, <3>1 DEF memory, Synced, Ahead, BootPlaces
  <2>3. ASSUME NEW place \in {"start.job", "tick.job", call.tick}, Goto(place) PROVE Synced'
    BY <2>1, <2>3 DEF Goto, memory, Synced, Ahead, BootPlaces, TypeOK, Frame
  <2>4. QED
    BY <1>9, <2>2, <2>3 DEF StartRecover, TickExpire, TickPass, NoDispatch
<1>10. CASE Start \/ StartJob \/ Dispatch
  <2>1. pc \in {"stopped", "start.job", "tick.job"} /\ ~storage_failed /\ UNCHANGED <<journal, storage_failed>>
    BY <1>10 DEF Start, StartJob, Dispatch, Synced
  <2>2. ASSUME NEW place \in {"start.recover", "reply", "power"}, Save(place) PROVE Synced'
    BY <2>1, <2>2 DEF Save, Synced, Ahead, BootPlaces, TypeOK, Frame
  <2>3. ASSUME Loop \/ Goto("start.recover"), UNCHANGED st PROVE Synced'
    BY <2>1, <2>3 DEF Loop, Goto, NewFrame, Synced, Ahead, BootPlaces
  <2>4. QED
    BY <1>10, <2>2, <2>3 DEF Start, StartJob, Dispatch, ResumeReset
<1>11. CASE PowerCall
  BY <1>11 DEF PowerCall, Goto, Save, Synced, Ahead, BootPlaces, TypeOK, Frame
<1>12. CASE ServeNone
  BY <1>12 DEF ServeNone, Loop, NewFrame, memory, Synced, Ahead, BootPlaces
<1>13. ASSUME NEW p \in Preferences, ApplyPreferences(p) PROVE Synced'
  BY <1>13 DEF ApplyPreferences, Request, NewFrame, Synced, Ahead, BootPlaces
<1>14. CASE Undo
  <2>1. CASE Save("throw") /\ UNCHANGED memory
    BY <1>14, <2>1 DEF Undo, Save, memory, Synced, Ahead, BootPlaces, TypeOK, Frame
  <2>2. CASE Throw(storage_failed)
    BY <1>14, <2>2, ThrowSynced DEF Undo, Synced, TypeOK, Ahead, BootPlaces
  <2>3. QED
    BY <1>14, <2>1, <2>2 DEF Undo
<1>15. ASSUME NEW n \in Networks, BeginNetwork(n) PROVE Synced'
  BY <1>15 DEF BeginNetwork, Request, NewFrame, Synced, Ahead, BootPlaces
<1>16. CASE BeginApply \/ Prepare
  <2>1. CASE BeginApply
    BY <2>1, ZenonT(30) DEF BeginApply, Goto, memory, Synced, Ahead, BootPlaces, TypeOK, Frame
  <2>2. CASE Prepare
    <3>1. pc = "prepare" /\ ~storage_failed /\ UNCHANGED <<journal, storage_failed>>
      BY <2>2 DEF Prepare, Synced
    <3>2. CASE Save("reply")
      BY <3>1, <3>2 DEF Save, Synced, Ahead, BootPlaces, TypeOK, Frame
    <3>3. CASE (Goto("reply") \/ Loop) /\ UNCHANGED st
      BY <3>1, <3>3, SMTT(30) DEF Goto, Loop, NewFrame, Synced, Ahead, BootPlaces
    <3>4. QED
      BY <2>2, <3>2, <3>3 DEF Prepare
  <2>3. QED
    BY <1>16, <2>1, <2>2
<1>17. CASE GetNetworkTransaction \/ PrepareNetworkCommit
  BY <1>17 DEF GetNetworkTransaction, PrepareNetworkCommit, Request, NewFrame, memory, Synced,
               Ahead, BootPlaces
<1>18. ASSUME NEW commit \in BOOLEAN, FinishNetwork(commit) PROVE Synced'
  BY <1>18 DEF FinishNetwork, Request, NewFrame, memory, Synced, Ahead, BootPlaces
<1>19. ASSUME NEW action, AcceptJob(action) PROVE Synced'
  BY <1>19 DEF AcceptJob, Request, NewFrame, Synced, Ahead, BootPlaces
<1>20. CASE AuthorityCommits \/ AuthoritySaves \/ AuthorityGivesUp \/ CustomerWrites
  BY <1>20 DEF AuthorityCommits, AuthoritySaves, AuthorityGivesUp, CustomerWrites, memory, Synced
<1>21. CASE UNCHANGED vars
  BY <1>21 DEF vars, memory, Synced
<1>22. QED
  BY <1>1, <1>2, <1>3, <1>4, <1>5, <1>6, <1>7, <1>8, <1>9, <1>10, <1>11, <1>12, <1>13, <1>14,
     <1>15, <1>16, <1>17, <1>18, <1>19, <1>20, <1>21
     DEF Next, System, Requests, Environment, Power, ResetDevice

\* Memory and journal differ only where Synced says so.
THEOREM AlwaysSynced == Spec => []Synced
<1>1. Init => Synced
  BY SMTT(30) DEF Init, Synced, NewFrame, Ahead, BootPlaces
<1>2. QED
  BY <1>1, SyncedStep, TypeCorrect, PTL DEF Spec

\* Whenever a request is served, memory is the journal a restart would read.
THEOREM MemoryIsJournalAlways == Spec => []MemoryIsJournal
<1>1. Synced => MemoryIsJournal
  BY DEF Synced, MemoryIsJournal, Ahead, BootPlaces
<1>2. QED
  BY <1>1, AlwaysSynced, PTL

-----------------------------------------------------------------------------
(* OneOperation.                                                           *)

\* Memory is replaced by a version of the journal, or keeps its transaction,
\* its job and its intent to reset.
WorkKept ==
  \/ st' \in Versions
  \/ st'.pending = st.pending /\ st'.job = st.job /\ st'.reset_intent = st.reset_intent

\* A version read or written by any step already existed.
LEMMA JournalStep == TypeOK /\ [Next]_vars => {journal'.visible, journal'.stable} \subseteq Versions
<1> SUFFICES ASSUME TypeOK, [Next]_vars PROVE {journal'.visible, journal'.stable} \subseteq Versions
  OBVIOUS
<1>1. CASE UNCHANGED journal
  BY <1>1 DEF Versions
<1>2. CASE Persist
  <2>1. CASE journal' = [visible |-> st, stable |-> st]
    BY <2>1 DEF Versions
  <2>2. CASE journal' = [journal EXCEPT !.visible = st]
    BY <2>2 DEF Versions, TypeOK
  <2>3. QED
    BY <1>2, <1>1, <2>1, <2>2 DEF Persist
<1>3. CASE Crash
  BY <1>3 DEF Crash, Versions, TypeOK
<1>4. CASE PowerLoss \/ MachineStops \/ PowerCycle
  BY <1>4 DEF PowerLoss, MachineStops, PowerCycle, MachineOff, Versions, TypeOK
<1>5. ASSUME ~Persist, ~Crash, ~PowerLoss, ~MachineStops, ~PowerCycle PROVE UNCHANGED journal
  <2>1. CASE System
    BY <1>5, <2>1 DEF System, Rethrow, Reply, Settle, BootReset, BootRecover, BootFirst, PowerOn,
      ResetRemove, BootApply, BootEnd, BootDone, Start, StartRecover, StartJob, TickStorageFailed,
      TickExpire, TickPass, Dispatch, NoDispatch, PowerCall, ServeNone, Undo, BeginApply, Prepare
  <2>2. CASE Requests
    BY <2>2 DEF Requests, ApplyPreferences, BeginNetwork, GetNetworkTransaction,
      PrepareNetworkCommit, FinishNetwork, Power, ResetDevice, AcceptJob
  <2>3. CASE Environment
    BY <1>5, <2>3 DEF Environment, AuthorityCommits, AuthoritySaves, AuthorityGivesUp,
      CustomerWrites, CallFails
  <2>4. QED
    BY <2>1, <2>2, <2>3 DEF Next, vars
<1>6. QED
  BY <1>2, <1>3, <1>4, <1>1, <1>5

\* Every exception and every end of a process keeps the work of memory.
LEMMA ThrowKept ==
  ASSUME TypeOK, journal'.visible \in Versions, NEW failed, Throw(failed)
  PROVE  WorkKept
BY DEF Throw, Loop, Halt, WorkKept, TypeOK, State

\* The only steps that change the work in memory.
LEMMA WorkSteps ==
  TypeOK /\ [Next]_vars =>
    \/ WorkKept \/ Settle \/ ResetRemove \/ BootApply \/ StartJob \/ Dispatch \/ PowerCall
    \/ Prepare \/ (\E n \in Networks : BeginNetwork(n))
    \/ \E action \in {"reboot", "shutdown", "device_reset"} : AcceptJob(action)
<1> SUFFICES ASSUME TypeOK, [Next]_vars,
                    ~Settle, ~ResetRemove, ~BootApply, ~StartJob, ~Dispatch, ~PowerCall, ~Prepare,
                    ~(\E n \in Networks : BeginNetwork(n)), ~Power, ~ResetDevice
             PROVE  WorkKept
  BY DEF Power, ResetDevice
<1>1. journal'.visible \in Versions
  BY JournalStep
<1>2. CASE Rethrow \/ TickStorageFailed \/ CallFails \/ Persist
  <2>1. UNCHANGED memory \/ Throw(TRUE) \/ Throw(storage_failed)
    BY <1>2 DEF Rethrow, TickStorageFailed, CallFails, Persist
  <2>2. QED
    BY <1>1, <2>1, ThrowKept DEF memory, WorkKept
<1>3. CASE Undo
  <2>1. UNCHANGED memory \/ Throw(storage_failed)
    BY <1>3 DEF Undo
  <2>2. QED
    BY <1>1, <2>1, ThrowKept DEF memory, WorkKept
<1>4. CASE BootReset \/ BootDone \/ Crash \/ PowerLoss \/ MachineStops \/ PowerCycle
  <2>1. UNCHANGED st \/ st' = journal'.visible
    BY <1>4 DEF BootReset, BootDone, Crash, PowerLoss, MachineStops, PowerCycle, MachineOff, Halt, memory
  <2>2. QED
    BY <1>1, <2>1 DEF WorkKept
<1>5. CASE BootFirst \/ Start
  <2>1. CASE UNCHANGED st
    BY <2>1 DEF WorkKept
  <2>2. CASE st' = [st EXCEPT !.configuration = Initial]
    BY <2>2 DEF WorkKept, TypeOK, State
  <2>3. ASSUME NEW c \in Configuration, st' = [st EXCEPT !.configuration = c, !.initialized = TRUE]
        PROVE  WorkKept
    BY <2>3 DEF WorkKept, TypeOK, State
  <2>4. QED
    BY <1>5, <2>1, <2>2, <2>3 DEF BootFirst, Start, ResumeReset
<1>6. ASSUME NEW p \in Preferences, ApplyPreferences(p) PROVE WorkKept
  <2>1. UNCHANGED st \/ st' = [st EXCEPT !.configuration.preferences = p, !.initialized = TRUE]
    BY <1>6 DEF ApplyPreferences
  <2>2. ASSUME NEW c, st' = [st EXCEPT !.configuration = c, !.initialized = TRUE] PROVE WorkKept
    BY <2>2 DEF WorkKept, TypeOK, State
  <2>3. [st EXCEPT !.configuration.preferences = p, !.initialized = TRUE]
          = [st EXCEPT !.configuration = [st.configuration EXCEPT !.preferences = p], !.initialized = TRUE]
    BY DEF TypeOK, State
  <2>4. CASE UNCHANGED st
    BY <2>4 DEF WorkKept
  <2>5. QED
    BY <2>1, <2>2, <2>3, <2>4
<1>7. CASE UNCHANGED st
  BY <1>7 DEF WorkKept
<1>8. ASSUME Reply \/ BootRecover \/ BootEnd \/ StartRecover \/ TickExpire \/ TickPass
             \/ NoDispatch \/ ServeNone \/ BeginApply
      PROVE  UNCHANGED st
  BY <1>8 DEF Reply, BootRecover, BootEnd, StartRecover, TickExpire, TickPass, NoDispatch,
              ServeNone, BeginApply, memory
<1>9. ASSUME GetNetworkTransaction \/ PrepareNetworkCommit \/ (\E commit \in BOOLEAN : FinishNetwork(commit))
             \/ AuthorityCommits \/ AuthoritySaves \/ AuthorityGivesUp \/ CustomerWrites
             \/ UNCHANGED vars
      PROVE  UNCHANGED st
  BY <1>9 DEF GetNetworkTransaction, PrepareNetworkCommit, FinishNetwork, AuthorityCommits,
              AuthoritySaves, AuthorityGivesUp, CustomerWrites, memory, vars
<1>10. CASE System
  BY <1>2, <1>3, <1>4, <1>5, <1>7, <1>8, <1>10 DEF System
<1>11. CASE Requests \/ Environment \/ UNCHANGED vars
  BY <1>2, <1>4, <1>6, <1>7, <1>9, <1>11 DEF Requests, Environment
<1>12. QED
  BY <1>10, <1>11 DEF Next

\* One operation at a time, in one version of the state.
Single(s) ==
  /\ ~(IsPending(s) /\ (s.reset_intent \/ s.job.state = "accepted"))
  /\ s.reset_intent => s.job.action = "device_reset"

LEMMA SingleStep == TypeOK /\ OneOperation /\ [Next]_vars => OneOperation'
<1> SUFFICES ASSUME TypeOK, \A s \in Versions : Single(s), [Next]_vars
             PROVE  \A s \in Versions' : Single(s)
  BY DEF OneOperation, Single
<1>1. Single(st) /\ Single(journal'.visible) /\ Single(journal'.stable)
  BY JournalStep DEF Versions
<1>2. Single(st')
  <2>1. CASE WorkKept
    BY <2>1, <1>1 DEF WorkKept, Single, IsPending
  <2>2. CASE Settle
    <3>1. CASE st' = [st EXCEPT !.configuration.network = SettledNetwork,
                        !.pending.state = IF call.commit THEN "committed" ELSE "rolled_back"]
      BY <3>1, <1>1 DEF Single, IsPending, TypeOK, State, Pending
    <3>2. CASE Throw(storage_failed)
      BY <3>2, <1>1, ThrowKept, JournalStep DEF WorkKept, Single, IsPending
    <3>3. QED
      BY <2>2, <3>1, <3>2 DEF Settle
  <2>3. CASE ResetRemove
    <3>1. CASE Throw(storage_failed)
      BY <3>1, <1>1, ThrowKept, JournalStep DEF WorkKept, Single, IsPending
    <3>2. CASE st' = [st EXCEPT !.configuration = Defaults, !.initialized = TRUE, !.pending = NoPending]
      BY <3>2, <1>1 DEF NoPending, Single, IsPending, TypeOK, State
    <3>3. QED
      BY <2>3, <3>1, <3>2, <1>1 DEF ResetRemove, memory
  <2>4. CASE BootApply
    <3>1. CASE Throw(storage_failed)
      BY <3>1, <1>1, ThrowKept, JournalStep DEF WorkKept, Single, IsPending
    <3>2. CASE st' = [st EXCEPT !.initialized = TRUE, !.reset_intent = FALSE,
                        !.job.state = IF st.reset_intent THEN "completed" ELSE @]
      BY <3>2, <1>1 DEF Single, IsPending, TypeOK, State, Job
    <3>3. QED
      BY <2>4, <3>1, <3>2, <1>1 DEF BootApply
  <2>5. CASE StartJob \/ Dispatch \/ PowerCall
    BY <2>5, <1>1 DEF StartJob, Dispatch, PowerCall, NotHanded, Single, IsPending, TypeOK, State, Job
  <2>6. CASE Prepare
    BY <2>6, <1>1 DEF Prepare, Single, IsPending, TypeOK, State, Pending
  <2>7. ASSUME NEW n \in Networks, BeginNetwork(n) PROVE Single(st')
    BY <2>7, <1>1 DEF BeginNetwork, Idle, Single, IsPending, TypeOK, State
  <2>8. ASSUME NEW action \in {"reboot", "shutdown", "device_reset"}, AcceptJob(action)
        PROVE  Single(st')
    BY <2>8, <1>1 DEF AcceptJob, Idle, Single, IsPending, TypeOK, State
  <2>9. QED
    BY <2>1, <2>2, <2>3, <2>4, <2>5, <2>6, <2>7, <2>8, WorkSteps
<1>3. QED
  BY <1>1, <1>2 DEF Versions

\* A network transaction is never open beside an accepted job or a reset, in
\* memory and in every version of the journal a crash can bring back.
THEOREM OneOperationAlways == Spec => []OneOperation
<1>1. Init => OneOperation
  <2>1. ~IsPending(Fresh) /\ ~Fresh.reset_intent
    BY DEF Fresh, NoPending, IsPending
  <2>2. Init => Versions = {Fresh}
    BY DEF Init, Versions
  <2>3. QED
    BY <2>1, <2>2 DEF OneOperation
<1>2. QED
  BY <1>1, SingleStep, TypeCorrect, PTL DEF Spec

-----------------------------------------------------------------------------
(* NeverInterruptedOnceHanded.                                             *)

\* Job ids are handed out in order; a job whose power call was made is neither
\* accepted nor interrupted in any version; the power call is made only when
\* every version of the journal says "dispatched".
Handing ==
  /\ handed \subseteq 0 .. used.jobs
  /\ \A s \in Versions : s.job.id <= used.jobs
  /\ \A s \in Versions : s.job.id \in handed => s.job.state \notin {"accepted", "interrupted"}
  /\ pc = "save" /\ call.save = "power" => st.job.state = "dispatched"
  /\ pc = "power" => st.job.state = "dispatched" /\ journal.visible = st /\ journal.stable = st

\* An exception, an ending process and a new iteration are not about to make the
\* power call.
LEMMA ThrowPlace == ASSUME NEW failed, Throw(failed) PROVE pc' \notin {"save", "power"}
BY DEF Throw, Loop, Halt, DeadPlaces

\* "power" is reached only through the write of "dispatched".
LEMMA PowerPlace ==
  TypeOK /\ Handing /\ [Next]_vars =>
    /\ pc' = "save" /\ call'.save = "power" => st'.job.state = "dispatched"
    /\ pc' = "power" => /\ st'.job.state = "dispatched"
                       /\ journal'.visible = st' /\ journal'.stable = st'
<1> SUFFICES ASSUME TypeOK, Handing, [Next]_vars
             PROVE  /\ pc' = "save" /\ call'.save = "power" => st'.job.state = "dispatched"
                    /\ pc' = "power" => /\ st'.job.state = "dispatched"
                                       /\ journal'.visible = st' /\ journal'.stable = st'
  OBVIOUS
<1>1. CASE Persist
  <2>1. CASE Throw(TRUE)
    BY <2>1, ThrowPlace
  <2>2. CASE /\ journal' = [visible |-> st, stable |-> st]
             /\ Goto(call.save)
             /\ UNCHANGED memory
    <3>1. call.save # "save"
      BY DEF TypeOK, Frame, SaveReturns, SettleReturns
    <3>2. QED
      BY <1>1, <2>2, <3>1 DEF Persist, Goto, memory, Handing
  <2>3. QED
    BY <1>1, <2>1, <2>2 DEF Persist
<1>2. CASE Dispatch
  BY <1>2 DEF Dispatch, Save, TypeOK, State, Job, Frame
<1>3. CASE pc' \notin {"save", "power"}
  BY <1>3
<1>4. ASSUME NEW place, place # "power", Save(place) PROVE call'.save # "power" /\ pc' = "save"
  BY <1>4 DEF Save, TypeOK, Frame
<1>5. CASE pc' = "save" /\ call'.save # "power"
  BY <1>5
<1>6. ASSUME Throw(storage_failed) PROVE pc' \notin {"save", "power"}
  BY <1>6, ThrowPlace
<1>7. CASE Rethrow \/ TickStorageFailed \/ CallFails
  BY <1>7, <1>3, ThrowPlace DEF Rethrow, TickStorageFailed, CallFails
<1>8. CASE Settle \/ BootApply \/ Undo \/ ResetRemove
  <2>1. call.settle # "power"
    BY DEF TypeOK, Frame, SettleReturns
  <2>2. QED
    BY <1>8, <1>3, <1>4, <1>5, <1>6, <2>1 DEF Settle, BootApply, Undo, ResetRemove, Goto
<1>9. CASE Reply \/ BootReset \/ BootRecover \/ BootFirst \/ ServeNone \/ TickExpire \/ TickPass
           \/ NoDispatch \/ StartRecover \/ BootDone
  BY <1>9 DEF Reply, Loop, Halt, BootReset, BootRecover, Recover, BootFirst, ServeNone, TickExpire,
    TickPass, NoDispatch, Goto, StartRecover, BootDone, TypeOK, Frame
<1>10. CASE BootEnd \/ Start \/ StartJob \/ PowerCall \/ Prepare \/ BeginApply
  <2>1. call.tick \notin {"save", "power"}
    BY DEF TypeOK, Frame
  <2>2. QED
    BY <1>10, <1>3, <1>4, <1>5, <2>1 DEF BootEnd, Start, ResumeReset, StartJob, PowerCall, Prepare,
      BeginApply, Goto, Loop
<1>11. CASE Requests
  <2>1. \A r \in {"applied", "outcome", "job", "grant"} : Request(r) \in Frame
    BY RequestType
  <2>2. ASSUME NEW p \in Preferences, ApplyPreferences(p) PROVE pc' \in {"save", "undo"} /\ call'.save # "power"
    BY <2>2 DEF ApplyPreferences, Request, NewFrame
  <2>3. ASSUME NEW n \in Networks, BeginNetwork(n) PROVE pc' = "save" /\ call'.save # "power"
    BY <2>3 DEF BeginNetwork, Request, NewFrame
  <2>4. ASSUME NEW action, AcceptJob(action) PROVE pc' = "save" /\ call'.save # "power"
    BY <2>4 DEF AcceptJob, Request, NewFrame
  <2>5. QED
    BY <1>3, <1>5, <1>11, <2>2, <2>3, <2>4 DEF Requests, GetNetworkTransaction, PrepareNetworkCommit,
      FinishNetwork, Power, ResetDevice
<1>12. CASE AuthorityCommits \/ AuthoritySaves \/ AuthorityGivesUp \/ CustomerWrites \/ UNCHANGED vars
  BY <1>12 DEF AuthorityCommits, AuthoritySaves, AuthorityGivesUp, CustomerWrites, vars, memory, Handing
<1>13. CASE Crash \/ PowerLoss \/ MachineStops \/ PowerCycle
  BY <1>13, <1>3 DEF Crash, PowerLoss, MachineStops, PowerCycle, MachineOff, Halt
<1>14. CASE System
  BY <1>1, <1>2, <1>7, <1>8, <1>9, <1>10, <1>14 DEF System
<1>15. QED
  BY <1>7, <1>11, <1>12, <1>13, <1>14 DEF Next, Environment

\* The counters and the history of power calls.
LEMMA HandedStep ==
  TypeOK /\ [Next]_vars =>
    /\ used'.jobs \in Nat /\ used.jobs <= used'.jobs
    /\ handed' = handed \/ (PowerCall /\ handed' = handed \cup {st.job.id})
<1> SUFFICES ASSUME TypeOK, [Next]_vars
             PROVE  /\ used'.jobs \in Nat /\ used.jobs <= used'.jobs
                    /\ handed' = handed \/ (PowerCall /\ handed' = handed \cup {st.job.id})
  OBVIOUS
<1>1. \/ UNCHANGED used \/ Fault \/ CrashBudget
      \/ used' = [used EXCEPT !.proposals = @ + 1] \/ used' = [used EXCEPT !.jobs = @ + 1]
  <2>1. CASE System
    BY <2>1 DEF System, Persist, Rethrow, Reply, Settle, BootReset, BootRecover, BootFirst, HalfApplied,
      ResetRemove, BootApply, BootEnd, BootDone, Start, StartRecover, StartJob, TickStorageFailed,
      TickExpire, TickPass, Dispatch, NoDispatch, PowerCall, ServeNone, Undo, BeginApply, Prepare
  <2>2. CASE Requests
    BY <2>2 DEF Requests, ApplyPreferences, HalfApplied, BeginNetwork, GetNetworkTransaction,
      PrepareNetworkCommit, FinishNetwork, Power, ResetDevice, AcceptJob
  <2>3. CASE Environment
    BY <2>3 DEF Environment, AuthorityCommits, AuthoritySaves, AuthorityGivesUp, CustomerWrites,
      CallFails, Crash, PowerLoss, MachineStops, PowerCycle
  <2>4. QED
    BY <2>1, <2>2, <2>3 DEF Next, vars
<1>2. used'.jobs \in Nat /\ used.jobs <= used'.jobs
  BY <1>1 DEF Fault, CrashBudget, TypeOK
<1>3. handed' = handed \/ (PowerCall /\ handed' = handed \cup {st.job.id})
  <2>1. CASE System
    BY <2>1 DEF System, Persist, Rethrow, Reply, Settle, BootReset, BootRecover, BootFirst, PowerOn,
      ResetRemove, BootApply, BootEnd, BootDone, Start, StartRecover, StartJob, TickStorageFailed,
      TickExpire, TickPass, Dispatch, NoDispatch, PowerCall, ServeNone, Undo, BeginApply, Prepare, history
  <2>2. CASE Requests
    BY <2>2 DEF Requests, ApplyPreferences, BeginNetwork, GetNetworkTransaction,
      PrepareNetworkCommit, FinishNetwork, Power, ResetDevice, AcceptJob, history
  <2>3. CASE Environment
    BY <2>3 DEF Environment, AuthorityCommits, AuthoritySaves, AuthorityGivesUp, CustomerWrites,
      CallFails, Crash, PowerLoss, MachineStops, PowerCycle, MachineOff, history
  <2>4. QED
    BY <2>1, <2>2, <2>3 DEF Next, vars, history
<1>4. QED
  BY <1>2, <1>3

LEMMA HandingStep == TypeOK /\ Handing /\ [Next]_vars => Handing'
<1> SUFFICES ASSUME TypeOK, Handing, [Next]_vars PROVE Handing'
  OBVIOUS
<1> DEFINE Safe(s, h) == s.job.id \in h => s.job.state \notin {"accepted", "interrupted"}
<1>1. /\ used.jobs \in Nat /\ used'.jobs \in Nat /\ used.jobs <= used'.jobs
      /\ \A s \in Versions : s.job.id \in Nat /\ s.job.id <= used.jobs /\ Safe(s, handed)
  BY HandedStep, SMTT(30) DEF TypeOK, Handing, Versions, State, Job
<1>2. \A s \in Versions : s.job.id <= used'.jobs
  BY <1>1
<1>3. \A s \in Versions : Safe(s, handed')
  <2>1. CASE handed' = handed
    BY <1>1, <2>1
  <2>2. CASE PowerCall /\ handed' = handed \cup {st.job.id}
    <3>1. st.job.state = "dispatched" /\ journal.visible = st /\ journal.stable = st
      BY <2>2 DEF PowerCall, Handing
    <3>2. QED
      BY <3>1 DEF Versions
  <2>3. QED
    BY <2>1, <2>2, HandedStep
<1>4. handed' \subseteq 0 .. used'.jobs
  <2>1. st.job.id \in 0 .. used'.jobs
    BY <1>1, <1>2 DEF Versions
  <2>2. handed \subseteq 0 .. used'.jobs
    BY <1>1 DEF Handing
  <2>3. QED
    BY <2>1, <2>2, HandedStep
<1>5. st'.job.id <= used'.jobs /\ Safe(st', handed')
  <2>1. CASE WorkKept
    BY <2>1, <1>2, <1>3 DEF WorkKept, Versions
  <2>2. ASSUME st'.job.id = st.job.id, st'.job.state \notin {"accepted", "interrupted"} \/ st'.job = st.job
        PROVE  st'.job.id <= used'.jobs /\ Safe(st', handed')
    BY <2>2, <1>2, <1>3 DEF Versions
  <2>3. CASE Throw(storage_failed)
    BY <2>3, <2>1, ThrowKept, JournalStep
  <2>4. CASE Settle
    <3>1. CASE st' = [st EXCEPT !.configuration.network = SettledNetwork,
                        !.pending.state = IF call.commit THEN "committed" ELSE "rolled_back"]
      BY <3>1, <2>2 DEF TypeOK, State
    <3>2. QED
      BY <2>3, <2>4, <3>1 DEF Settle
  <2>5. CASE ResetRemove
    <3>1. CASE st' = [st EXCEPT !.configuration = Defaults, !.initialized = TRUE, !.pending = NoPending]
      BY <3>1, <2>2 DEF TypeOK, State
    <3>2. CASE UNCHANGED memory
      BY <3>2, <2>1 DEF memory, WorkKept
    <3>3. QED
      BY <2>3, <2>5, <3>1, <3>2 DEF ResetRemove
  <2>6. CASE BootApply
    <3>1. CASE st' = [st EXCEPT !.initialized = TRUE, !.reset_intent = FALSE,
                        !.job.state = IF st.reset_intent THEN "completed" ELSE @]
      <4>1. st'.job.id = st.job.id /\ (st'.job.state = "completed" \/ st'.job = st.job)
        BY <3>1 DEF TypeOK, State, Job
      <4>2. QED
        BY <2>2, <4>1
    <3>2. CASE UNCHANGED st
      BY <3>2, <2>1 DEF WorkKept
    <3>3. QED
      BY <2>3, <2>6, <3>1, <3>2 DEF BootApply
  <2>7. CASE StartJob
    <3>1. CASE NotHanded /\ st' = [st EXCEPT !.job.state = "interrupted"] /\ handed' = handed
      <4>1. st.job.id \notin handed
        BY <3>1, <1>1 DEF NotHanded, Versions
      <4>2. st'.job.id = st.job.id
        BY <3>1 DEF TypeOK, State, Job
      <4>3. QED
        BY <3>1, <4>1, <4>2, <1>2 DEF Versions
    <3>2. CASE UNCHANGED st
      BY <3>2, <2>1 DEF WorkKept
    <3>3. QED
      BY <2>7, <3>1, <3>2 DEF StartJob, history
  <2>8. CASE Dispatch \/ PowerCall \/ Prepare
    <3>1. st' \in {st, [st EXCEPT !.job.state = "dispatched"], [st EXCEPT !.job.state = "failed"],
                   [st EXCEPT !.pending.state = "committing"]}
      BY <2>8 DEF Dispatch, PowerCall, Prepare
    <3>2. st'.job.id = st.job.id /\ (st'.job.state \in {"dispatched", "failed"} \/ st'.job = st.job)
      BY <3>1 DEF TypeOK, State, Job
    <3>3. QED
      BY <2>2, <3>2
  <2>9. ASSUME NEW n \in Networks, BeginNetwork(n) PROVE st'.job.id <= used'.jobs /\ Safe(st', handed')
    BY <2>9, <2>2 DEF BeginNetwork, TypeOK, State
  <2>10. ASSUME NEW action \in {"reboot", "shutdown", "device_reset"}, AcceptJob(action)
         PROVE  st'.job.id <= used'.jobs /\ Safe(st', handed')
    <3>1. st'.job.id = used.jobs + 1 /\ used'.jobs = used.jobs + 1 /\ handed' = handed
      BY <2>10 DEF AcceptJob, TypeOK, State, history
    <3>2. used.jobs + 1 \notin handed
      BY <1>1 DEF Handing
    <3>3. QED
      BY <3>1, <3>2, <1>1
  <2>11. QED
    BY <2>1, <2>4, <2>5, <2>6, <2>7, <2>8, <2>9, <2>10, WorkSteps
<1>6. Versions' = {st', journal'.visible, journal'.stable}
  BY DEF Versions
<1>7. \A s \in Versions' : s.job.id <= used'.jobs /\ Safe(s, handed')
  BY <1>2, <1>3, <1>5, <1>6, JournalStep
<1>8. QED
  BY <1>4, <1>7, PowerPlace DEF Handing

\* The inductive invariant behind the hand-over of jobs.
THEOREM HandingAlways == Spec => []Handing
<1>1. Fresh.job.id = 0 /\ Fresh.job.state = "none" /\ Fresh.job.action = "none"
  BY DEF Fresh
<1>2. Init => Versions = {Fresh} /\ pc = "off" /\ handed = {} /\ used.jobs = 0
  BY DEF Init, Versions
<1>3. Init => Handing
  BY <1>1, <1>2 DEF Handing
<1>4. QED
  BY <1>3, HandingStep, TypeCorrect, PTL DEF Spec

\* A job whose power call was made is never reported as interrupted, in memory
\* or in any version of the journal a crash can bring back.
THEOREM NeverInterruptedAlways == Spec => []NeverInterruptedOnceHanded
<1>1. Handing => NeverInterruptedOnceHanded
  BY DEF Handing, NeverInterruptedOnceHanded
<1>2. QED
  BY <1>1, HandingAlways, PTL

-----------------------------------------------------------------------------
(* Factory reset: nothing is deleted before the intent is durable, and the *)
(* intent outlives every deletion.                                         *)

\* The device is reset but for the write that says so.
Wiped == data = {} /\ settings = NoFile /\ live = Defaults

\* The write that clears the intent is under way, or its outcome is uncertain
\* and the device waits in a failed bootstrap.
Clearing ==
  /\ Wiped
  /\ \/ pc = "bootfailed"
     \/ pc = "save" /\ call.catch = "bootfailed" /\ call.save = "boot.end"
  /\ \A s \in {st, journal.visible} : ~s.reset_intent => s.configuration = Defaults

\* While the durable journal holds the intent, memory and the readable journal
\* hold it too, unless the write that clears it has begun.
Resetting ==
  /\ pc = "off" => journal.visible = journal.stable
  /\ journal.stable.reset_intent => (journal.visible.reset_intent /\ st.reset_intent) \/ Clearing
  /\ pc = "reset.remove" =>
       /\ journal.stable.reset_intent
       /\ data \subseteq call.todo
       /\ SettingsPath \notin call.todo => settings = NoFile
  /\ pc = "boot.apply" /\ st.reset_intent =>
       data = {} /\ settings = NoFile /\ st.configuration = Defaults
  /\ \/ pc = "save" /\ call.save = "boot.apply"
     \/ pc = "settle" /\ call.settle = "boot.apply"
     => ~st.reset_intent

\* Where no bootstrap place is entered or left and no intent changes, Resetting
\* is kept.
LEMMA DaemonKeeps ==
  ASSUME TypeOK, Resetting, UNCHANGED journal,
         pc \notin BootPlaces \cup {"off", "bootfailed", "save"},
         pc' \notin BootPlaces \cup {"off"},
         pc' = "save" => call'.save # "boot.apply",
         pc' = "settle" => call'.settle # "boot.apply",
         st'.reset_intent \/ ~st.reset_intent
  PROVE  Resetting'
BY DEF Resetting, Clearing, BootPlaces

\* An exception, wherever it is caught and whatever became of the journal.
LEMMA ThrowKeeps ==
  ASSUME TypeOK, Resetting, NEW failed, Throw(failed), pc \notin {"off", "bootfailed"},
         journal'.stable = journal.stable, journal'.visible \in {journal.visible, st},
         pc = "save" => UNCHANGED <<live, data, settings>>
  PROVE  Resetting'
<1>1. CASE call.catch \in {"tick", "undo"}
  <2>1. pc' \in {"tick", "undo"} /\ st'.reset_intent = st.reset_intent
    BY <1>1 DEF Throw, Loop, DeadPlaces, TypeOK, State
  <2>2. QED
    BY <1>1, <2>1 DEF Resetting, Clearing
<1>2. CASE call.catch \in DeadPlaces /\ Halt(call.catch)
  <2>1. call.catch \in {"stopped", "bootfailed"} /\ pc' = call.catch /\ st' = journal'.visible
    BY <1>2 DEF Halt, TypeOK, Frame, DeadPlaces
  <2>2. QED
    BY <1>2, <2>1 DEF Resetting, Clearing, Wiped
<1>3. QED
  BY <1>1, <1>2 DEF Throw

LEMMA ResettingStep == TypeOK /\ Synced /\ Resetting /\ [Next]_vars => Resetting'
<1> SUFFICES ASSUME TypeOK, Synced, Resetting, [Next]_vars PROVE Resetting'
  OBVIOUS
<1>1. CASE Persist
  <2>1. CASE /\ journal' = [visible |-> st, stable |-> st]
             /\ Goto(call.save)
             /\ UNCHANGED memory
    <3>1. pc' \in SaveReturns /\ pc' = call.save
      BY <2>1 DEF Goto, TypeOK, Frame
    <3>2. QED
      BY <1>1, <2>1, <3>1 DEF Persist, memory, Resetting, SaveReturns, SettleReturns
  <2>2. CASE Throw(TRUE) /\ journal' \in {journal, [journal EXCEPT !.visible = st]}
    <3>1. journal'.stable = journal.stable /\ journal'.visible \in {journal.visible, st}
      BY <2>2 DEF TypeOK
    <3>2. QED
      BY <1>1, <2>2, <3>1, ThrowKeeps DEF Persist, world, product
  <2>3. QED
    BY <1>1, <2>1, <2>2 DEF Persist
<1>2. ASSUME UNCHANGED journal, Throw(storage_failed) \/ Throw(TRUE),
             pc \notin {"off", "bootfailed", "save"}
      PROVE  Resetting'
  BY <1>2, ThrowKeeps
<1>3. CASE Rethrow \/ TickStorageFailed \/ CallFails
  BY <1>2, <1>3 DEF Rethrow, TickStorageFailed, CallFails
<1>4. CASE Settle
  <2>1. CASE /\ Save(call.settle)
             /\ st' = [st EXCEPT !.configuration.network = SettledNetwork,
                         !.pending.state = IF call.commit THEN "committed" ELSE "rolled_back"]
    <3>1. /\ pc = "settle" /\ pc' = "save" /\ call'.save = call.settle
          /\ st'.reset_intent = st.reset_intent /\ UNCHANGED <<journal, data, settings>>
      BY <1>4, <2>1 DEF Settle, Save, TypeOK, Frame, State, product
    <3>2. QED
      BY <3>1 DEF Resetting, Clearing
  <2>2. QED
    BY <1>2, <1>4, <2>1 DEF Settle
<1>5. CASE BootReset \/ BootRecover \/ BootFirst
  <2>1. pc = "off" /\ UNCHANGED <<journal, data, settings>> /\ st = journal.visible /\ st = journal.stable
    BY <1>5 DEF BootReset, BootRecover, BootFirst, PowerOn, product, Synced, Resetting, Ahead, BootPlaces
  <2>2. CASE BootReset
    <3>1. CASE /\ pc' = "reset.remove"
               /\ call' = [NewFrame("bootfailed") EXCEPT !.todo = ResetPaths]
               /\ UNCHANGED memory
      <4>1. call'.todo = ResetPaths
        BY <3>1, NewFrameType DEF Frame
      <4>2. QED
        BY <2>1, <2>2, <3>1, <4>1, ConstantsAssumption DEF BootReset, ResetDue, memory, Resetting, TypeOK
    <3>2. CASE Halt("bootfailed")
      BY <2>1, <2>2, <3>2 DEF BootReset, ResetDue, Halt, Resetting
    <3>3. QED
      BY <2>2, <3>1, <3>2 DEF BootReset
  <2>3. CASE BootRecover
    <3>1. pc' \in {"settle", "boot.apply"} /\ st' = st /\ ~st.reset_intent
      BY <2>3 DEF BootRecover, Recover, ResetDue, memory
    <3>2. QED
      BY <2>1, <3>1 DEF Resetting
  <2>4. CASE BootFirst
    <3>1. pc' \in {"boot.end", "boot.apply"} /\ ~st.reset_intent /\ ~st'.reset_intent
      BY <2>4 DEF BootFirst, ResetDue, TypeOK, State
    <3>2. QED
      BY <2>1, <3>1 DEF Resetting
  <2>5. QED
    BY <1>5, <2>2, <2>3, <2>4
<1>6. CASE ResetRemove
  <2>1. /\ pc = "reset.remove" /\ UNCHANGED journal /\ data \subseteq call.todo
        /\ SettingsPath \notin call.todo => settings = NoFile
        /\ journal.stable.reset_intent /\ journal.visible.reset_intent /\ st.reset_intent
    BY <1>6 DEF ResetRemove, Resetting, Clearing
  <2>2. CASE /\ AllRemoved
             /\ st' = [st EXCEPT !.configuration = Defaults, !.initialized = TRUE, !.pending = NoPending]
             /\ Goto("boot.apply")
             /\ UNCHANGED <<settings, data>>
    <3>1. st'.reset_intent /\ st'.configuration = Defaults /\ pc' = "boot.apply"
      BY <2>1, <2>2 DEF Goto, TypeOK, State
    <3>2. QED
      BY <2>1, <2>2, <3>1, ConstantsAssumption DEF AllRemoved, Resetting
  <2>3. ASSUME NEW q \in call.todo, call' = [call EXCEPT !.todo = @ \ {q}], data' = data \ {q},
               settings' = IF q = SettingsPath THEN NoFile ELSE settings, UNCHANGED <<pc, memory>>
        PROVE  Resetting'
    <3>1. call'.todo = call.todo \ {q}
      BY <2>3 DEF TypeOK, Frame
    <3>2. QED
      BY <2>1, <2>3, <3>1 DEF memory, Resetting
  <2>4. QED
    BY <1>2, <1>6, <2>1, <2>2, <2>3 DEF ResetRemove
<1>7. CASE BootApply
  <2>1. pc = "boot.apply" /\ UNCHANGED <<journal, data, settings>> /\ call.catch = "bootfailed"
    BY <1>7 DEF BootApply, product, Synced, BootPlaces
  <2>2. CASE Goto("boot.end") /\ UNCHANGED st
    BY <2>1, <2>2 DEF Goto, Resetting, Clearing
  <2>3. CASE /\ live' = st.configuration
             /\ st' = [st EXCEPT !.initialized = TRUE, !.reset_intent = FALSE,
                         !.job.state = IF st.reset_intent THEN "completed" ELSE @]
             /\ Save("boot.end")
    <3>1. /\ st'.configuration = st.configuration /\ ~st'.reset_intent
          /\ pc' = "save" /\ call'.save = "boot.end" /\ call'.catch = "bootfailed"
      BY <2>1, <2>3 DEF Save, TypeOK, State, Frame
    <3>2. CASE journal.stable.reset_intent
      <4>1. journal.visible.reset_intent /\ st.reset_intent
        BY <2>1, <3>2 DEF Resetting, Clearing
      <4>2. Clearing'
        BY <2>1, <2>3, <3>1, <4>1 DEF Resetting, Clearing, Wiped
      <4>3. QED
        BY <2>1, <3>1, <4>2 DEF Resetting
    <3>3. CASE ~journal.stable.reset_intent
      BY <2>1, <3>1, <3>3 DEF Resetting
    <3>4. QED
      BY <3>2, <3>3
  <2>4. QED
    BY <1>2, <1>7, <2>1, <2>2, <2>3 DEF BootApply
<1>8. CASE BootEnd \/ BootDone
  <2>1. CASE BootEnd
    <3>1. /\ pc = "boot.end" /\ UNCHANGED <<journal, st>>
          /\ pc' = "boot.done" \/ (pc' = "save" /\ call'.save = "boot.done")
      BY <2>1 DEF BootEnd, Save, Goto, memory, TypeOK, Frame
    <3>2. QED
      BY <3>1 DEF Resetting, Clearing
  <2>2. CASE BootDone
    BY <2>2 DEF BootDone, Halt, Resetting, Clearing
  <2>3. QED
    BY <1>8, <2>1, <2>2
<1>9. CASE Crash
  <2>1. journal'.stable = journal.stable /\ journal'.visible \in {journal.visible, st}
    BY <1>9 DEF Crash, TypeOK
  <2>2. /\ pc' = (IF call.catch = "bootfailed" THEN "bootfailed" ELSE "stopped")
        /\ st' = journal'.visible /\ UNCHANGED <<live, data, settings>> /\ pc \notin DeadPlaces
    BY <1>9 DEF Crash, Halt, world, product
  <2>3. QED
    BY <2>1, <2>2 DEF Resetting, Clearing, Wiped, DeadPlaces
<1>10. CASE PowerLoss \/ MachineStops \/ PowerCycle
  <2>1. PICK s : MachineOff(s)
    BY <1>10 DEF PowerLoss, MachineStops, PowerCycle
  <2>2. QED
    BY <2>1 DEF MachineOff, Halt, Resetting
<1>11. CASE Start \/ StartJob \/ Dispatch \/ PowerCall \/ Prepare
  <2>1. /\ pc \in {"stopped", "start.job", "tick.job", "power", "prepare"} /\ UNCHANGED journal
        /\ st'.reset_intent = st.reset_intent
    BY <1>11 DEF Start, ResumeReset, StartJob, Dispatch, PowerCall, Prepare, TypeOK, State
  <2>2. ASSUME NEW place \in {"start.recover", "reply", "power", "throw"}, Save(place) PROVE Resetting'
    <3>1. pc' = "save" /\ call'.save = place
      BY <2>2 DEF Save, TypeOK, Frame
    <3>2. QED
      BY <2>1, <3>1, DaemonKeeps DEF BootPlaces
  <2>3. ASSUME NEW place \in {"start.recover", "reply", call.tick}, Goto(place) PROVE Resetting'
    BY <2>1, <2>3, DaemonKeeps DEF Goto, BootPlaces, TypeOK, Frame
  <2>4. ASSUME Loop PROVE Resetting'
    BY <2>1, <2>4, DaemonKeeps DEF Loop, BootPlaces
  <2>5. QED
    BY <1>11, <2>2, <2>3, <2>4 DEF Start, ResumeReset, StartJob, Dispatch, PowerCall, Prepare
<1>12. CASE Reply \/ ServeNone \/ StartRecover \/ TickExpire \/ TickPass \/ NoDispatch \/ BeginApply
  <2>1. /\ pc \in {"reply", "serve", "start.recover", "tick", "tick.job", "begin.apply"}
        /\ UNCHANGED <<journal, st>>
    BY <1>12 DEF Reply, ServeNone, StartRecover, TickExpire, TickPass, NoDispatch, BeginApply, memory
  <2>2. ASSUME NEW place \in {"start.job", "tick.job"}, Recover(call, place)
        PROVE  pc' = "settle" /\ call'.settle # "boot.apply"
    BY <2>2 DEF Recover, TypeOK, Frame
  <2>3. CASE BeginApply
    <3>1. pc' = "tick" \/ (pc' = "settle" /\ call'.settle = "throw")
      BY <2>3 DEF BeginApply, Goto, TypeOK, Frame
    <3>2. QED
      BY <2>1, <3>1, DaemonKeeps DEF BootPlaces
  <2>4. ASSUME ~BeginApply
        PROVE  \/ pc' = "settle" /\ call'.settle # "boot.apply"
               \/ pc' \in {"tick", "start.job", "tick.job", "serve", "reply", "prepare"}
    BY <1>12, <2>2, <2>4 DEF Reply, ServeNone, StartRecover, TickExpire, TickPass, NoDispatch, Loop, Goto,
       TypeOK, Frame
  <2>5. QED
    BY <2>1, <2>3, <2>4, DaemonKeeps DEF BootPlaces
<1>13. CASE Undo
  <2>1. CASE Save("throw") /\ UNCHANGED memory
    <3>1. pc' = "save" /\ call'.save = "throw"
      BY <2>1 DEF Save, TypeOK, Frame
    <3>2. QED
      BY <1>13, <2>1, <3>1, DaemonKeeps DEF Undo, memory, BootPlaces
  <2>2. QED
    BY <1>2, <1>13, <2>1 DEF Undo
<1>14. CASE Requests
  <2>1. pc = "serve" /\ UNCHANGED journal
    BY <1>14 DEF Requests, ApplyPreferences, BeginNetwork, GetNetworkTransaction, PrepareNetworkCommit,
       FinishNetwork, Power, ResetDevice, AcceptJob
  <2>2. ASSUME NEW p \in Preferences, ApplyPreferences(p)
        PROVE  /\ pc' \in {"save", "undo"} /\ call'.save # "boot.apply"
               /\ st'.reset_intent = st.reset_intent
    <3>1. UNCHANGED st \/ st' = [st EXCEPT !.configuration.preferences = p, !.initialized = TRUE]
      BY <2>2 DEF ApplyPreferences
    <3>2. st'.reset_intent = st.reset_intent
      BY <3>1 DEF TypeOK, State
    <3>3. QED
      BY <2>2, <3>2 DEF ApplyPreferences, Request, NewFrame
  <2>3. ASSUME NEW n \in Networks, BeginNetwork(n)
        PROVE  pc' = "save" /\ call'.save # "boot.apply" /\ st'.reset_intent = st.reset_intent
    BY <2>3 DEF BeginNetwork, Request, NewFrame, TypeOK, State
  <2>4. ASSUME NEW action, AcceptJob(action)
        PROVE  pc' = "save" /\ call'.save # "boot.apply" /\ ~st.reset_intent
    BY <2>4 DEF AcceptJob, Idle, Request, NewFrame
  <2>5. ASSUME NEW commit \in BOOLEAN, FinishNetwork(commit)
        PROVE  pc' \in {"reply", "settle"} /\ call'.settle # "boot.apply" /\ UNCHANGED st
    BY <2>5 DEF FinishNetwork, Request, NewFrame, memory
  <2>6. ASSUME GetNetworkTransaction \/ PrepareNetworkCommit PROVE pc' = "tick" /\ UNCHANGED st
    BY <2>6 DEF GetNetworkTransaction, PrepareNetworkCommit, memory
  <2>7. /\ pc' \in {"save", "undo", "reply", "settle", "tick"}
        /\ pc' = "save" => call'.save # "boot.apply"
        /\ pc' = "settle" => call'.settle # "boot.apply"
        /\ st'.reset_intent = st.reset_intent \/ ~st.reset_intent
    BY <1>14, <2>2, <2>3, <2>4, <2>5, <2>6 DEF Requests, Power, ResetDevice
  <2>8. QED
    BY <2>1, <2>7, DaemonKeeps DEF BootPlaces
<1>15. CASE AuthorityCommits \/ AuthoritySaves \/ CustomerWrites
  <2>1. /\ pc \notin {"off", "bootfailed"} /\ call.catch # "bootfailed"
        /\ UNCHANGED <<journal, st, pc, call>>
    BY <1>15 DEF AuthorityCommits, AuthoritySaves, CustomerWrites, ServicesUp, memory
  <2>2. pc \notin BootPlaces
    BY <2>1 DEF Synced
  <2>3. QED
    BY <2>1, <2>2 DEF Resetting, Clearing, BootPlaces
<1>16. CASE AuthorityGivesUp \/ UNCHANGED vars
  <2>1. UNCHANGED <<journal, st, pc, call, live, data, settings>>
    BY <1>16 DEF AuthorityGivesUp, vars, memory, world, product
  <2>2. QED
    BY <2>1 DEF Resetting, Clearing, Wiped
<1>17. CASE System
  BY <1>1, <1>3, <1>4, <1>5, <1>6, <1>7, <1>8, <1>11, <1>12, <1>13, <1>17 DEF System
<1>18. QED
  BY <1>3, <1>9, <1>10, <1>14, <1>15, <1>16, <1>17 DEF Next, Environment

\* The inductive invariant of the factory reset.
THEOREM ResettingAlways == Spec => []Resetting
<1>1. ~Fresh.reset_intent
  BY DEF Fresh
<1>2. Init => Resetting
  BY <1>1, SMTT(30) DEF Init, Resetting
<1>3. QED
  BY <1>2, ResettingStep, TypeCorrect, AlwaysSynced, PTL DEF Spec

\* Only the removal loop of bootstrap deletes.
LEMMA DeletingStep ==
  TypeOK /\ [Next]_vars =>
    \/ UNCHANGED <<data, settings>> \/ ResetRemove
    \/ data' = ResetPaths /\ UNCHANGED settings
    \/ settings' \in Configuration /\ UNCHANGED data
<1> SUFFICES ASSUME TypeOK, [Next]_vars, ~ResetRemove
             PROVE  \/ UNCHANGED <<data, settings>>
                    \/ data' = ResetPaths /\ UNCHANGED settings
                    \/ settings' \in Configuration /\ UNCHANGED data
  OBVIOUS
<1>1. CASE System
  BY <1>1 DEF System, Persist, Rethrow, Reply, Settle, BootReset, BootRecover, BootFirst, PowerOn,
    BootApply, BootEnd, BootDone, Start, StartRecover, StartJob, TickStorageFailed, TickExpire,
    TickPass, Dispatch, NoDispatch, PowerCall, ServeNone, Undo, BeginApply, Prepare, world, product
<1>2. CASE Requests
  BY <1>2 DEF Requests, ApplyPreferences, BeginNetwork, GetNetworkTransaction,
    PrepareNetworkCommit, FinishNetwork, Power, ResetDevice, AcceptJob, world, product
<1>3. CASE AuthorityCommits \/ AuthoritySaves
  BY <1>3 DEF AuthorityCommits, AuthoritySaves, TypeOK, Configuration
<1>4. CASE Environment /\ ~AuthorityCommits /\ ~AuthoritySaves
  BY <1>4 DEF Environment, AuthorityGivesUp, CustomerWrites, CallFails, Crash, PowerLoss, MachineStops,
    PowerCycle, MachineOff, world, product
<1>5. QED
  BY <1>1, <1>2, <1>3, <1>4 DEF Next, Environment, vars, world, product

\* Nothing is deleted before the intent to reset is durable: the removal loop of
\* bootstrap runs only on an intent that no power loss can take back.
THEOREM IntentBeforeDeletionAlways == Spec => IntentBeforeDeletion
<1> DEFINE A == (data' # data /\ data' \subseteq data) \/ (settings' = NoFile /\ settings # NoFile)
                  => journal.stable.reset_intent
<1>1. TypeOK /\ Resetting /\ [Next]_vars => [A]_<<data, settings>>
  <2> SUFFICES ASSUME TypeOK, Resetting, [Next]_vars, ~UNCHANGED <<data, settings>> PROVE A
    OBVIOUS
  <2>1. CASE ResetRemove
    BY <2>1 DEF ResetRemove, Resetting
  <2>2. CASE data' = ResetPaths /\ UNCHANGED settings
    BY <2>2 DEF TypeOK
  <2>3. CASE settings' \in Configuration /\ UNCHANGED data
    BY <2>3, ConstantsAssumption
  <2>4. QED
    BY <2>1, <2>2, <2>3, DeletingStep
<1>2. QED
  BY <1>1, TypeCorrect, ResettingAlways, PTL DEF Spec, IntentBeforeDeletion

\* The durable intent is cleared only by a write made when every reset path is
\* gone and the factory defaults run, and that write journals the defaults.
THEOREM IntentSurvivesAlways == Spec => IntentSurvives
<1> DEFINE A == journal.stable.reset_intent /\ ~journal'.stable.reset_intent
                  => /\ data = {} /\ settings = NoFile
                     /\ live = Defaults /\ journal'.stable.configuration = Defaults
<1>1. TypeOK /\ Resetting /\ [Next]_vars => [A]_journal
  <2> SUFFICES ASSUME TypeOK, Resetting, [Next]_vars, journal.stable.reset_intent,
                      ~journal'.stable.reset_intent
               PROVE  Wiped /\ journal'.stable.configuration = Defaults
    BY DEF Wiped
  <2>1. journal'.stable \in {st, journal.visible, journal.stable}
    BY JournalStep DEF Versions
  <2>2. Clearing
    BY <2>1 DEF Resetting
  <2>3. QED
    BY <2>1, <2>2 DEF Clearing
<1>2. QED
  BY <1>1, TypeCorrect, ResettingAlways, PTL DEF Spec, IntentSurvives

-----------------------------------------------------------------------------
(* NetworkJournalled.                                                      *)

\* Recovery of this version puts the running network right, or has nothing to do.
Covered(s) == live.network = s.configuration.network \/ IsPending(s)

\* Places of start() and bootstrap at which no transaction is open any more.
Settled == {"boot.apply", "boot.end", "boot.done", "start.job"}
At(places) == pc \in places \/ (pc = "save" /\ call.save \in places)

\* settleNetwork() and the apply of beginNetwork() run under an open
\* transaction; what is open, or to be reset, is initialized; a device without
\* journalled settings runs complete ones until start() takes them over;
\* bootstrap ends with what it journalled running.
Running ==
  /\ pc \in DeadPlaces => call.catch = "stopped"
  /\ call.catch = "bootfailed" => At(BootPlaces) \/ (pc = "settle" /\ call.settle = "boot.apply")
  /\ pc = "settle" \/ At({"begin.apply"}) => IsPending(st)
  /\ At(Settled) => ~IsPending(st)
  /\ \A s \in Versions : IsPending(s) \/ s.reset_intent => s.initialized
  /\ pc = "boot.apply" /\ st.initialized /\ ~st.reset_intent => st = journal.visible
  /\ pc \in {"boot.end", "boot.done"} => st = journal.visible
  /\ At({"boot.end", "boot.done"}) =>
       IF st.initialized THEN live.network = st.configuration.network ELSE live \in Configuration
  /\ pc = "save" /\ call.save = "start.recover" => call.catch = "stopped"
  /\ ServicesUp /\ ~journal.visible.initialized =>
       live \in Configuration /\ (pc = "stopped" \/ (pc = "save" /\ call.save = "start.recover"))
  /\ ServicesUp /\ journal.visible.initialized => Covered(journal.visible)
  /\ ServicesUp /\ Writing => Covered(st) /\ st.initialized

\* Exceptions: what runs is unchanged, covered, or bootstrap fails.
LEMMA ThrowRunning ==
  ASSUME TypeOK, Synced, Running, NEW failed \in BOOLEAN, Throw(failed),
         pc \notin DeadPlaces,
         journal'.stable = journal.stable,
         journal'.visible = journal.visible \/ (Writing /\ journal'.visible = st),
         \/ live' = live \/ call.catch = "bootfailed"
         \/ /\ journal.visible.initialized /\ ~Writing
            /\ live'.network = live.network \/ IsPending(journal.visible)
  PROVE  Running'
<1>1. \A s \in {journal'.visible, journal'.stable, st} : IsPending(s) \/ s.reset_intent => s.initialized
  BY DEF Running, Versions
<1>2. CASE call.catch \in {"tick", "undo"}
  <2>1. /\ pc' \in {"tick", "undo"} /\ call'.catch \in {"tick", "stopped"} /\ ServicesUp
        /\ st'.initialized = st.initialized /\ st'.reset_intent = st.reset_intent
        /\ st'.pending = st.pending
    BY <1>2 DEF Throw, Loop, NewFrame, DeadPlaces, TypeOK, State, Frame, ServicesUp
  <2>2. journal.visible.initialized
    BY <1>2, <2>1 DEF Running, DeadPlaces
  <2>3. journal'.visible.initialized /\ Covered(journal.visible)'
    BY <1>2, <2>1, <2>2 DEF Running, Covered, Writing, IsPending
  <2>4. QED
    BY <1>1, <2>1, <2>3 DEF Running, DeadPlaces, At, Settled, Versions, Writing, IsPending, ServicesUp
<1>3. CASE call.catch = "bootfailed"
  <2>1. pc' = "bootfailed" /\ st' = journal'.visible /\ call'.catch = "stopped"
    BY <1>3 DEF Throw, Halt, NewFrame, DeadPlaces
  <2>2. QED
    BY <1>1, <2>1 DEF Running, DeadPlaces, At, Settled, Versions, Writing, IsPending, ServicesUp
<1>4. CASE call.catch = "stopped"
  <2>1. pc' = "stopped" /\ st' = journal'.visible /\ call'.catch = "stopped" /\ ServicesUp
    BY <1>4 DEF Throw, Halt, NewFrame, DeadPlaces, ServicesUp
  <2>2. journal'.visible.initialized => Covered(journal.visible)'
    BY <1>4, <2>1 DEF Running, Covered, Writing, IsPending
  <2>3. ~journal'.visible.initialized => live' \in Configuration
    BY <1>4, <2>1 DEF Running
  <2>4. QED
    BY <1>1, <2>1, <2>2, <2>3 DEF Running, DeadPlaces, At, Settled, Versions, Writing, IsPending, ServicesUp
<1>5. QED
  BY <1>2, <1>3, <1>4 DEF TypeOK, Frame

\* A place of the daemon that acts on what a restart would read.
Acting == ServicesUp /\ ~storage_failed /\ pc \in DaemonPlaces \cup {"settle"}

LEMMA ActingFacts ==
  ASSUME TypeOK, Synced, Running, Acting
  PROVE  st = journal.visible /\ st.initialized /\ Covered(st)
BY DEF Acting, Synced, Running, Ahead, BootPlaces, DaemonPlaces

\* A step of the daemon that leaves the journal alone.
LEMMA ActingRunning ==
  ASSUME TypeOK, Synced, Running, Acting, UNCHANGED <<journal, storage_failed>>,
         pc' \in DaemonPlaces \cup {"settle", "save"}, call'.catch # "bootfailed",
         pc' = "save" => /\ call'.save \notin Settled \ {"start.job"} /\ call'.save # "start.recover"
                         /\ Covered(st)',
         pc' = "settle" \/ At({"begin.apply"})' => IsPending(st'),
         At({"start.job"})' => ~IsPending(st'),
         st'.initialized,
         live'.network = live.network \/ IsPending(st)
  PROVE  Running'
<1>1. st = journal.visible /\ st.initialized /\ Covered(st)
  BY ActingFacts
<1>2. ServicesUp' /\ Covered(journal.visible)' /\ journal'.visible.initialized
  BY <1>1 DEF ServicesUp, Covered, IsPending, DaemonPlaces
<1>3. \A s \in Versions' : IsPending(s) \/ s.reset_intent => s.initialized
  BY DEF Running, Versions
<1>4. pc' \notin BootPlaces
  BY DEF BootPlaces, DaemonPlaces
<1>5. At(Settled)' => ~IsPending(st') /\ ~(At({"boot.end", "boot.done"})')
  BY <1>4 DEF At, Settled, BootPlaces
<1>6. QED
  BY <1>2, <1>3, <1>4, <1>5 DEF Running, DeadPlaces, DaemonPlaces, Writing, BootPlaces, At, Settled

LEMMA RunningStep ==
  TypeOK /\ Synced /\ OneOperation /\ Resetting /\ Running /\ [Next]_vars => Running'
<1> SUFFICES ASSUME TypeOK, Synced, OneOperation, Resetting, Running, [Next]_vars PROVE Running'
  OBVIOUS
<1>1. CASE Persist
  <2>1. CASE /\ ~storage_failed
             /\ journal' = [visible |-> st, stable |-> st]
             /\ Goto(call.save)
             /\ UNCHANGED memory
    <3>1. /\ pc = "save" /\ pc' = call.save /\ call' = call /\ st' = st /\ live' = live
          /\ journal'.visible = st /\ journal'.stable = st /\ storage_failed' = FALSE
          /\ pc' \in SaveReturns /\ pc' # "save"
      BY <1>1, <2>1 DEF Persist, Goto, memory, world, TypeOK, Frame, SaveReturns, SettleReturns
    <3>2. /\ pc' = "begin.apply" => IsPending(st)
          /\ pc' \in Settled => ~IsPending(st)
          /\ pc' # "settle"
      BY <3>1 DEF Running, DeadPlaces, At, SaveReturns, SettleReturns
    <3>3. pc' \in {"boot.end", "boot.done"} =>
            IF st.initialized THEN live.network = st.configuration.network ELSE live \in Configuration
      BY <3>1 DEF Running, DeadPlaces, At
    <3>4. ServicesUp' => ServicesUp /\ Writing
      BY <3>1, <2>1 DEF ServicesUp, Writing
    <3>5. ServicesUp' => st.initialized /\ Covered(st)
      BY <3>4 DEF Running
    <3>6. \A s \in Versions' : IsPending(s) \/ s.reset_intent => s.initialized
      BY <3>1 DEF Running, Versions
    <3>7. pc' \notin DeadPlaces /\ (call'.catch = "bootfailed" => pc' \in BootPlaces)
      BY <3>1 DEF Running, At, BootPlaces, DeadPlaces, SaveReturns, SettleReturns
    <3>8. QED
      BY <3>1, <3>2, <3>3, <3>5, <3>6, <3>7 DEF Running, At, Settled, Covered, Writing, IsPending
  <2>2. CASE Throw(TRUE) /\ (journal' = journal \/ (~storage_failed /\ journal' = [journal EXCEPT !.visible = st]))
    <3>1. /\ journal'.stable = journal.stable
          /\ journal'.visible = journal.visible \/ (Writing /\ journal'.visible = st)
      BY <1>1, <2>2 DEF Persist, Writing, TypeOK
    <3>2. live' = live /\ pc = "save"
      BY <1>1 DEF Persist, world
    <3>3. QED
      BY <2>2, <3>1, <3>2, ThrowRunning DEF DeadPlaces
  <2>3. QED
    BY <1>1, <2>1, <2>2 DEF Persist
<1>2. CASE Rethrow \/ TickStorageFailed \/ CallFails
  <2>1. /\ Throw(storage_failed) /\ journal' = journal /\ live' = live
        /\ pc \in {"throw", "tick", "serve", "boot.end"} /\ storage_failed \in BOOLEAN
    BY <1>2 DEF Rethrow, TickStorageFailed, CallFails, TypeOK, world
  <2>2. QED
    BY <2>1, ThrowRunning DEF DeadPlaces
<1>3. ASSUME NEW place, Save(place) PROVE pc' = "save" /\ call'.save = place /\ call'.catch = call.catch
  BY <1>3 DEF Save, TypeOK, Frame
<1>4. CASE Settle
  <2>0. pc = "settle" /\ ~storage_failed /\ st = journal.visible /\ IsPending(st) /\ journal' = journal
    BY <1>4 DEF Settle, Synced, Running, Ahead, BootPlaces
  <2>1. CASE /\ live' = [live EXCEPT !.network = SettledNetwork]
             /\ st' = [st EXCEPT !.configuration.network = SettledNetwork,
                         !.pending.state = IF call.commit THEN "committed" ELSE "rolled_back"]
             /\ Save(call.settle)
             /\ UNCHANGED <<storage_failed, job_deadline, used>>
    <3>1. /\ st'.configuration.network = SettledNetwork /\ live'.network = SettledNetwork
          /\ st'.pending.state \in {"committed", "rolled_back"}
          /\ st'.initialized = st.initialized /\ st'.reset_intent = st.reset_intent
      BY <2>1 DEF TypeOK, State, Configuration, Pending
    <3>2. pc' = "save" /\ call'.save = call.settle /\ call'.catch = call.catch /\ call.settle \in SettleReturns
      BY <2>1, <1>3 DEF TypeOK, Frame
    <3>3. CASE call.catch # "bootfailed"
      <4>1. Acting /\ call.settle # "boot.apply"
        BY <2>0, <3>3 DEF Acting, ServicesUp, Synced
      <4>2. st.initialized
        BY <4>1, ActingFacts
      <4>3. QED
        BY <2>0, <2>1, <3>1, <3>2, <3>3, <4>1, <4>2, ActingRunning
           DEF Covered, IsPending, At, Settled, SettleReturns
    <3>4. CASE call.catch = "bootfailed"
      <4>1. ~(ServicesUp') /\ ~IsPending(st')
        BY <3>1, <3>2, <3>4 DEF ServicesUp, IsPending
      <4>2. \A s \in Versions' : IsPending(s) \/ s.reset_intent => s.initialized
        BY <2>0, <3>1, <4>1 DEF Running, Versions
      <4>3. QED
        BY <2>0, <3>2, <4>1, <4>2 DEF Running, DeadPlaces, BootPlaces, At, Settled, SettleReturns
    <3>5. QED
      BY <3>3, <3>4
  <2>2. CASE HalfApplied("network") /\ Throw(storage_failed)
    <3>1. journal.visible.initialized
      BY <2>0 DEF Running, Versions
    <3>2. QED
      BY <2>0, <2>2, <3>1, ThrowRunning DEF Writing, DeadPlaces, TypeOK
  <2>3. QED
    BY <1>4, <2>1, <2>2 DEF Settle
<1>5. CASE BootReset \/ BootRecover \/ BootFirst
  <2>1. /\ pc = "off" /\ ~storage_failed /\ st = journal.visible /\ journal' = journal
        /\ \A s \in Versions : IsPending(s) \/ s.reset_intent => s.initialized
    BY <1>5 DEF BootReset, BootRecover, BootFirst, PowerOn, Synced, Running, Ahead, BootPlaces
  <2>2. CASE BootReset
    <3>1. pc' \in {"reset.remove", "bootfailed"} /\ st' = st /\ call'.catch = (IF pc' = "reset.remove" THEN "bootfailed" ELSE "stopped")
      BY <2>1, <2>2 DEF BootReset, Halt, memory, NewFrame
    <3>2. QED
      BY <2>1, <3>1 DEF Running, DeadPlaces, BootPlaces, At, Settled, Versions, ServicesUp
  <2>3. CASE BootRecover
    <3>1. NewFrame("bootfailed") \in Frame /\ NewFrame("bootfailed").catch = "bootfailed"
      BY NewFrameType DEF NewFrame
    <3>2. /\ call'.catch = "bootfailed" /\ st' = st
          /\ IF IsPending(st) THEN pc' = "settle" /\ call'.settle = "boot.apply" ELSE pc' = "boot.apply"
      BY <2>3, <3>1 DEF BootRecover, Recover, Frame, memory
    <3>3. QED
      BY <2>1, <3>2 DEF Running, DeadPlaces, BootPlaces, At, Settled, Versions, ServicesUp
  <2>4. CASE BootFirst
    <3>1. /\ call'.catch = "bootfailed" /\ ~st.initialized /\ storage_failed' = storage_failed
          /\ \/ pc' = "boot.apply" /\ st' = [st EXCEPT !.configuration = Initial]
             \/ pc' = "boot.end" /\ live' \in Configuration /\ st' = st
      BY <2>4 DEF BootFirst, NewFrame
    <3>2. ~st'.initialized /\ ~st'.reset_intent /\ ~IsPending(st')
      BY <2>1, <3>1 DEF TypeOK, State, Versions, IsPending
    <3>3. \A s \in Versions' : IsPending(s) \/ s.reset_intent => s.initialized
      BY <2>1, <3>2 DEF Versions
    <3>4. QED
      BY <2>1, <3>1, <3>2, <3>3 DEF Running, DeadPlaces, BootPlaces, At, Settled, ServicesUp
  <2>5. QED
    BY <1>5, <2>2, <2>3, <2>4
<1>6. CASE ResetRemove
  <2>1. pc = "reset.remove" /\ st.reset_intent /\ call.catch = "bootfailed" /\ journal' = journal /\ live' = live
    BY <1>6 DEF ResetRemove, Resetting, Clearing, Synced, BootPlaces
  <2>2. CASE Throw(storage_failed)
    BY <2>1, <2>2, ThrowRunning DEF DeadPlaces, TypeOK
  <2>3. CASE /\ st' = [st EXCEPT !.configuration = Defaults, !.initialized = TRUE, !.pending = NoPending]
             /\ Goto("boot.apply")
    <3>1. st'.initialized /\ st'.reset_intent /\ ~IsPending(st')
      BY <2>1, <2>3 DEF TypeOK, State, NoPending, IsPending
    <3>2. \A s \in Versions' : IsPending(s) \/ s.reset_intent => s.initialized
      BY <2>1, <3>1 DEF Running, Versions
    <3>3. QED
      BY <2>1, <2>3, <3>1, <3>2 DEF Goto, Running, DeadPlaces, BootPlaces, At, Settled, ServicesUp
  <2>4. CASE (\E p \in call.todo : call' = [call EXCEPT !.todo = @ \ {p}]) /\ UNCHANGED <<pc, memory>>
    <3>1. pc' = "reset.remove" /\ st' = st /\ call'.catch = "bootfailed"
      BY <2>1, <2>4 DEF memory, TypeOK, Frame
    <3>2. QED
      BY <2>1, <3>1 DEF Running, DeadPlaces, BootPlaces, At, Settled, Versions, ServicesUp
  <2>5. QED
    BY <1>6, <2>2, <2>3, <2>4 DEF ResetRemove
<1>7. CASE BootApply
  <2>1. /\ pc = "boot.apply" /\ call.catch = "bootfailed" /\ journal' = journal /\ ~IsPending(st)
        /\ st.initialized /\ ~st.reset_intent => st = journal.visible
    BY <1>7 DEF BootApply, Synced, Running, At, Settled, BootPlaces
  <2>2. CASE Throw(storage_failed)
    BY <2>1, <2>2, ThrowRunning DEF DeadPlaces, TypeOK
  <2>3. CASE /\ live' = st.configuration
             /\ st' = [st EXCEPT !.initialized = TRUE, !.reset_intent = FALSE,
                            !.job.state = IF st.reset_intent THEN "completed" ELSE @]
             /\ Save("boot.end")
    <3>1. /\ st'.initialized /\ ~IsPending(st') /\ live'.network = st'.configuration.network
      BY <2>1, <2>3 DEF TypeOK, State, IsPending
    <3>2. \A s \in Versions' : IsPending(s) \/ s.reset_intent => s.initialized
      BY <2>1, <3>1 DEF Running, Versions
    <3>3. pc' = "save" /\ call'.save = "boot.end" /\ call'.catch = "bootfailed"
      BY <2>1, <2>3, <1>3
    <3>4. QED
      BY <3>1, <3>2, <3>3 DEF Running, DeadPlaces, BootPlaces, At, Settled, ServicesUp
  <2>4. CASE /\ live' = st.configuration
             /\ ~(st.reset_intent \/ ~st.initialized)
             /\ Goto("boot.end") /\ UNCHANGED st
    <3>1. \A s \in Versions' : IsPending(s) \/ s.reset_intent => s.initialized
      BY <2>1, <2>4 DEF Running, Versions
    <3>2. QED
      BY <2>1, <2>4, <3>1 DEF Goto, Running, DeadPlaces, BootPlaces, At, Settled, ServicesUp, IsPending
  <2>5. QED
    BY <1>7, <2>2, <2>3, <2>4 DEF BootApply
<1>8. CASE BootEnd
  <2>1. /\ pc = "boot.end" /\ call.catch = "bootfailed" /\ ~IsPending(st) /\ st = journal.visible
        /\ IF st.initialized THEN live.network = st.configuration.network ELSE live \in Configuration
        /\ UNCHANGED <<journal, st, live>>
    BY <1>8 DEF BootEnd, Synced, Running, At, Settled, BootPlaces, memory, world
  <2>2. /\ call'.catch = "bootfailed"
        /\ pc' = "boot.done" \/ (pc' = "save" /\ call'.save = "boot.done")
    BY <1>8, <2>1, <1>3 DEF BootEnd, Goto
  <2>3. \A s \in Versions' : IsPending(s) \/ s.reset_intent => s.initialized
    BY <2>1 DEF Running, Versions
  <2>4. QED
    BY <2>1, <2>2, <2>3 DEF Running, DeadPlaces, BootPlaces, At, Settled, ServicesUp, IsPending
<1>9. CASE BootDone
  <2>1. /\ pc = "boot.done" /\ st = journal.visible
        /\ IF st.initialized THEN live.network = st.configuration.network ELSE live \in Configuration
        /\ UNCHANGED <<journal, live>>
    BY <1>9 DEF BootDone, Running, At, world
  <2>2. pc' = "stopped" /\ st' = st /\ call'.catch = "stopped"
    BY <1>9, <2>1 DEF BootDone, Halt, NewFrame
  <2>3. QED
    BY <2>1, <2>2 DEF Running, DeadPlaces, BootPlaces, At, Settled, Versions, Covered, Writing, IsPending
<1>10. CASE Start
  <2>1. /\ pc = "stopped" /\ ~storage_failed /\ st = journal.visible /\ call.catch = "stopped" /\ ServicesUp
        /\ UNCHANGED <<journal, live, storage_failed>>
    BY <1>10 DEF Start, Synced, Running, Ahead, BootPlaces, DeadPlaces, world, ServicesUp
  <2>2. \A s \in Versions : IsPending(s) \/ s.reset_intent => s.initialized
    BY DEF Running
  <2>3. CASE st.initialized /\ (Loop \/ Goto("start.recover")) /\ UNCHANGED st
    <3>1. Covered(st)
      BY <2>1, <2>3 DEF Running
    <3>2. pc' \in {"tick", "start.recover"} /\ call'.catch = "stopped"
      BY <2>1, <2>3 DEF Loop, Goto, NewFrame
    <3>3. QED
      BY <2>1, <2>2, <2>3, <3>1, <3>2 DEF Running, DeadPlaces, At, Settled, Versions, Covered, Writing, IsPending, ServicesUp
  <2>4. ASSUME NEW c \in Configuration, live \in Configuration => c = live, ~st.initialized,
               st' = [st EXCEPT !.configuration = c, !.initialized = TRUE], Save("start.recover")
        PROVE  Running'
    <3>1. live \in Configuration
      BY <2>1, <2>4 DEF Running
    <3>2. st'.initialized /\ ~IsPending(st') /\ live'.network = st'.configuration.network
      BY <2>1, <2>2, <2>4, <3>1 DEF TypeOK, State, IsPending, Versions
    <3>3. \A s \in Versions' : IsPending(s) \/ s.reset_intent => s.initialized
      BY <2>1, <2>2, <3>2 DEF Versions
    <3>4. pc' = "save" /\ call'.save = "start.recover" /\ call'.catch = "stopped"
      BY <2>1, <2>4, <1>3
    <3>5. QED
      BY <2>1, <2>4, <3>1, <3>2, <3>3, <3>4 DEF Running, DeadPlaces, At, Settled, Covered, Writing, IsPending, ServicesUp
  <2>5. st.reset_intent => st.initialized
    BY <2>2 DEF Versions
  <2>6. QED
    BY <1>10, <2>3, <2>4, <2>5 DEF Start, ResumeReset
<1>11. ASSUME pc \in DaemonPlaces \cup {"settle"}, ~storage_failed, call.catch # "bootfailed" PROVE Acting
  BY <1>11 DEF Acting, ServicesUp, DaemonPlaces
<1>12. ASSUME Acting, UNCHANGED <<journal, storage_failed, st, live>>,
              pc' \in DaemonPlaces \ {"begin.apply", "start.job"}, call'.catch # "bootfailed"
       PROVE  Running'
  <2>1. pc' \notin {"save", "settle", "begin.apply", "start.job"}
    BY <1>12 DEF DaemonPlaces
  <2>2. QED
    BY <1>12, <2>1, ActingFacts, ActingRunning DEF At
<1>13. ASSUME Acting, UNCHANGED <<journal, storage_failed, live>>, call'.catch # "bootfailed",
              pc' = "save", call'.save \in {"reply", "power", "throw", "begin.apply"}, st'.initialized,
              \/ /\ st'.configuration.network = st.configuration.network
                 /\ st'.pending = st.pending /\ call'.save # "begin.apply"
              \/ IsPending(st')
       PROVE  Running'
  <2>1. Covered(st)'
    BY <1>13, ActingFacts DEF Covered, IsPending
  <2>2. ~(At({"start.job"})') /\ (At({"begin.apply"})' => IsPending(st')) /\ call'.save \notin Settled
    BY <1>13 DEF At, Settled
  <2>3. QED
    BY <1>13, <2>1, <2>2, ActingRunning
<1>14. ASSUME pc \in DaemonPlaces, ~storage_failed PROVE Acting
  BY <1>14 DEF Acting, ServicesUp, Running, At, BootPlaces, DaemonPlaces
<1>15. ASSUME NEW place \in {"start.job", "tick.job"}, Recover(call, place), IsPending(st),
              Acting, UNCHANGED <<journal, memory, live>>
       PROVE  Running'
  <2>1. pc' = "settle" /\ call'.catch = call.catch
    BY <1>15 DEF Recover, TypeOK, Frame
  <2>2. call.catch # "bootfailed" /\ UNCHANGED <<st, storage_failed>>
    BY <1>15 DEF Acting, ServicesUp, memory
  <2>3. QED
    BY <1>15, <2>1, <2>2, ActingFacts, ActingRunning DEF At, IsPending
<1>16. CASE StartRecover \/ TickExpire \/ TickPass \/ NoDispatch
  <2>1. /\ pc \in {"start.recover", "tick", "tick.job"} /\ ~storage_failed
        /\ UNCHANGED <<journal, memory, live>>
    BY <1>16 DEF StartRecover, TickExpire, TickPass, NoDispatch, MayExpire, Synced, world
  <2>2. Acting /\ call.catch # "bootfailed" /\ UNCHANGED <<st, storage_failed>>
    BY <2>1, <1>14 DEF DaemonPlaces, Acting, ServicesUp, memory
  <2>3. ASSUME NEW place \in {"tick.job", call.tick}, Goto(place) PROVE Running'
    BY <2>1, <2>2, <2>3, <1>12 DEF Goto, DaemonPlaces, TypeOK, Frame
  <2>4. CASE Goto("start.job") /\ ~IsPending(st)
    <3>1. pc' = "start.job" /\ call' = call /\ ~IsPending(st')
      BY <2>2, <2>4 DEF Goto
    <3>2. pc' \in DaemonPlaces /\ ~(At({"begin.apply"})')
      BY <3>1 DEF DaemonPlaces, At
    <3>3. QED
      BY <2>1, <2>2, <3>1, <3>2, ActingFacts, ActingRunning
  <2>5. QED
    BY <1>16, <2>1, <2>2, <2>3, <2>4, <1>15 DEF StartRecover, TickExpire, TickPass, NoDispatch, MayExpire
<1>17. CASE StartJob \/ Dispatch \/ PowerCall
  <2>1. /\ pc \in {"start.job", "tick.job", "power"} /\ ~storage_failed /\ UNCHANGED <<journal, live, storage_failed>>
    BY <1>17 DEF StartJob, Dispatch, PowerCall, Synced, world
  <2>2. Acting /\ call.catch # "bootfailed"
    BY <2>1, <1>14 DEF DaemonPlaces, Acting, ServicesUp
  <2>3. CASE UNCHANGED st /\ (Loop \/ Goto(call.tick))
    <3>1. call.tick \in {"serve", "reply", "prepare"}
      BY DEF TypeOK, Frame
    <3>2. pc' \in DaemonPlaces \ {"begin.apply", "start.job"}
      BY <2>3, <3>1 DEF Loop, Goto, DaemonPlaces
    <3>3. call'.catch # "bootfailed"
      BY <2>2, <2>3 DEF Loop, Goto, NewFrame
    <3>4. QED
      BY <2>1, <2>2, <2>3, <3>2, <3>3, <1>12
  <2>4. ASSUME NEW job, st' = [st EXCEPT !.job.state = job],
               NEW place \in {"reply", "power", "throw"}, Save(place)
        PROVE  Running'
    <3>1. st'.initialized = st.initialized /\ st'.configuration = st.configuration /\ st'.pending = st.pending
      BY <2>4 DEF TypeOK, State
    <3>2. pc' = "save" /\ call'.save = place /\ call'.catch = call.catch
      BY <2>4, <1>3
    <3>3. QED
      BY <2>1, <2>2, <3>1, <3>2, <1>13, ActingFacts
  <2>5. QED
    BY <1>17, <2>3, <2>4 DEF StartJob, Dispatch, PowerCall
<1>18. CASE Reply \/ ServeNone
  <2>1. /\ pc \in {"reply", "serve"} /\ ~storage_failed /\ UNCHANGED <<journal, live, storage_failed, st>>
        /\ pc' = "tick" /\ call'.catch = "stopped"
    BY <1>18 DEF Reply, ServeNone, Synced, world, memory, Loop, NewFrame
  <2>2. QED
    BY <2>1, <1>12, <1>14 DEF DaemonPlaces
<1>19. CASE Undo
  <2>1. pc = "undo" /\ journal' = journal /\ call.catch # "bootfailed" /\ ServicesUp
    BY <1>19 DEF Undo, Running, At, BootPlaces, ServicesUp
  <2>2. journal.visible.initialized
    BY <2>1 DEF Running
  <2>3. CASE live' = [live EXCEPT !.preferences = call.previous.preferences] /\ Save("throw") /\ UNCHANGED memory
    <3>1. /\ pc' = "save" /\ call'.save = "throw" /\ call'.catch = call.catch /\ live'.network = live.network
          /\ st' = st /\ storage_failed' = storage_failed
      BY <2>3, <1>3 DEF memory, TypeOK
    <3>2. Covered(journal.visible)' /\ (~storage_failed => st = journal.visible)
      BY <2>1, <2>2, <3>1 DEF Running, Covered, Synced, Ahead, BootPlaces
    <3>3. QED
      BY <2>1, <2>2, <3>1, <3>2 DEF Running, DeadPlaces, BootPlaces, At, Settled, Versions, Covered, Writing, ServicesUp
  <2>4. CASE HalfApplied("preferences") /\ Throw(storage_failed)
    <3>1. live'.network = live.network
      BY <2>4 DEF HalfApplied, TypeOK
    <3>2. QED
      BY <2>1, <2>2, <2>4, <3>1, ThrowRunning DEF Writing, DeadPlaces, TypeOK
  <2>5. QED
    BY <1>19, <2>3, <2>4 DEF Undo
<1>20. CASE BeginApply
  <2>1. /\ pc = "begin.apply" /\ ~storage_failed /\ UNCHANGED <<journal, st, storage_failed>> /\ IsPending(st)
    BY <1>20 DEF BeginApply, Synced, Running, At, memory
  <2>2. Acting /\ call.catch # "bootfailed"
    BY <2>1, <1>14 DEF DaemonPlaces, Acting, ServicesUp
  <2>3. pc' \in {"tick", "settle"} /\ call'.catch = call.catch
    BY <1>20 DEF BeginApply, Goto, TypeOK, Frame
  <2>4. QED
    BY <2>1, <2>2, <2>3, ActingFacts, ActingRunning DEF At, DaemonPlaces, IsPending
<1>21. CASE Prepare
  <2>1. /\ pc = "prepare" /\ ~storage_failed /\ UNCHANGED <<journal, live, storage_failed>>
    BY <1>21 DEF Prepare, Synced, world
  <2>2. Acting /\ call.catch # "bootfailed"
    BY <2>1, <1>14 DEF DaemonPlaces, Acting, ServicesUp
  <2>3. CASE UNCHANGED st /\ (Loop \/ Goto("reply"))
    <3>1. pc' \in {"tick", "reply"} /\ call'.catch # "bootfailed"
      BY <2>2, <2>3, SMTT(30) DEF Loop, Goto, NewFrame
    <3>2. QED
      BY <2>1, <2>2, <2>3, <3>1, <1>12 DEF DaemonPlaces
  <2>4. CASE st' = [st EXCEPT !.pending.state = "committing"] /\ Save("reply")
    <3>1. st'.initialized = st.initialized /\ IsPending(st')
      BY <2>4 DEF TypeOK, State, Pending, IsPending
    <3>2. pc' = "save" /\ call'.save = "reply" /\ call'.catch = call.catch
      BY <2>4, <1>3
    <3>3. QED
      BY <2>1, <2>2, <3>1, <3>2, <1>13, ActingFacts
  <2>5. QED
    BY <1>21, <2>3, <2>4 DEF Prepare
<1>22. ASSUME pc = "serve" PROVE Acting /\ ~storage_failed
  BY <1>22, <1>14 DEF DaemonPlaces, Synced
<1>23. ASSUME NEW p \in Preferences, ApplyPreferences(p) PROVE Running'
  <2>1. pc = "serve" /\ UNCHANGED <<journal, storage_failed>> /\ call'.catch # "bootfailed"
    BY <1>23 DEF ApplyPreferences, Request, NewFrame
  <2>2. Acting /\ st.initialized /\ Covered(st)
    BY <2>1, <1>22, ActingFacts
  <2>3. live'.network = live.network
    BY <1>23 DEF ApplyPreferences, HalfApplied, TypeOK
  <2>4. CASE pc' = "undo" /\ UNCHANGED st
    BY <2>1, <2>2, <2>3, <2>4, ActingRunning DEF At, DaemonPlaces
  <2>5. CASE pc' = "save" /\ st' = [st EXCEPT !.configuration.preferences = p, !.initialized = TRUE]
    <3>1. /\ st'.initialized /\ st'.configuration.network = st.configuration.network
          /\ st'.pending = st.pending
      BY <2>5 DEF TypeOK, State, Configuration
    <3>2. call'.save = "reply"
      BY <1>23, <2>5 DEF ApplyPreferences, Request, NewFrame
    <3>3. Covered(st)'
      BY <2>2, <2>3, <3>1 DEF Covered, IsPending
    <3>4. QED
      BY <2>1, <2>2, <2>3, <2>5, <3>1, <3>2, <3>3, ActingRunning DEF At, Settled
  <2>6. QED
    BY <1>23, <2>4, <2>5 DEF ApplyPreferences
<1>24. ASSUME NEW n \in Networks, BeginNetwork(n) PROVE Running'
  <2>1. /\ pc = "serve" /\ UNCHANGED <<journal, storage_failed, live>> /\ call'.catch # "bootfailed"
        /\ pc' = "save" /\ call'.save = "begin.apply"
    BY <1>24 DEF BeginNetwork, Request, NewFrame, world
  <2>2. st'.initialized = st.initialized /\ IsPending(st')
    BY <1>24 DEF BeginNetwork, TypeOK, State, IsPending
  <2>3. QED
    BY <2>1, <2>2, <1>13, <1>22, ActingFacts
<1>25. ASSUME NEW action, AcceptJob(action) PROVE Running'
  <2>1. /\ pc = "serve" /\ UNCHANGED <<journal, storage_failed, live>> /\ call'.catch # "bootfailed"
        /\ pc' = "save" /\ call'.save = "reply"
    BY <1>25 DEF AcceptJob, Request, NewFrame, world
  <2>2. st'.initialized = st.initialized /\ st'.configuration = st.configuration /\ st'.pending = st.pending
    BY <1>25 DEF AcceptJob, TypeOK, State
  <2>3. QED
    BY <2>1, <2>2, <1>13, <1>22, ActingFacts
<1>26. CASE GetNetworkTransaction \/ PrepareNetworkCommit
  <2>1. /\ pc = "serve" /\ UNCHANGED <<journal, storage_failed, live, st>> /\ call'.catch # "bootfailed"
        /\ pc' = "tick"
    BY <1>26 DEF GetNetworkTransaction, PrepareNetworkCommit, Request, NewFrame, world, memory
  <2>2. QED
    BY <2>1, <1>12, <1>22 DEF DaemonPlaces
<1>27. ASSUME NEW commit \in BOOLEAN, FinishNetwork(commit) PROVE Running'
  <2>1. /\ pc = "serve" /\ UNCHANGED <<journal, storage_failed, live, st>> /\ call'.catch # "bootfailed"
        /\ pc' = "reply" \/ (pc' = "settle" /\ IsPending(st))
    BY <1>27 DEF FinishNetwork, MayFinish, Request, NewFrame, world, memory
  <2>2. QED
    BY <2>1, <1>22, ActingFacts, ActingRunning DEF DaemonPlaces, At, IsPending
<1>28. CASE AuthorityCommits \/ AuthoritySaves \/ AuthorityGivesUp \/ CustomerWrites \/ UNCHANGED vars
  <2>1. UNCHANGED <<journal, st, storage_failed, pc, call, live>>
    BY <1>28 DEF AuthorityCommits, AuthoritySaves, AuthorityGivesUp, CustomerWrites, vars, memory, world
  <2>2. /\ Versions' = Versions /\ ServicesUp' = ServicesUp /\ Writing' = Writing
        /\ Covered(st)' = Covered(st) /\ Covered(journal.visible)' = Covered(journal.visible)
    BY <2>1 DEF Versions, ServicesUp, Writing, Covered
  <2>3. QED
    BY <2>1, <2>2, ZenonT(30) DEF Running, At
<1>29. CASE Crash
  <2>1. /\ pc \notin DeadPlaces /\ live' = live /\ st' = journal'.visible /\ journal'.stable = journal.stable
        /\ journal'.visible = journal.visible \/ (Writing /\ journal'.visible = st)
        /\ pc' = (IF call.catch = "bootfailed" THEN "bootfailed" ELSE "stopped") /\ call'.catch = "stopped"
    BY <1>29 DEF Crash, Halt, NewFrame, world, TypeOK
  <2>2. \A s \in Versions' : IsPending(s) \/ s.reset_intent => s.initialized
    BY <2>1 DEF Running, Versions
  <2>3. ServicesUp' => ServicesUp
    BY <2>1 DEF ServicesUp, DeadPlaces
  <2>4. ServicesUp' => IF journal'.visible.initialized THEN Covered(journal.visible)' ELSE live \in Configuration
    BY <2>1, <2>3 DEF Running, Covered
  <2>5. QED
    BY <2>1, <2>2, <2>4 DEF Running, DeadPlaces, BootPlaces, At, Settled, Covered, Writing, ServicesUp
<1>30. CASE PowerLoss \/ MachineStops \/ PowerCycle
  <2>1. PICK s \in Versions : MachineOff(s)
    BY <1>30 DEF PowerLoss, MachineStops, PowerCycle, Versions
  <2>2. /\ pc' = "off" /\ call'.catch = "stopped" /\ st' = s /\ journal'.visible = s /\ journal'.stable = s
    BY <2>1 DEF MachineOff, Halt, NewFrame
  <2>3. QED
    BY <2>2 DEF Running, DeadPlaces, At, Settled, Versions, Writing, ServicesUp
<1>31. CASE System
  BY <1>31, <1>1, <1>2, <1>4, <1>5, <1>6, <1>7, <1>8, <1>9, <1>10, <1>16, <1>17, <1>18, <1>19, <1>20, <1>21 DEF System
<1>32. CASE Requests
  BY <1>32, <1>23, <1>24, <1>25, <1>26, <1>27 DEF Requests, Power, ResetDevice
<1>33. QED
  BY <1>2, <1>28, <1>29, <1>30, <1>31, <1>32 DEF Next, Environment

LEMMA InitShape ==
  Init => /\ pc = "off" /\ call.catch = "stopped" /\ call.reply = "none" /\ st = Fresh /\ Versions = {Fresh}
          /\ ~IsPending(Fresh) /\ ~Fresh.reset_intent /\ Fresh.pending.id = 0 /\ Fresh.pending.state = "none"
          /\ authority.phase = "idle" /\ settings = NoFile /\ used.proposals = 0
<1>1. ~IsPending(Fresh) /\ ~Fresh.reset_intent /\ Fresh.pending.id = 0 /\ Fresh.pending.state = "none"
  BY DEF Fresh, NoPending, IsPending
<1>2. Init => /\ pc = "off" /\ call.catch = "stopped" /\ call.reply = "none" /\ st = Fresh /\ Versions = {Fresh}
              /\ authority.phase = "idle" /\ settings = NoFile /\ used.proposals = 0
  <2>1. Init => pc = "off" /\ call.catch = "stopped" /\ call.reply = "none"
    <3>1. NewFrame("stopped").catch = "stopped" /\ NewFrame("stopped").reply = "none"
      BY DEF NewFrame
    <3>2. Init => pc = "off" /\ call = NewFrame("stopped")
      BY DEF Init
    <3>3. QED
      BY <3>1, <3>2
  <2>2. Init => authority.phase = "idle" /\ settings = NoFile /\ used.proposals = 0
    BY SMTT(30) DEF Init, NoGrant
  <2>3. Init => st = Fresh /\ Versions = {Fresh}
    BY SMTT(30) DEF Init, Versions
  <2>4. QED
    BY <2>1, <2>2, <2>3
<1>3. QED
  BY <1>1, <1>2

\* The running network and the journal, as Running describes them.
THEOREM AlwaysRunning == Spec => []Running
<1>1. Init => Running
  BY InitShape DEF Running, DeadPlaces, At, Settled, Writing, ServicesUp
<1>2. QED
  BY <1>1, RunningStep, TypeCorrect, AlwaysSynced, OneOperationAlways, ResettingAlways, PTL DEF Spec

\* A network that is not the journalled one runs only under an open transaction
\* in the journal a daemon restart would read: a crash or a failed call between
\* an apply and its journal write never strands a device on it.
THEOREM NetworkJournalledAlways == Spec => []NetworkJournalled
<1>1. Running => NetworkJournalled
  BY DEF Running, Covered, NetworkJournalled
<1>2. QED
  BY <1>1, AlwaysRunning, PTL
=============================================================================
