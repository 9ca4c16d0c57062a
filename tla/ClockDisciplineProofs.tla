-------------------------- MODULE ClockDisciplineProofs --------------------------
(***************************************************************************)
(* Proofs about ClockDiscipline, for every profile, set of ports and       *)
(* server lists: its states are well typed and, when systemd runs a start  *)
(* job at once, two clock disciplines never run beside each other and a    *)
(* finished apply() leaves only the recorded mode.                         *)
(***************************************************************************)
EXTENDS ClockDiscipline, TLAPS

\* The stop list leaves exactly what the start list names.
LEMMA Complement ==
  ASSUME NEW t \in Known
  PROVE  Units \ ToStop(t) = ToStart(t)
<1> DEFINE Managed == LegacyUnits \cup PtpUnits \cup IrigUnits
<1>1. Selected(t) \subseteq Managed /\ Managed \cap NtpUnits = {} /\ Units = Managed \cup NtpUnits
  BY ProfileAssumption DEF Known, Units
<1>2. CASE t.mode = "ntp"
  BY <1>1, <1>2 DEF ToStop, ToStart, Selected
<1>3. CASE t.mode # "ntp"
  BY <1>1, <1>3 DEF ToStop, ToStart
<1> QED
  BY <1>2, <1>3

\* A configuration that passed validateConfiguration() has only known units.
LEMMA ValidIsKnown ==
  ASSUME NEW t \in Times, Valid(t)
  PROVE  t \in Known
BY DEF Known, Valid, Times, Selected, PtpUnits, Instances

LEMMA StopType ==
  ASSUME NEW t \in Known
  PROVE  ToStop(t) \subseteq Units
BY DEF ToStop, Units

-----------------------------------------------------------------------------
(* Type correctness.                                                       *)

LEMMA FrameType ==
  ASSUME NEW t \in Known, NEW p \in Known, NEW u \in {"no", "yes", "doomed"}
  PROVE  Frame(t, u, p) \in [target : Known, undo : {"no", "yes", "doomed"}, previous : Known,
               todo : SUBSET Units, waiting : Units \cup {NoUnit},
               restart : BOOLEAN, reload : BOOLEAN]
BY DEF Frame

LEMMA TypeInit == Init => TypeOK
<1> SUFFICES ASSUME Init PROVE TypeOK
  OBVIOUS
<1>1. time \in Known
  BY ValidIsKnown DEF Init
<1>2. time.servers \in Servers /\ Explicit(time) \in BOOLEAN
  BY <1>1 DEF Known, Times, Explicit
<1>3. call \in [target : Known, undo : {"no", "yes", "doomed"}, previous : Known,
               todo : SUBSET Units, waiting : Units \cup {NoUnit},
               restart : BOOLEAN, reload : BOOLEAN]
  BY <1>1, FrameType DEF Init
<1> QED
  BY <1>1, <1>2, <1>3 DEF Init, TypeOK, Working

LEMMA TypeStep == TypeOK /\ [Next]_vars => TypeOK'
<1> SUFFICES ASSUME TypeOK, [Next]_vars PROVE TypeOK'
  OBVIOUS
<1> DEFINE States == {"inactive", "activating", "active", "deactivating", "failed"}
           Calls == [target : Known, undo : {"no", "yes", "doomed"}, previous : Known,
                     todo : SUBSET Units, waiting : Units \cup {NoUnit},
                     restart : BOOLEAN, reload : BOOLEAN]
           SystemdOK == /\ unit \in [Units -> States] /\ queued \in SUBSET Units
                        /\ loaded \in [NtpUnits -> Servers]
           FilesOK == /\ disabled \in SUBSET Modes /\ conf \in Servers
                      /\ dropin \in BOOLEAN /\ links \in BOOLEAN
           ControlOK == /\ pc \in Working \cup {"idle"} /\ call \in Calls
                        /\ trouble \in {"none", "now", "past"}
<1>t. SystemdOK /\ FilesOK /\ ControlOK /\ time \in Known
  BY DEF TypeOK
<1>q. SystemdOK' /\ FilesOK' /\ ControlOK' /\ time' \in Known => TypeOK'
  BY DEF TypeOK
<1> HIDE DEF States, Calls
<1>f. \A t, p \in Known : \A u \in {"no", "yes", "doomed"} : Frame(t, u, p) \in Calls
  BY FrameType DEF Calls
<1>c. call.target \in Known /\ call.previous \in Known /\ call.todo \in SUBSET Units
  BY <1>t DEF Calls
<1>d. \A t \in Known : t.servers \in Servers /\ Explicit(t) \in BOOLEAN
  BY DEF Known, Times, Explicit
<1>s. \A u \in Units : \A v \in States : [unit EXCEPT ![u] = v] \in [Units -> States]
  BY <1>t
<1>n. {"inactive", "activating", "active", "deactivating", "failed"} \subseteq States
  BY DEF States
<1>w. "ntp" \in Working /\ "ptp" \in Working /\ "irig" \in Working /\ "servers" \in Working
      /\ "dropins" \in Working /\ "stop" \in Working /\ "reload" \in Working
      /\ "start" \in Working /\ "save" \in Working
  BY DEF Working, Modes
<1>i. ASSUME Idle, time' \in Known PROVE pc' \in Working \cup {"idle"} /\ call' \in Calls
  BY <1>i, <1>f DEF Idle
<1>th. ASSUME Throw, time' = time PROVE ControlOK'
  <2>1. CASE call.undo = "no"
    BY <1>th, <2>1, <1>t, <1>c, <1>f, <1>w DEF Throw
  <2>2. CASE call.undo # "no"
    BY <1>th, <2>2, <1>t, <1>i DEF Throw
  <2> QED BY <2>1, <2>2
<1>l. ASSUME NEW u \in Units, Launch(u), TRUE
      PROVE  unit' \in [Units -> States] /\ loaded' \in [NtpUnits -> Servers]
  BY <1>l, <1>t, <1>s, <1>n DEF Launch
<1>1. ASSUME NEW t \in Times, Apply(t) PROVE TypeOK'
  <2>1. t \in Known
    BY <1>1, ValidIsKnown DEF Apply
  <2> QED BY <1>1, <2>1, <1>t, <1>q, <1>f, <1>w DEF Apply, systemd, files
<1>2. CASE Fails
  BY <1>2, <1>t, <1>q, <1>th DEF Fails, systemd, files
<1>3. CASE WriteMarker
  <2>1. PICK m \in Modes :
          /\ pc = m
          /\ disabled' = IF call.target.mode = m THEN disabled \ {m} ELSE disabled \cup {m}
          /\ pc' = FileAfter(m)
    BY <1>3 DEF WriteMarker
  <2>2. pc' \in Working
    BY <2>1, <1>w DEF FileAfter
  <2>3. disabled' \in SUBSET Modes
    BY <2>1, <1>t
  <2>4. UNCHANGED <<systemd, conf, dropin, links, time, call, trouble>>
    BY <1>3 DEF WriteMarker
  <2> QED BY <2>2, <2>3, <2>4, <1>t, <1>q DEF systemd
<1>4. CASE WriteServers
  <2>1. call' \in Calls
    BY <1>4, <1>t DEF WriteServers, ServersChanged, Calls
  <2> QED BY <1>4, <2>1, <1>t, <1>c, <1>d, <1>q, <1>w DEF WriteServers, systemd
<1>5. CASE WriteDropIns
  <2>1. ToStop(call.target) \cup NtpUnits \subseteq Units
    BY <1>c, StopType DEF Units
  <2>2. ToStop(call.target) \cup (IF call.restart /\ call.target.mode = "ntp" THEN NtpUnits ELSE {})
          \in SUBSET Units
    BY <2>1
  <2>3. (dropin # Explicit(call.target)) \in BOOLEAN
    OBVIOUS
  <2>4. call' \in Calls
    BY <1>5, <1>t, <2>2, <2>3 DEF WriteDropIns, Calls
  <2> QED BY <1>5, <2>4, <1>t, <1>c, <1>d, <1>q, <1>w DEF WriteDropIns, systemd
<1>6. CASE UnitStep
  <2>1. UNCHANGED <<files, time, pc, trouble>>
    BY <1>6 DEF UnitStep
  <2>2. ASSUME NEW u \in call.todo, call' = [call EXCEPT !.todo = @ \ {u}, !.waiting = NoUnit]
        PROVE  call' \in Calls
    BY <2>2, <1>t DEF Calls
  <2>3. ASSUME NEW u \in call.todo, call' = [call EXCEPT !.waiting = u]
        PROVE  call' \in Calls
    BY <2>3, <1>t, <1>c DEF Calls
  <2>4. ASSUME NEW u \in call.todo, StartUnit(u) PROVE SystemdOK'
    <3>u. u \in Units
      BY <1>c
    <3>1. CASE Launch(u) /\ UNCHANGED queued
      BY <3>1, <3>u, <1>t, <1>l
    <3>2. CASE queued' = queued \cup {u} /\ UNCHANGED <<unit, loaded>>
      BY <3>2, <3>u, <1>t
    <3>3. CASE UNCHANGED systemd
      BY <3>3, <1>t DEF systemd
    <3> QED BY <2>4, <3>1, <3>2, <3>3 DEF StartUnit
  <2>5. ASSUME NEW u \in call.todo, StopUnit(u) PROVE SystemdOK'
    BY <2>5, <1>c, <1>t, <1>s, <1>n DEF StopUnit
  <2>6. call' \in Calls /\ SystemdOK'
    BY <1>6, <1>t, <2>2, <2>3, <2>4, <2>5 DEF UnitStep, systemd
  <2> QED BY <2>1, <2>6, <1>t, <1>q DEF files
<1>7. CASE Timeout
  BY <1>7, <1>t, <1>q, <1>th DEF Timeout, systemd, files
<1>8. CASE StageDone
  BY <1>8, <1>t, <1>q, <1>w DEF StageDone, systemd, files
<1>9. CASE Reload
  <2>1. ToStart(call.target) \in SUBSET Units
    BY <1>c, Complement
  <2>2. call' \in Calls
    BY <1>9, <1>t, <2>1 DEF Reload, Calls
  <2> QED BY <1>9, <2>2, <1>t, <1>q, <1>w DEF Reload, systemd
<1>10. CASE Save
  BY <1>10, <1>t, <1>c, <1>q, <1>i DEF Save, systemd, files
<1>11. CASE SaveFails
  <2>1. time' \in Known
    BY <1>11, <1>t, <1>c DEF SaveFails
  <2>2. pc' \in Working \cup {"idle"} /\ call' \in Calls
    BY <1>11, <2>1, <1>c, <1>f, <1>i, <1>w DEF SaveFails
  <2> QED BY <1>11, <2>1, <2>2, <1>t, <1>q DEF SaveFails, systemd, files
<1>12. CASE Crash
  BY <1>12, <1>t, <1>q, <1>i DEF Crash, systemd, files
<1>13. CASE Boot
  <2>1. unit' \in [Units -> States]
    BY <1>13, <1>n DEF Boot
  <2>2. disabled' \in SUBSET Modes /\ conf' \in Servers /\ loaded' \in [NtpUnits -> Servers]
    BY <1>13, <1>t, <1>d DEF Boot
  <2>3. dropin' \in BOOLEAN /\ links' \in BOOLEAN /\ queued' \in SUBSET Units
    BY <1>13, <1>t, <1>d DEF Boot
  <2> QED BY <1>13, <2>1, <2>2, <2>3, <1>t, <1>q, <1>i DEF Boot
<1>14. ASSUME NEW u \in Units, UnitMoves(u) PROVE TypeOK'
  <2>1. UNCHANGED <<files, time, pc, call, trouble>>
    BY <1>14 DEF UnitMoves
  <2>2. SystemdOK'
    BY <1>14, <1>t, <1>s, <1>n, <1>l DEF UnitMoves
  <2> QED BY <2>1, <2>2, <1>t, <1>q DEF files
<1>15. CASE UNCHANGED vars
  BY <1>15, <1>t, <1>q DEF vars, systemd, files
<1> QED
  BY <1>1, <1>2, <1>3, <1>4, <1>5, <1>6, <1>7, <1>8, <1>9, <1>10, <1>11, <1>12, <1>13, <1>14, <1>15
  DEF Next, Daemon

\* The clock policy code keeps every value in its type, and a target of apply()
\* always has units the profile knows.
THEOREM ClockTypeCorrect == Spec => []TypeOK
BY TypeInit, TypeStep, PTL DEF Spec

-----------------------------------------------------------------------------
(* Exclusion.  While units are being stopped, every competing unit that still *)
(* runs is on the list; afterwards only units of the target run.  This needs  *)
(* that no start job waits for a unit that is already down.                   *)

NoneWaits == \A u \in queued : unit[u] = "deactivating"
Staged ==
  /\ NoneWaits
  /\ pc = "stop" => Running \cap ToStop(call.target) \subseteq call.todo
  /\ pc = "start" => call.todo \subseteq ToStart(call.target)
  /\ pc \in {"reload", "start", "save"} => Running \subseteq ToStart(call.target)
  /\ Exclusive

LEMMA StagedInit == Init => Staged
<1> SUFFICES ASSUME Init PROVE Staged
  OBVIOUS
<1>1. Running = {}
  BY DEF Init, Running, Down
<1> QED
  BY <1>1 DEF Init, Staged, NoneWaits, Exclusive

\* A unit that systemd moves was running before, unless its start was queued.
LEMMA MovesShrink ==
  ASSUME TypeOK, NoneWaits, NEW u \in Units, UnitMoves(u)
  PROVE  Running' \subseteq Running /\ NoneWaits'
<1>t. unit \in [Units -> {"inactive", "activating", "active", "deactivating", "failed"}]
  BY DEF TypeOK
<1>1. unit[u] \notin Down
  BY <1>t DEF UnitMoves, NoneWaits, Down
<1>2. \A v \in Units : v # u => unit'[v] = unit[v]
  BY <1>t DEF UnitMoves, Launch
<1>3. Running' \subseteq Running
  BY <1>1, <1>2 DEF Running
<1>4. queued' \subseteq queued /\ u \notin queued'
  BY DEF UnitMoves, NoneWaits
<1> QED
  BY <1>2, <1>3, <1>4 DEF NoneWaits, TypeOK

LEMMA StagedStep ==
  ASSUME TypeOK, Staged, ~QueuedStarts, [Next]_vars
  PROVE  Staged'
<1>t. unit \in [Units -> {"inactive", "activating", "active", "deactivating", "failed"}]
      /\ queued \subseteq Units /\ call.target \in Known /\ call.todo \subseteq Units
  BY DEF TypeOK
<1>m. Running' \subseteq Running => Exclusive'
  BY DEF Staged, Exclusive
<1>u. UNCHANGED systemd => Running' = Running /\ NoneWaits' /\ Exclusive'
  BY <1>m DEF Staged, NoneWaits, Running, systemd
<1>k. ASSUME UNCHANGED systemd, pc' \notin {"stop", "reload", "start", "save"} PROVE Staged'
  BY <1>k, <1>u DEF Staged
<1>th. ASSUME Throw PROVE pc' \notin {"stop", "reload", "start", "save"}
  BY <1>th DEF Throw, Idle
<1>1. ASSUME NEW t \in Times, Apply(t) PROVE Staged'
  BY <1>1, <1>k DEF Apply
<1>2. CASE Fails
  BY <1>2, <1>k, <1>th DEF Fails
<1>3. CASE WriteMarker
  BY <1>3, <1>k DEF WriteMarker, FileAfter
<1>4. CASE WriteServers
  BY <1>4, <1>k DEF WriteServers
<1>5. CASE WriteDropIns
  <2>1. call'.target = call.target /\ ToStop(call.target) \subseteq call'.todo
    BY <1>5 DEF WriteDropIns, TypeOK
  <2> QED BY <1>5, <2>1, <1>u DEF WriteDropIns, Staged
<1>6. CASE UnitStep
  <2>p. pc' = pc /\ pc \in {"stop", "start"}
    BY <1>6 DEF UnitStep
  <2>1. ASSUME NEW u \in call.todo, There(u), UNCHANGED systemd,
               call' = [call EXCEPT !.todo = @ \ {u}, !.waiting = NoUnit]
        PROVE  Staged'
    <3>1. call'.target = call.target /\ call'.todo = call.todo \ {u}
      BY <2>1 DEF TypeOK
    <3>2. CASE pc = "stop"
      <4>1. u \notin Running
        BY <2>1, <3>2 DEF There, Running
      <4> QED BY <2>1, <2>p, <3>1, <3>2, <4>1, <1>u DEF Staged
    <3>3. CASE pc = "start"
      BY <2>1, <2>p, <3>1, <3>3, <1>u DEF Staged
    <3> QED BY <2>p, <3>2, <3>3
  <2>2. ASSUME NEW u \in call.todo, ~There(u), pc = "stop", StopUnit(u),
               call' = [call EXCEPT !.waiting = u]
        PROVE  Staged'
    <3>1. call'.target = call.target /\ call'.todo = call.todo
      BY <2>2 DEF TypeOK
    <3>2. u \in Running
      BY <2>2, <1>t DEF There, Running
    <3>3. Running' \subseteq Running /\ NoneWaits'
      BY <2>2, <3>2, <1>t DEF StopUnit, Running, NoneWaits, Staged
    <3> QED BY <2>2, <2>p, <3>1, <3>3, <1>m DEF Staged
  <2>3. ASSUME NEW u \in call.todo, ~There(u), pc = "start", StartUnit(u),
               call' = [call EXCEPT !.waiting = u]
        PROVE  Staged'
    <3>1. call'.target = call.target /\ call'.todo = call.todo
      BY <2>3 DEF TypeOK
    <3>2. u \in ToStart(call.target) /\ Running \subseteq ToStart(call.target)
      BY <2>3 DEF Staged
    <3>3. NoneWaits'
      <4>1. CASE unit[u] \in Down /\ Launch(u) /\ UNCHANGED queued
        <5>1. u \notin queued
          BY <4>1 DEF Staged, NoneWaits, Down
        <5> QED BY <4>1, <5>1, <1>t DEF Staged, NoneWaits, Launch
      <4>2. CASE unit[u] = "deactivating" /\ queued' = queued \cup {u} /\ UNCHANGED <<unit, loaded>>
        BY <4>2 DEF Staged, NoneWaits
      <4>3. CASE UNCHANGED systemd
        BY <4>3, <1>u
      <4> QED BY <2>3, <4>1, <4>2, <4>3 DEF StartUnit
    <3>4. Running' \subseteq Running \cup {u}
      BY <2>3, <1>t DEF StartUnit, Launch, Running, systemd
    <3>5. Exclusive'
      BY <3>2, <3>4, <1>t DEF Exclusive, Known
    <3> QED BY <2>3, <2>p, <3>1, <3>2, <3>3, <3>4, <3>5 DEF Staged
  <2> QED BY <1>6, <2>p, <2>1, <2>2, <2>3 DEF UnitStep
<1>7. CASE Timeout
  BY <1>7, <1>k, <1>th DEF Timeout
<1>8. CASE StageDone
  <2>1. CASE pc = "stop"
    <3>1. Running \cap ToStop(call.target) = {}
      BY <1>8, <2>1 DEF StageDone, Staged
    <3>2. Running \subseteq ToStart(call.target)
      BY <3>1, <1>t, Complement DEF Running
    <3> QED BY <1>8, <2>1, <3>2, <1>u DEF StageDone, Staged
  <2>2. CASE pc = "start"
    BY <1>8, <2>2, <1>u DEF StageDone, Staged
  <2> QED BY <1>8, <2>1, <2>2 DEF StageDone
<1>9. CASE Reload
  <2>1. call'.target = call.target /\ call'.todo = ToStart(call.target)
    BY <1>9 DEF Reload, TypeOK
  <2> QED BY <1>9, <2>1, <1>u DEF Reload, Staged
<1>10. CASE Save
  BY <1>10, <1>k DEF Save, Idle
<1>11. CASE SaveFails
  BY <1>11, <1>k DEF SaveFails, Idle
<1>12. CASE Crash
  BY <1>12, <1>k DEF Crash, Idle
<1>13. CASE Boot
  <2>1. queued' = {} /\ pc' = "idle" /\ time \in Known /\ disabled' = Modes \ {time.mode}
    BY <1>13 DEF Boot, Idle, TypeOK
  <2>2. Running' \subseteq {u \in Units : u \notin PtpUnits /\ MarkerOf(u) = time.mode}
    BY <1>13, <2>1 DEF Boot, Running, Down, MarkerOf, Modes
  <2>3. Running' \subseteq LegacyUnits \/ Running' \subseteq ToStart(time)
    BY <2>1, <2>2 DEF MarkerOf, Units, ToStart, Selected
  <2>4. Exclusive'
    BY <2>1, <2>3 DEF Exclusive, Known
  <2> QED BY <2>1, <2>4 DEF Staged, NoneWaits
<1>14. ASSUME NEW u \in Units, UnitMoves(u) PROVE Staged'
  <2>1. Running' \subseteq Running /\ NoneWaits'
    BY <1>14, MovesShrink DEF Staged
  <2>2. UNCHANGED <<pc, call>>
    BY <1>14 DEF UnitMoves
  <2> QED BY <2>1, <2>2, <1>m DEF Staged
<1>15. CASE UNCHANGED vars
  <2>1. UNCHANGED systemd /\ UNCHANGED <<pc, call>>
    BY <1>15 DEF vars
  <2> QED BY <2>1, <1>u DEF Staged
<1> QED
  BY <1>1, <1>2, <1>3, <1>4, <1>5, <1>6, <1>7, <1>8, <1>9, <1>10, <1>11, <1>12, <1>13, <1>14, <1>15
  DEF Next, Daemon

\* preferences() never lets two clock disciplines, or the instances of two PTP
\* ports, run beside each other, if systemd runs a start job at once.
THEOREM ExclusiveAlways ==
  ASSUME ~QueuedStarts
  PROVE  Spec => []Exclusive
<1>1. Init => TypeOK /\ Staged
  BY TypeInit, StagedInit
<1>2. TypeOK /\ Staged /\ [Next]_vars => (TypeOK /\ Staged)'
  BY TypeStep, StagedStep
<1>3. Staged => Exclusive
  BY DEF Staged
<1> QED
  BY <1>1, <1>2, <1>3, PTL DEF Spec

-----------------------------------------------------------------------------
(* The recorded mode.  The markers are written one by one before any unit is *)
(* touched, so that they are right when the units are.                       *)

Written ==
  IF pc \in {"idle", "ntp"} THEN {}
  ELSE IF pc = "ptp" THEN {"ntp"} ELSE IF pc = "irig" THEN {"ntp", "ptp"} ELSE Modes
Marked ==
  /\ \A m \in Written : m \in disabled <=> m # call.target.mode
  /\ ModeHolds

LEMMA MarkedInit == Init => Marked
<1> SUFFICES ASSUME Init PROVE Marked
  OBVIOUS
<1>1. Running = {}
  BY DEF Init, Running, Down
<1> QED
  BY <1>1 DEF Init, Marked, Written, ModeHolds

LEMMA MarkedStep ==
  ASSUME TypeOK, Staged, Marked, TypeOK', Staged', [Next]_vars
  PROVE  Marked'
<1>i. ASSUME pc' = "idle", ModeHolds' PROVE Marked'
  BY <1>i DEF Marked, Written
<1>n. ASSUME pc' = "idle", trouble' = "now" PROVE Marked'
  BY <1>n, <1>i DEF ModeHolds
<1>w. ASSUME pc' = "ntp" PROVE Marked'
  BY <1>w DEF Marked, Written, ModeHolds
<1>k. ASSUME UNCHANGED <<disabled, trouble>>, call'.target = call.target, Written' = Written,
             pc' # "idle"
      PROVE  Marked'
  BY <1>k DEF Marked, ModeHolds
<1>th. ASSUME Throw PROVE Marked'
  BY <1>th, <1>n, <1>w DEF Throw, Idle
<1>1. ASSUME NEW t \in Times, Apply(t) PROVE Marked'
  BY <1>1, <1>w DEF Apply
<1>2. CASE Fails
  BY <1>2, <1>th DEF Fails
<1>3. CASE WriteMarker
  <2>1. PICK m \in Modes :
          /\ pc = m
          /\ disabled' = IF call.target.mode = m THEN disabled \ {m} ELSE disabled \cup {m}
          /\ pc' = FileAfter(m)
    BY <1>3 DEF WriteMarker
  <2>2. call' = call /\ trouble' = trouble
    BY <1>3 DEF WriteMarker
  <2>3. Written' = Written \cup {m} /\ pc' # "idle"
    BY <2>1 DEF Written, FileAfter, Modes
  <2>4. m \in disabled' <=> m # call.target.mode
    BY <2>1
  <2>5. \A n \in Written : n \in disabled' <=> n # call.target.mode
    BY <2>1 DEF Marked
  <2> QED BY <2>2, <2>3, <2>4, <2>5 DEF Marked, ModeHolds
<1>4. CASE WriteServers
  <2>1. call'.target = call.target
    BY <1>4 DEF WriteServers, TypeOK
  <2> QED BY <1>4, <2>1, <1>k DEF WriteServers, Written
<1>5. CASE WriteDropIns
  <2>1. call'.target = call.target
    BY <1>5 DEF WriteDropIns, TypeOK
  <2> QED BY <1>5, <2>1, <1>k DEF WriteDropIns, Written
<1>6. CASE UnitStep
  <2>1. call'.target = call.target
    BY <1>6 DEF UnitStep, TypeOK
  <2>2. UNCHANGED <<disabled, pc, trouble>> /\ pc # "idle"
    BY <1>6 DEF UnitStep, files
  <2> QED BY <2>1, <2>2, <1>k DEF Written
<1>7. CASE Timeout
  BY <1>7, <1>th DEF Timeout
<1>8. CASE StageDone
  BY <1>8, <1>k DEF StageDone, Written, files
<1>9. CASE Reload
  <2>1. call'.target = call.target
    BY <1>9 DEF Reload, TypeOK
  <2> QED BY <1>9, <2>1, <1>k DEF Reload, Written
<1>10. CASE Save
  <2>1. CASE call.undo = "doomed"
    BY <1>10, <2>1, <1>n DEF Save, Idle
  <2>2. CASE call.undo # "doomed"
    <3>1. pc = "save" /\ pc' = "idle" /\ time' = call.target
      BY <1>10, <2>2 DEF Save, Idle
    <3>2. disabled' = disabled /\ Running' = Running
      BY <1>10 DEF Save, files, systemd, Running
    <3>3. disabled = Modes \ {call.target.mode}
      BY <3>1 DEF Marked, Written, TypeOK
    <3>4. Running \subseteq ToStart(call.target)
      BY <3>1 DEF Staged
    <3>5. ModeHolds'
      BY <3>1, <3>2, <3>3, <3>4 DEF ModeHolds
    <3> QED BY <3>1, <3>5, <1>i
  <2> QED BY <2>1, <2>2
<1>11. CASE SaveFails
  BY <1>11, <1>n, <1>w DEF SaveFails, Idle
<1>12. CASE Crash
  BY <1>12, <1>n DEF Crash, Idle
<1>13. CASE Boot
  <2>1. pc' = "idle" /\ time' = time /\ time \in Known /\ disabled' = Modes \ {time.mode}
    BY <1>13 DEF Boot, Idle, TypeOK
  <2>2. Running' \subseteq {u \in Units : u \notin PtpUnits /\ MarkerOf(u) = time.mode}
    BY <1>13, <2>1 DEF Boot, Running, Down, MarkerOf, Modes
  <2>3. Running' \subseteq ToStart(time) \cup (IF time.mode = "ptp" THEN LegacyUnits ELSE {})
    BY <2>2 DEF MarkerOf, Units, ToStart, Selected
  <2>4. ModeHolds'
    BY <2>1, <2>3 DEF ModeHolds
  <2> QED BY <2>1, <2>4, <1>i
<1>14. ASSUME NEW u \in Units, UnitMoves(u) PROVE Marked'
  <2>1. Running' \subseteq Running
    BY <1>14, MovesShrink DEF Staged
  <2>2. UNCHANGED <<disabled, time, pc, call, trouble>>
    BY <1>14 DEF UnitMoves, files
  <2>3. ModeHolds'
    BY <2>1, <2>2 DEF Marked, ModeHolds
  <2> QED BY <2>2, <2>3 DEF Marked, Written
<1>15. CASE UNCHANGED vars
  <2>1. UNCHANGED <<unit, disabled, time, pc, call, trouble>>
    BY <1>15 DEF vars, systemd, files
  <2> QED BY <2>1 DEF Marked, Written, ModeHolds, Running
<1> QED
  BY <1>1, <1>2, <1>3, <1>4, <1>5, <1>6, <1>7, <1>8, <1>9, <1>10, <1>11, <1>12, <1>13, <1>14, <1>15
  DEF Next, Daemon

\* After a successful or rolled back apply(), and after a boot, only units of the
\* recorded mode run and only its marker is absent, if systemd runs a start job
\* at once.
THEOREM ModeHoldsAlways ==
  ASSUME ~QueuedStarts
  PROVE  Spec => []ModeHolds
<1>1. Init => TypeOK /\ Staged /\ Marked
  BY TypeInit, StagedInit, MarkedInit
<1>2. TypeOK /\ Staged /\ Marked /\ [Next]_vars => (TypeOK /\ Staged /\ Marked)'
  BY TypeStep, StagedStep, MarkedStep
<1>3. Marked => ModeHolds
  BY DEF Marked
<1> QED
  BY <1>1, <1>2, <1>3, PTL DEF Spec

-----------------------------------------------------------------------------
(* The servers in use.  Whether NTP and networkd have to be told is decided *)
(* from the files, so the invariant relates what was read to what is written *)
(* at each place of preferences(), of the first attempt and of its rollback. *)

\* Every running NTP unit has read the server file as it is.
Fresh == \A u \in NtpUnits \cap Running : loaded[u] = conf
Early == pc \in {"idle", "ntp", "ptp", "irig", "servers"}
First == call.undo = "no"

\* What the frame of apply() holds.
Framed ==
  /\ call.undo # "doomed" /\ call.previous = time
  /\ ~First => call.target = time
  /\ pc = "idle" => First

\* The server file and what the NTP units have read of it.
Served ==
  /\ Early /\ First => conf = time.servers
  /\ ~Early => conf = call.target.servers
  /\ (Early \/ First) /\ conf = time.servers => Fresh
  /\ pc = "dropins" => Fresh \/ call.restart
  /\ pc = "stop" => \A u \in NtpUnits \cap Running : loaded[u] = conf \/ u \in call.todo
  /\ pc \in {"reload", "start", "save"} => Fresh

\* The drop-ins and what networkd has loaded of them.
Linked ==
  /\ (Early \/ pc = "dropins") /\ First => dropin = Explicit(time)
  /\ (Early \/ pc = "dropins" \/ First) /\ dropin = Explicit(time) => links = dropin
  /\ ~Early /\ pc # "dropins" => dropin = Explicit(call.target)
  /\ pc \in {"stop", "reload"} => links = dropin \/ call.reload
  /\ pc \in {"start", "save"} => links = dropin

InUse == trouble = "none" => Framed /\ Served /\ Linked

\* A step of systemd: what runs afterwards ran before, or has just read the file.
LEMMA LaunchReads ==
  ASSUME TypeOK, NEW u \in Units, Launch(u), NEW v \in NtpUnits \cap Running'
  PROVE  (v \in Running /\ loaded'[v] = loaded[v]) \/ loaded'[v] = conf
<1>1. unit \in [Units -> {"inactive", "activating", "active", "deactivating", "failed"}]
      /\ loaded \in [NtpUnits -> Servers] /\ v \in Units /\ unit'[v] \notin Down
  BY DEF TypeOK, Running
<1>2. CASE MarkerOf(u) \in disabled
  BY <1>1, <1>2 DEF Launch, Running
<1>3. CASE MarkerOf(u) \notin disabled /\ v = u
  BY <1>1, <1>3 DEF Launch
<1>4. CASE MarkerOf(u) \notin disabled /\ v # u
  <2>1. unit'[v] = unit[v]
    BY <1>1, <1>4 DEF Launch
  <2>2. loaded'[v] = loaded[v]
    BY <1>1, <1>4 DEF Launch
  <2> QED BY <1>1, <2>1, <2>2 DEF Running
<1> QED BY <1>2, <1>3, <1>4

LEMMA ShiftReads ==
  ASSUME TypeOK, NEW u \in Units, NEW s, unit' = [unit EXCEPT ![u] = s], loaded' = loaded,
         unit[u] \notin Down \/ s \in Down,
         NEW v \in NtpUnits \cap Running'
  PROVE  v \in Running /\ loaded'[v] = loaded[v]
<1>1. unit \in [Units -> {"inactive", "activating", "active", "deactivating", "failed"}]
      /\ v \in Units /\ unit'[v] \notin Down
  BY DEF TypeOK, Running
<1> QED BY <1>1 DEF Running

LEMMA MovesRead ==
  ASSUME TypeOK, NEW u \in Units, UnitMoves(u), NEW v \in NtpUnits \cap Running'
  PROVE  (v \in Running /\ loaded'[v] = loaded[v]) \/ loaded'[v] = conf
<1>1. CASE unit[u] = "activating" /\ unit' = [unit EXCEPT ![u] = "active"] /\ loaded' = loaded
  BY <1>1, ShiftReads DEF Down
<1>2. CASE unit' = [unit EXCEPT ![u] = "failed"] /\ loaded' = loaded
  BY <1>2, ShiftReads DEF Down
<1>3. CASE unit' = [unit EXCEPT ![u] = "inactive"] /\ loaded' = loaded
  BY <1>3, ShiftReads DEF Down
<1>4. CASE Launch(u)
  BY <1>4, LaunchReads
<1> QED BY <1>1, <1>2, <1>3, <1>4 DEF UnitMoves

LEMMA StepReads ==
  ASSUME TypeOK, UnitStep, NEW v \in NtpUnits \cap Running'
  PROVE  (v \in Running /\ loaded'[v] = loaded[v]) \/ loaded'[v] = conf
<1>0. call.todo \subseteq Units
  BY DEF TypeOK
<1>1. CASE UNCHANGED systemd
  BY <1>1 DEF systemd, Running
<1>2. ASSUME NEW u \in call.todo, StartUnit(u)
      PROVE  (v \in Running /\ loaded'[v] = loaded[v]) \/ loaded'[v] = conf
  <2>1. CASE Launch(u)
    BY <2>1, <1>0, LaunchReads
  <2>2. CASE UNCHANGED <<unit, loaded>>
    BY <2>2 DEF Running
  <2> QED BY <1>2, <2>1, <2>2 DEF StartUnit, systemd
<1>3. ASSUME NEW u \in call.todo, StopUnit(u), unit[u] \notin Down
      PROVE  (v \in Running /\ loaded'[v] = loaded[v]) \/ loaded'[v] = conf
  BY <1>0, <1>3, ShiftReads DEF StopUnit
<1> QED BY <1>1, <1>2, <1>3 DEF UnitStep, There

\* What UnitStep does to the frame: only an item that is down leaves the stop list.
LEMMA StepFrame ==
  ASSUME TypeOK, UnitStep
  PROVE  /\ UNCHANGED <<files, time, pc, trouble>>
         /\ call'.undo = call.undo /\ call'.previous = call.previous
         /\ call'.target = call.target /\ call'.reload = call.reload
         /\ pc = "stop" => \A u \in call.todo : u \in call'.todo \/ unit'[u] \in Down
<1>1. ASSUME NEW u \in call.todo, There(u), UNCHANGED systemd,
             call' = [call EXCEPT !.todo = @ \ {u}, !.waiting = NoUnit]
      PROVE  /\ call'.undo = call.undo /\ call'.previous = call.previous
             /\ call'.target = call.target /\ call'.reload = call.reload
             /\ pc = "stop" => \A w \in call.todo : w \in call'.todo \/ unit'[w] \in Down
  BY <1>1 DEF TypeOK, There, systemd
<1>2. ASSUME NEW u \in call.todo, call' = [call EXCEPT !.waiting = u]
      PROVE  /\ call'.undo = call.undo /\ call'.previous = call.previous
             /\ call'.target = call.target /\ call'.reload = call.reload
             /\ pc = "stop" => \A w \in call.todo : w \in call'.todo \/ unit'[w] \in Down
  BY <1>2 DEF TypeOK
<1> QED BY <1>1, <1>2 DEF UnitStep

LEMMA InUseInit == Init => InUse
<1> SUFFICES ASSUME Init PROVE Framed /\ Served /\ Linked
  BY DEF InUse
<1>1. pc = "idle" /\ conf = time.servers /\ dropin = Explicit(time) /\ links = Explicit(time)
      /\ call.undo = "no" /\ call.previous = time
  BY DEF Init, Frame
<1>2. Fresh
  BY DEF Init, Fresh
<1> QED BY <1>1, <1>2 DEF Framed, Served, Linked, Early, First

\* Being back at rest with the files and units as the preferences ask.
LEMMA InUseIdle ==
  ASSUME Idle, (conf = time.servers)', (dropin = Explicit(time) /\ links = dropin)', Fresh'
  PROVE  (Framed /\ Served /\ Linked)'
<1>1. pc' = "idle" /\ call'.undo = "no" /\ call'.previous = time'
  BY DEF Idle, Frame
<1> QED BY <1>1 DEF Framed, Served, Linked, Early, First

\* The catch block is entered: what the rollback finds.
LEMMA InUseThrow ==
  ASSUME InUse, Throw, UNCHANGED <<systemd, files, time>>
  PROVE  InUse'
<1>1. CASE call.undo # "no"
  BY <1>1 DEF Throw, InUse
<1>2. CASE call.undo = "no" /\ trouble = "none"
  <2>1. pc' = "ntp" /\ call'.undo = "yes" /\ call'.target = call.previous
        /\ call'.previous = call.previous
    BY <1>2 DEF Throw, Frame
  <2>2. Framed /\ Served /\ Linked /\ First
    BY <1>2 DEF InUse, First
  <2>3. (conf = time.servers => Fresh) /\ (dropin = Explicit(time) => links = dropin)
    BY <2>2 DEF Served, Linked
  <2>4. UNCHANGED <<conf, dropin, links, time>> /\ (Fresh <=> Fresh')
    BY DEF systemd, files, Fresh, Running
  <2>5. Framed'
    BY <2>1, <2>2, <2>4 DEF Framed, First
  <2>6. Served'
    BY <2>1, <2>3, <2>4 DEF Served, Early, First
  <2>7. Linked'
    BY <2>1, <2>3, <2>4 DEF Linked, Early, First, Explicit
  <2> QED BY <2>5, <2>6, <2>7 DEF InUse
<1>3. CASE call.undo = "no" /\ trouble # "none"
  BY <1>3 DEF Throw, InUse
<1> QED BY <1>1, <1>2, <1>3

LEMMA InUseStep == TypeOK /\ InUse /\ [Next]_vars => InUse'
<1> SUFFICES ASSUME TypeOK, InUse, [Next]_vars PROVE InUse'
  OBVIOUS
<1>r. call \in [target : Known, undo : {"no", "yes", "doomed"}, previous : Known,
               todo : SUBSET Units, waiting : Units \cup {NoUnit},
               restart : BOOLEAN, reload : BOOLEAN]
  BY DEF TypeOK
<1>1. ASSUME NEW t \in Times, Apply(t) PROVE InUse'
  <2> SUFFICES ASSUME trouble' = "none" PROVE (Framed /\ Served /\ Linked)'
    BY DEF InUse
  <2>1. pc = "idle" /\ pc' = "ntp" /\ call'.undo = "no" /\ call'.previous = time
        /\ UNCHANGED <<systemd, files, time, trouble>>
    BY <1>1 DEF Apply, Frame
  <2>2. UNCHANGED <<conf, dropin, links, time>> /\ (Fresh <=> Fresh')
    BY <2>1 DEF systemd, files, Fresh, Running
  <2>3. Framed /\ Served /\ Linked
    BY <2>1 DEF InUse
  <2>4. conf = time.servers /\ Fresh /\ dropin = Explicit(time) /\ links = dropin
    BY <2>1, <2>3 DEF Framed, Served, Linked, Early
  <2> QED BY <2>1, <2>2, <2>4 DEF Framed, Served, Linked, Early, First, Explicit
<1>2. CASE Fails
  BY <1>2, InUseThrow DEF Fails
<1>3. CASE WriteMarker
  <2> SUFFICES ASSUME trouble' = "none" PROVE (Framed /\ Served /\ Linked)'
    BY DEF InUse
  <2>1. pc \in Modes /\ pc' \in {"ptp", "irig", "servers"}
        /\ UNCHANGED <<systemd, conf, dropin, links, time, call, trouble>>
    BY <1>3 DEF WriteMarker, FileAfter
  <2>2. UNCHANGED <<conf, dropin, links, time, call>> /\ (Fresh <=> Fresh')
    BY <2>1 DEF systemd, Fresh, Running
  <2>3. Framed /\ Served /\ Linked
    BY <2>1 DEF InUse
  <2>4. Framed'
    BY <2>1, <2>2, <2>3 DEF Framed, First
  <2>5. Served'
    BY <2>1, <2>2, <2>3 DEF Served, Early, First, Modes
  <2>6. Linked'
    BY <2>1, <2>2, <2>3 DEF Linked, Early, First, Modes, Explicit
  <2> QED BY <2>4, <2>5, <2>6
<1>4. CASE WriteServers
  <2> SUFFICES ASSUME trouble' = "none" PROVE (Framed /\ Served /\ Linked)'
    BY DEF InUse
  <2>1. pc = "servers" /\ pc' = "dropins" /\ conf' = call.target.servers
        /\ UNCHANGED <<systemd, dropin, links, time, trouble>>
    BY <1>4 DEF WriteServers
  <2>2. call'.undo = call.undo /\ call'.previous = call.previous /\ call'.target = call.target
        /\ call'.restart = (conf # call.target.servers)
    BY <1>4, <1>r DEF WriteServers, ServersChanged
  <2>3. Framed /\ Served /\ Linked
    BY <2>1 DEF InUse
  <2>4. Fresh /\ conf' = conf => Fresh'
    BY <2>1 DEF systemd, Fresh, Running
  <2>5. Framed'
    BY <2>1, <2>2, <2>3 DEF Framed, First
  <2>6. (First => conf = time.servers) /\ (conf = time.servers => Fresh)
    BY <2>1, <2>3 DEF Served, Early
  <2>7. Fresh' \/ call'.restart
    <3>1. CASE conf = call.target.servers
      <4>1. conf = time.servers
        BY <2>3, <2>6, <3>1 DEF Framed
      <4> QED BY <2>1, <2>4, <2>6, <3>1, <4>1
    <3>2. CASE conf # call.target.servers
      BY <2>2, <3>2
    <3> QED BY <3>1, <3>2
  <2>8. First' /\ (conf = time.servers)' => Fresh'
    BY <2>1, <2>2, <2>4, <2>6 DEF First
  <2>9. Served'
    BY <2>1, <2>2, <2>7, <2>8 DEF Served, Early
  <2>10. Linked'
    BY <2>1, <2>2, <2>3 DEF Linked, Early, First, Explicit
  <2> QED BY <2>5, <2>9, <2>10
<1>5. CASE WriteDropIns
  <2> SUFFICES ASSUME trouble' = "none" PROVE (Framed /\ Served /\ Linked)'
    BY DEF InUse
  <2>1. pc = "dropins" /\ pc' = "stop" /\ dropin' = Explicit(call.target)
        /\ UNCHANGED <<systemd, conf, links, time, trouble>>
    BY <1>5 DEF WriteDropIns
  <2>2. call'.undo = call.undo /\ call'.previous = call.previous /\ call'.target = call.target
        /\ call'.reload = (dropin # Explicit(call.target))
        /\ call'.todo = ToStop(call.target) \cup
                (IF call.restart /\ call.target.mode = "ntp" THEN NtpUnits ELSE {})
    BY <1>5, <1>r DEF WriteDropIns
  <2>3. Framed /\ Served /\ Linked
    BY <2>1 DEF InUse
  <2>4. Running' = Running /\ UNCHANGED <<loaded, conf>> /\ (Fresh <=> Fresh')
    BY <2>1 DEF systemd, Fresh, Running
  <2>5. Framed'
    BY <2>1, <2>2, <2>3 DEF Framed, First
  <2>6. Fresh \/ call.restart
    BY <2>1, <2>3 DEF Served
  <2>7. call.restart => NtpUnits \subseteq call'.todo
    BY <2>2 DEF ToStop
  <2>8. \A u \in NtpUnits \cap Running' : loaded'[u] = conf' \/ u \in call'.todo
    BY <2>4, <2>6, <2>7 DEF Fresh
  <2>9. conf' = call.target.servers /\ (First' /\ (conf = time.servers)' => Fresh')
    BY <2>1, <2>2, <2>3, <2>4 DEF Served, Early, First
  <2>10. Served'
    BY <2>1, <2>2, <2>8, <2>9 DEF Served, Early
  <2>11. (First => dropin = Explicit(time)) /\ (dropin = Explicit(time) => links = dropin)
    BY <2>1, <2>3 DEF Linked
  <2>12. links' = dropin' \/ call'.reload
    <3>1. CASE dropin = Explicit(call.target)
      <4>1. dropin = Explicit(time)
        BY <2>3, <2>11, <3>1 DEF Framed
      <4> QED BY <2>1, <2>11, <3>1, <4>1
    <3>2. CASE dropin # Explicit(call.target)
      BY <2>2, <3>2
    <3> QED BY <3>1, <3>2
  <2>13. First' /\ dropin' = Explicit(time') => links' = dropin'
    BY <2>1, <2>2, <2>11 DEF First
  <2>14. Linked'
    BY <2>1, <2>2, <2>12, <2>13 DEF Linked, Early, Explicit
  <2> QED BY <2>5, <2>10, <2>14
<1>6. CASE UnitStep
  <2> SUFFICES ASSUME trouble' = "none" PROVE (Framed /\ Served /\ Linked)'
    BY DEF InUse
  <2>1. pc \in {"stop", "start"}
    BY <1>6 DEF UnitStep
  <2>2. UNCHANGED <<conf, dropin, links, time, pc, trouble>>
        /\ call'.undo = call.undo /\ call'.previous = call.previous
        /\ call'.target = call.target /\ call'.reload = call.reload
    BY <1>6, StepFrame DEF files
  <2>3. Framed /\ Served /\ Linked
    BY <2>2 DEF InUse
  <2>4. \A v \in NtpUnits \cap Running' :
          (v \in Running /\ loaded'[v] = loaded[v]) \/ loaded'[v] = conf
    BY <1>6, StepReads
  <2>5. Fresh => Fresh'
    BY <2>2, <2>4 DEF Fresh
  <2>6. pc = "stop" => \A u \in NtpUnits \cap Running' : loaded'[u] = conf' \/ u \in call'.todo
    <3> SUFFICES ASSUME pc = "stop", NEW u \in NtpUnits \cap Running', loaded'[u] # conf
                 PROVE  u \in call'.todo
      BY <2>2
    <3>1. u \in Running /\ loaded'[u] = loaded[u]
      BY <2>4
    <3>2. u \in call.todo
      BY <2>3, <3>1 DEF Served
    <3>3. unit'[u] \notin Down
      BY DEF Running
    <3> QED BY <1>6, <3>2, <3>3, StepFrame
  <2>7. Framed'
    BY <2>1, <2>2, <2>3 DEF Framed, First
  <2>8. Served'
    BY <2>1, <2>2, <2>3, <2>5, <2>6 DEF Served, Early, First
  <2>9. Linked'
    BY <2>1, <2>2, <2>3 DEF Linked, Early, First, Explicit
  <2> QED BY <2>7, <2>8, <2>9
<1>7. CASE Timeout
  BY <1>7, InUseThrow DEF Timeout
<1>8. CASE StageDone
  <2> SUFFICES ASSUME trouble' = "none" PROVE (Framed /\ Served /\ Linked)'
    BY DEF InUse
  <2>1. call.todo = {} /\ ((pc = "stop" /\ pc' = "reload") \/ (pc = "start" /\ pc' = "save"))
        /\ UNCHANGED <<systemd, files, time, call, trouble>>
    BY <1>8 DEF StageDone
  <2>2. UNCHANGED <<conf, dropin, links, time, call>> /\ (Fresh <=> Fresh')
    BY <2>1 DEF systemd, files, Fresh, Running
  <2>3. Framed /\ Served /\ Linked
    BY <2>1 DEF InUse
  <2>4. Fresh
    BY <2>1, <2>3 DEF Served, Fresh
  <2>5. Framed'
    BY <2>1, <2>2, <2>3 DEF Framed, First
  <2>6. Served'
    BY <2>1, <2>2, <2>3, <2>4 DEF Served, Early, First
  <2>7. Linked'
    BY <2>1, <2>2, <2>3 DEF Linked, Early, First, Explicit
  <2> QED BY <2>5, <2>6, <2>7
<1>9. CASE Reload
  <2> SUFFICES ASSUME trouble' = "none" PROVE (Framed /\ Served /\ Linked)'
    BY DEF InUse
  <2>1. pc = "reload" /\ pc' = "start" /\ links' = (IF call.reload THEN dropin ELSE links)
        /\ UNCHANGED <<systemd, conf, dropin, time, trouble>>
    BY <1>9 DEF Reload
  <2>2. call'.undo = call.undo /\ call'.previous = call.previous /\ call'.target = call.target
    BY <1>9, <1>r DEF Reload
  <2>3. Framed /\ Served /\ Linked
    BY <2>1 DEF InUse
  <2>4. Fresh'
    BY <2>1, <2>3 DEF Served, systemd, Fresh, Running
  <2>5. links' = dropin'
    BY <2>1, <2>3 DEF Linked
  <2>6. dropin' = Explicit(call'.target)
    BY <2>1, <2>2, <2>3 DEF Linked, Early
  <2>7. Framed'
    BY <2>1, <2>2, <2>3 DEF Framed, First
  <2>8. Served'
    BY <2>1, <2>2, <2>3, <2>4 DEF Served, Early
  <2>9. Linked'
    BY <2>1, <2>5, <2>6 DEF Linked, Early, Explicit
  <2> QED BY <2>7, <2>8, <2>9
<1>10. CASE Save
  <2> SUFFICES ASSUME trouble' = "none" PROVE (Framed /\ Served /\ Linked)'
    BY DEF InUse
  <2>1. pc = "save" /\ trouble = "none" /\ time' = call.target /\ Idle
        /\ UNCHANGED <<systemd, files>>
    BY <1>10 DEF Save
  <2>2. UNCHANGED <<conf, dropin, links>> /\ (Fresh <=> Fresh')
    BY <2>1 DEF systemd, files, Fresh, Running
  <2>3. Served /\ Linked
    BY <2>1 DEF InUse
  <2>4. conf = call.target.servers /\ Fresh
    BY <2>1, <2>3 DEF Served, Early
  <2>5. dropin = Explicit(call.target) /\ links = dropin
    BY <2>1, <2>3 DEF Linked, Early
  <2>6. (dropin = Explicit(time) /\ links = dropin)'
    BY <2>1, <2>2, <2>5 DEF Explicit
  <2> QED BY <2>1, <2>2, <2>4, <2>6, InUseIdle
<1>11. CASE SaveFails
  BY <1>11 DEF SaveFails, InUse
<1>12. CASE Crash
  BY <1>12 DEF Crash, InUse
<1>13. CASE Boot
  <2>1. Idle /\ conf' = time'.servers /\ time' = time
    BY <1>13 DEF Boot
  <2>2. (dropin = Explicit(time) /\ links = dropin)'
    BY <1>13 DEF Boot, Explicit
  <2>3. Fresh'
    BY <1>13 DEF Boot, Fresh
  <2> QED BY <2>1, <2>2, <2>3, InUseIdle DEF InUse
<1>14. ASSUME NEW u \in Units, UnitMoves(u) PROVE InUse'
  <2> SUFFICES ASSUME trouble' = "none" PROVE (Framed /\ Served /\ Linked)'
    BY DEF InUse
  <2>1. UNCHANGED <<conf, dropin, links, time, pc, call, trouble>>
    BY <1>14 DEF UnitMoves, files
  <2>2. Framed /\ Served /\ Linked
    BY <2>1 DEF InUse
  <2>3. \A v \in NtpUnits \cap Running' :
          (v \in Running /\ loaded'[v] = loaded[v]) \/ loaded'[v] = conf
    BY <1>14, MovesRead
  <2>4. Fresh => Fresh'
    BY <2>1, <2>3 DEF Fresh
  <2>5. pc = "stop" => \A w \in NtpUnits \cap Running' : loaded'[w] = conf' \/ w \in call'.todo
    BY <2>1, <2>2, <2>3, SMTT(30) DEF Served
  <2>6. Framed'
    BY <2>1, <2>2 DEF Framed, First
  <2>7. Served'
    BY <2>1, <2>2, <2>4, <2>5 DEF Served, Early, First
  <2>8. Linked'
    BY <2>1, <2>2 DEF Linked, Early, First, Explicit
  <2> QED BY <2>6, <2>7, <2>8
<1>15. CASE UNCHANGED vars
  <2>1. UNCHANGED <<conf, dropin, links, time, pc, call, trouble>> /\ Running' = Running
        /\ loaded' = loaded
    BY <1>15 DEF vars, systemd, files, Running
  <2>2. (Framed <=> Framed') /\ (Fresh <=> Fresh')
    BY <2>1 DEF Framed, First, Fresh
  <2>3. Served <=> Served'
    BY <2>1, <2>2 DEF Served, Early, First
  <2>4. Linked <=> Linked'
    BY <2>1 DEF Linked, Early, First, Explicit
  <2> QED BY <2>1, <2>2, <2>3, <2>4 DEF InUse
<1> QED BY <1>1, <1>2, <1>3, <1>4, <1>5, <1>6, <1>7, <1>8, <1>9, <1>10, <1>11, <1>12, <1>13,
           <1>14, <1>15 DEF Next, Daemon

\* Once apply() has returned, a running NTP service uses the recorded servers and
\* networkd the matching drop-ins, although NTP is restarted, and networkd told,
\* only when their files change: also after a failure at any step and its rollback,
\* and whether or not systemd delays start jobs.
THEOREM ServersInUseAlways == Spec => []ServersInUse
<1>1. InUse => ServersInUse
  <2> SUFFICES ASSUME InUse, pc = "idle", trouble = "none"
               PROVE  (\A u \in NtpUnits \cap Running : loaded[u] = time.servers)
                      /\ links = Explicit(time)
    BY DEF ServersInUse
  <2>1. First /\ Early /\ Served /\ Linked
    BY DEF InUse, Framed, Early
  <2> QED BY <2>1 DEF Served, Linked, Fresh
<1> QED BY <1>1, ClockTypeCorrect, InUseInit, InUseStep, PTL DEF Spec
=============================================================================
