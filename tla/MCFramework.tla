------------------------------ MODULE MCFramework ------------------------------
(***************************************************************************)
(* The parts of the service framework and of the logging library, which    *)
(* share no state: a behaviour exercises one of them, and the others rest. *)
(***************************************************************************)
EXTENDS ServiceLifecycle, ServiceManager, UnitInspection, JournalReader, LogRecords

VARIABLE part

Parts == {"process", "registry", "unit", "journal", "records"}

-----------------------------------------------------------------------------
(* Three services with every choice of dependencies among a few shapes: a    *)
(* chain, a pair, a circle, an unknown name; optional ones; a second service *)
(* for a unit that is taken.                                                 *)

AllNames == {"a", "b", "c", "x"}
AllUnits == {"a.service", "b.service", "c.service"}
Svc(n, u, deps, auto) == [name |-> n, unit |-> u, after |-> deps, auto_start |-> auto]
MCCatalog ==
  {Svc("a", "a.service", d, s) : d \in {<<>>, <<"b">>, <<"b", "c">>}, s \in BOOLEAN}
  \cup {Svc("b", "b.service", d, s) : d \in {<<>>, <<"c">>, <<"c", "a">>}, s \in BOOLEAN}
  \cup {Svc("c", "c.service", d, s) : d \in {<<>>, <<"x">>}, s \in BOOLEAN}
  \cup {Svc("x", "c.service", <<"a", "a">>, TRUE)}

-----------------------------------------------------------------------------
(* Entries that the queries want for their unit, and others.                 *)

Kind(a, c, u, p) == [audience |-> a, component |-> c, unit |-> u, priority |-> p]
MCKinds == {Kind("user", "clock", "b", 6), Kind("developer", "network", "b", 7)}
MCFollowQuery ==
  [equal |-> [audience |-> "user"], components |-> {"network"}, units |-> {"b"}, maximum |-> 6,
   since |-> 0, until |-> 0, after |-> 0, limit |-> 1, newest_first |-> FALSE, strict |-> FALSE]
MCPageQuery == [MCFollowQuery EXCEPT !.newest_first = TRUE, !.strict = TRUE]

-----------------------------------------------------------------------------
(* Texts and names at, above and well below each limit of the code.          *)

Text(id, size) == <<Chunk(id, size, TRUE, FALSE, -1)>>
Ident(id, size) == <<Chunk(id, size, TRUE, TRUE, -1)>>

MCTexts == {<<>>, Text("a", 256), Text("b", 257), Text("c", 512), Text("d", 513),
            <<Chunk("newline", 5, FALSE, FALSE, -1)>>}
MCCodes == {Ident("x", 128), Ident("y", 129), Text("blank", 4)}
MCFieldLists == {<<>>, <<Word("password")>>, <<Ident("x", 128), Text("a=b", 3)>>, <<Ident("y", 129)>>}
           \cup {[k \in 1..n |-> Ident("x", 128)] : n \in {2, MaxNames, MaxNames + 1}}

OwnNames == {Field("MNC_LOG_AUDIENCE", Word("user")), Field("MNC_EVENT", Word("other")),
             Field("CODE_FILE", Word("other")), Field("lower", Word("v")), Field("KEY", Word("v"))}
MCExtras == {<<>>} \cup {<<f>> : f \in OwnNames} \cup {<<f, g>> : f \in OwnNames, g \in OwnNames}

Q == Mark("q")
N(n) == Ident("x", n)
MCForeign ==
  {<<Field("PRIORITY", p), Field("MNC_CHANGED_FIELDS", v)>> :
     p \in {<<>>, Word("bad"), Number(3), Number(9)},
     v \in {<<>>, Mark("[") \o Mark("]"), Mark("[") \o Q \o Mark("]"),
            Mark("[") \o Q \o Q \o Mark("]"), Mark("[") \o Q \o N(129) \o Q \o Mark("]"),
            Mark("[") \o Q \o N(1) \o Q \o Mark(",") \o Mark("]"),
            Mark("[") \o Q \o N(1) \o Q \o Mark(",") \o Q \o Mark("]"),
            Mark("[") \o Q \o N(1) \o Mark(",") \o N(2) \o Q \o Mark("]"),
            Mark("[") \o Q \o N(1) \o Q \o Q \o N(2) \o Q \o Mark("]"),
            changed_json([k \in 1..(MaxNames + 1) |-> N(1)]), changed_json([k \in 1..MaxNames |-> N(128)])}}

-----------------------------------------------------------------------------
mcVars == <<part, lifecycleVars, registryVars, inspectionVars, journalVars, logVars>>

\* A resting part is in one of its initial states.  The nice values of the unit
\* go with its restarts.
Rest ==
  /\ part # "unit" => unit = [state |-> "inactive", restarts |-> 0, nice |-> 0]
  /\ unit.nice = 0 <=> unit.restarts = 0
  /\ part # "journal" => turn = "none"

Init ==
  /\ part \in Parts
  /\ LifecycleInit /\ RegistryInit /\ InspectionInit /\ JournalInit /\ LogInit /\ Rest

Next ==
  /\ UNCHANGED part
  /\ \/ /\ part = "process" /\ LifecycleNext
        /\ UNCHANGED <<registryVars, inspectionVars, journalVars, logVars>>
     \/ /\ part = "registry" /\ RegistryNext
        /\ UNCHANGED <<lifecycleVars, inspectionVars, journalVars, logVars>>
     \/ /\ part = "unit" /\ InspectionNext
        /\ UNCHANGED <<lifecycleVars, registryVars, journalVars, logVars>>
     \/ /\ part = "journal" /\ JournalNext
        /\ UNCHANGED <<lifecycleVars, registryVars, inspectionVars, logVars>>
     \/ /\ part = "records" /\ LogNext
        /\ UNCHANGED <<lifecycleVars, registryVars, inspectionVars, journalVars>>

\* The threads of the process are scheduled, and the worker ends what it began
\* unless it hangs: every bus call of the backend has a timeout (backend.cpp:30),
\* every wait a deadline (backend.cpp:92), and sd_bus_wait() is bounded.  A
\* pending SIGTERM is taken at some time even if SIGHUPs keep coming.  systemd
\* starts a failed process again.
ProcessFairness ==
  /\ WF_lifecycleVars(part = "process" /\ Main)
  /\ WF_lifecycleVars(part = "process" /\ (WorkerHead \/ WorkerServes \/ WorkerFails \/ WorkerStops))
  /\ SF_lifecycleVars(part = "process" /\ Wait /\ "TERM" \in signals /\ "TERM" \notin signals')
  /\ WF_lifecycleVars(part = "process" /\ Restart)

\* The thread of follow() runs, and every wait of it has a timeout
\* (wake_interval).
Spec ==
  /\ Init /\ [][Next]_mcVars /\ ProcessFairness
  /\ WF_journalVars(part = "journal" /\ Follower)
=============================================================================
