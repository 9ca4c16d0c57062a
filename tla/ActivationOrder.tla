---------------------------- MODULE ActivationOrder ----------------------------
(***************************************************************************)
(* What start_registered() does, without saying how: the services that     *)
(* should run, and what they depend on, are handled one at a time, each    *)
(* once and each after everything it depends on.                           *)
(***************************************************************************)
EXTENDS Naturals, Sequences

CONSTANTS Catalog, Names

VARIABLES services, running, done

vars == <<services, running, done>>

Registered == {services[i] : i \in 1..Len(services)}

After(s) == {s.after[k] : k \in 1..Len(s.after)}

\* Needed: in every set of names that holds the auto_start services and, with a
\* service, what it comes after.
Closed(S) ==
  /\ \A s \in Registered : s.auto_start => s.name \in S
  /\ \A s \in Registered : s.name \in S => After(s) \subseteq S
Needed(n) == \A S \in SUBSET Names : Closed(S) => n \in S

Init == services = <<>> /\ running = FALSE /\ done = {}

Register ==
  /\ ~running /\ UNCHANGED <<running, done>>
  /\ \E s \in Catalog : services' = Append(services, s)

Begin == ~running /\ running' = TRUE /\ done' = {} /\ UNCHANGED services

Handle ==
  /\ running /\ UNCHANGED <<services, running>>
  /\ \E s \in Registered :
        /\ s.name \notin done /\ After(s) \subseteq done /\ Needed(s.name)
        /\ done' = done \cup {s.name}

Return ==
  /\ running /\ running' = FALSE /\ UNCHANGED <<services, done>>
  /\ \A s \in Registered : s.auto_start => s.name \in done

\* An exception ends the call, and its record of what it handled goes with it.
Throw == running /\ running' = FALSE /\ done' = {} /\ UNCHANGED services

Next == Register \/ Begin \/ Handle \/ Return \/ Throw

Spec == Init /\ [][Next]_vars
=============================================================================
