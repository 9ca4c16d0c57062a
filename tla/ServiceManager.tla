----------------------------- MODULE ServiceManager -----------------------------
(***************************************************************************)
(* The registry of the service manager and the recursion that starts the   *)
(* services in the order of their dependencies                             *)
(* (common/mnc/service/service_manager.cpp).                               *)
(*                                                                         *)
(* mutex_ admits one call at a time, and every bus call is a step.         *)
(*                                                                         *)
(* Abstractions: what inspect() finds (module UnitInspection) may be any   *)
(* state, since systemd moves the units at any time; started, a vector the *)
(* code only searches, is a set; the machine stack holds MaxDepth frames.  *)
(***************************************************************************)
EXTENDS Naturals, Sequences

CONSTANTS
  Names, Units,
  Catalog,    \* the services a client may register
  MaxDepth,   \* frames of start_one() the machine stack holds
  MaxCalls    \* bound: calls of start_registered() in a behaviour

\* struct ManagedService
ManagedService == [name : Names, unit : Units, after : Seq(Names), auto_start : BOOLEAN]

ASSUME ServiceAssumption ==
  Catalog \subseteq ManagedService /\ MaxDepth \in Nat /\ MaxCalls \in Nat

VARIABLES
  services,   \* services_
  op,         \* "idle", "start": start_registered() holds mutex_, or "overflow"
  cursor,     \* the loop of start_registered()
  stack,      \* the frames of start_one()
  started,    \* names of the services it has handled
  asked,      \* history: names of the services it asked systemd to start
  calls

registryVars == <<services, op, cursor, stack, started, asked, calls>>

\* A frame of start_one(): its argument, and where its loop is.
Frames == [svc : Catalog, next : Nat \ {0}]

RegistryTypeOK ==
  /\ services \in Seq(Catalog) /\ op \in {"idle", "start", "overflow"} /\ cursor \in Nat \ {0}
  /\ stack \in Seq(Frames)
  /\ started \subseteq Names /\ asked \subseteq Names /\ calls \in Nat

RegistryInit ==
  /\ services = <<>> /\ op = "idle" /\ cursor = 1 /\ stack = <<>>
  /\ started = {} /\ asked = {} /\ calls = 0

Registered == {services[i] : i \in 1..Len(services)}
After(s) == {s.after[k] : k \in 1..Len(s.after)}

Duplicate(s, t) == s.name = t.name \/ s.unit = t.unit

\* A duplicate is refused with an exception and changes nothing.
register_service(s) ==
  /\ op = "idle" /\ \A t \in Registered : ~Duplicate(s, t)
  /\ services' = Append(services, s)
  /\ UNCHANGED <<op, cursor, stack, started, asked, calls>>

\* bug: the first service, whatever its name.
findBug(n) == services[1]
\* find(): names are unique, so the first service of the name is the only one.
Known(n) == \E s \in Registered : s.name = n
find(n) == CHOOSE s \in Registered : s.name = n

start_registered ==
  /\ op = "idle" /\ op' = "start" /\ calls < MaxCalls /\ calls' = calls + 1
  /\ cursor' = 1 /\ stack' = <<>> /\ started' = {} /\ asked' = {} /\ UNCHANGED services

-----------------------------------------------------------------------------
(* start_registered() and start_one().                                      *)

Top == stack[Len(stack)]
NewFrame(s) == [svc |-> s, next |-> 1]
Running == op = "start" /\ stack # <<>>

Selected(s) == s.auto_start

\* for (service : services_) if (service.auto_start) start_one(service, started);
NextService ==
  /\ op = "start" /\ stack = <<>> /\ cursor <= Len(services) /\ cursor' = cursor + 1
  /\ stack' = IF Selected(services[cursor]) THEN <<NewFrame(services[cursor])>> ELSE <<>>
  /\ UNCHANGED <<services, op, started, asked, calls>>

CallReturns ==
  /\ op = "start" /\ stack = <<>> /\ cursor > Len(services) /\ op' = "idle"
  /\ UNCHANGED <<services, cursor, stack, started, asked, calls>>

\* The early return of start_one(), looked at on entry only.
Handled(f) == f.next = 1 /\ f.svc.name \in started

Pop == stack' = SubSeq(stack, 1, Len(stack) - 1)

AlreadyStarted ==
  /\ Running /\ Handled(Top) /\ Pop
  /\ UNCHANGED <<services, op, cursor, started, asked, calls>>

\* bug: the last dependency is left out.
MoreBug(f) == f.next < Len(f.svc.after)
More(f) == f.next <= Len(f.svc.after)

\* for (dependency : service.after) start_one(find(dependency), started);
Dependency ==
  /\ Running /\ ~Handled(Top) /\ More(Top)
  /\ Known(Top.svc.after[Top.next]) /\ Len(stack) < MaxDepth
  /\ stack' = Append([stack EXCEPT ![Len(stack)].next = @ + 1],
                     NewFrame(find(Top.svc.after[Top.next])))
  /\ UNCHANGED <<services, op, cursor, started, asked, calls>>

\* An exception leaves the call; what was asked to start stays so.
Throw(o) ==
  /\ op' = o /\ stack' = <<>> /\ started' = {}
  /\ UNCHANGED <<services, cursor, asked, calls>>

UnknownDependency ==
  /\ Running /\ ~Handled(Top) /\ More(Top)
  /\ ~Known(Top.svc.after[Top.next]) /\ Throw("idle")

\* The machine stack is exhausted and the process dies.
Overflow ==
  /\ Running /\ ~Handled(Top) /\ More(Top)
  /\ Known(Top.svc.after[Top.next]) /\ Len(stack) >= MaxDepth /\ Throw("overflow")

\* inspect() finds the unit active and adopts it, or finds another state and
\* control() asks systemd to start it.
StartOne ==
  /\ Running /\ ~Handled(Top) /\ ~More(Top) /\ Pop
  /\ started' = started \cup {Top.svc.name}
  /\ asked' \in {asked, asked \cup {Top.svc.name}}
  /\ UNCHANGED <<services, op, cursor, calls>>

\* inspect() or control() throws.
BusFails == Running /\ ~Handled(Top) /\ ~More(Top) /\ Throw("idle")

Step ==
  \/ NextService \/ CallReturns \/ AlreadyStarted \/ Dependency \/ UnknownDependency \/ Overflow
  \/ StartOne \/ BusFails

RegistryNext == (\E s \in Catalog : register_service(s)) \/ start_registered \/ Step

RegistrySpec == RegistryInit /\ [][RegistryNext]_registryVars

-----------------------------------------------------------------------------
(* Properties.                                                              *)

\* start_registered() handles what should run and what that depends on, one
\* service at a time, each once and after all it comes after, and returns only
\* when all of them are handled.  What it depends on is handled whether or not it
\* has auto_start: see OptionalRests.
Order == INSTANCE ActivationOrder WITH running <- op = "start", done <- started
OrderedStart == Order!Spec

\* No two services of the registry share a name or a unit, so that a status or
\* a stop never reaches the unit of another service.
OwnUnit ==
  \A i, j \in 1..Len(services) :
    i # j => services[i].name # services[j].name /\ services[i].unit # services[j].unit

\* The recursion exhausts a stack as deep as the registry is long only when
\* services depend on each other in a circle.
Circular ==
  \E S \in SUBSET Registered : S # {} /\ \A s \in S : \E t \in S : t.name \in After(s)
OverflowNeedsCircle == op = "overflow" => Circular

-----------------------------------------------------------------------------
(* What the documentation says and the code does not do.                    *)

\* "Optional units are registered and controllable, but are not started by
\* start_registered()" (service_manager.hpp:50-51): it asks systemd for no service
\* without auto_start.  start_one() asks for every service in "after".
OptionalRests == \A s \in Registered : s.name \in asked => s.auto_start
=============================================================================
