-------------------------- MODULE ServiceManagerProofs --------------------------
(***************************************************************************)
(* Proofs about the service manager: the order and the depth of the start, *)
(* for every catalog of services and every depth of the stack, with        *)
(* ServiceManager shown to implement ActivationOrder; and what inspect()   *)
(* reports of a unit, however often systemd moves it.                      *)
(***************************************************************************)
EXTENDS ServiceManager, UnitInspection, SequenceTheorems, FiniteSetTheorems, TLAPS

-----------------------------------------------------------------------------
(* The order of the start.                                                 *)

\* What is on the stack is registered and needed.
OnStack ==
  \A i \in 1..Len(stack) : stack[i].svc \in Registered /\ Order!Needed(stack[i].svc.name)

\* The dependencies a frame has passed are handled, but for the one it is
\* waiting for, which is the next frame.
Passed ==
  \A i \in 1..Len(stack) : \A k \in 1..(stack[i].next - 1) :
    /\ k <= Len(stack[i].svc.after)
    /\ \/ stack[i].svc.after[k] \in started
       \/ i < Len(stack) /\ stack[i + 1].svc.name = stack[i].svc.after[k]

\* So are the services the loop has passed.
Looped ==
  \A j \in 1..Len(services) : op = "start" /\ j < cursor /\ services[j].auto_start =>
    \/ services[j].name \in started
    \/ stack # <<>> /\ stack[1].svc.name = services[j].name

AtRest == op # "start" => stack = <<>>

RegistryInv == RegistryTypeOK /\ OnStack /\ Passed /\ Looped /\ AtRest

LEMMA RegistryInvInit == RegistryInit => RegistryInv
BY ServiceAssumption DEF RegistryInit, RegistryInv, RegistryTypeOK, OnStack, Passed, Looped, AtRest

\* find() of a known name is a registered service of that name.
LEMMA FindName ==
  ASSUME NEW n, Known(n)
  PROVE  find(n) \in Registered /\ find(n).name = n
BY DEF Known, find

LEMMA RegisteredCatalog ==
  ASSUME RegistryTypeOK PROVE Registered \subseteq Catalog
BY DEF RegistryTypeOK, Registered

LEMMA SameNeeded ==
  ASSUME UNCHANGED services, NEW n PROVE Order!Needed(n)' <=> Order!Needed(n)
BY DEF Order!Needed, Order!Closed, Order!Registered, Order!After

\* What an auto_start service is, and what a needed service comes after, is needed.
LEMMA AutoNeeded ==
  ASSUME NEW s \in Registered, s.auto_start PROVE Order!Needed(s.name)
BY DEF Registered, Order!Needed, Order!Closed, Order!Registered

LEMMA AfterNeeded ==
  ASSUME NEW s \in Registered, Order!Needed(s.name), NEW n \in After(s) PROVE Order!Needed(n)
BY DEF Registered, After, Order!Needed, Order!Closed, Order!Registered, Order!After

\* The frame below a popped one takes over: its dependency is handled now.
LEMMA PopStep ==
  ASSUME RegistryInv, Running, Pop, UNCHANGED <<services, op, cursor>>, started \subseteq started',
         Top.svc.name \in started', started' \subseteq Names, asked' \subseteq Names, calls' \in Nat
  PROVE  RegistryInv'
<1> DEFINE n == Len(stack)
<1>1. n \in Nat /\ n > 0 /\ stack \in Seq(Frames)
  BY DEF RegistryInv, RegistryTypeOK, Running
<1>t. Top = stack[n]
  BY DEF Top
<1>2. /\ Len(stack') = n - 1 /\ stack' \in Seq(Frames)
      /\ \A i \in 1..(n - 1) : stack'[i] = stack[i]
  <2>1. \A i \in 1..(n - 1) : stack[i] \in Frames  BY <1>1
  <2>2. n - 1 \in Int /\ 1 \in Int /\ stack' = SubSeq(stack, 1, n - 1)  BY <1>1 DEF Pop
  <2> HIDE DEF n
  <2>3. /\ SubSeq(stack, 1, n - 1) \in Seq(Frames)
        /\ Len(SubSeq(stack, 1, n - 1)) = IF 1 <= n - 1 THEN n - 1 - 1 + 1 ELSE 0
        /\ \A i \in 1..(n - 1 - 1 + 1) : SubSeq(stack, 1, n - 1)[i] = stack[1 + i - 1]
    BY <2>1, <2>2, SubSeqProperties
  <2> QED  BY <1>1, <2>2, <2>3
<1>3. RegistryTypeOK'
  BY <1>2 DEF RegistryInv, RegistryTypeOK
<1>4. OnStack'
  <2>1. \A i \in 1..(n - 1) : stack[i].svc \in Registered /\ Order!Needed(stack[i].svc.name)
    BY <1>1 DEF RegistryInv, OnStack
  <2>2. Registered' = Registered  BY DEF Registered
  <2> QED  BY <1>2, <2>1, <2>2, SameNeeded DEF OnStack
<1>5. Passed'
  <2> SUFFICES ASSUME NEW i \in 1..(n - 1), NEW k \in 1..(stack[i].next - 1)
               PROVE  /\ k <= Len(stack[i].svc.after)
                      /\ \/ stack[i].svc.after[k] \in started'
                         \/ i < n - 1 /\ stack'[i + 1].svc.name = stack[i].svc.after[k]
    BY <1>2, ZenonT(30) DEF Passed
  <2>1. /\ k <= Len(stack[i].svc.after)
        /\ \/ stack[i].svc.after[k] \in started
           \/ stack[i + 1].svc.name = stack[i].svc.after[k]
    BY <1>1 DEF RegistryInv, Passed
  <2>2. CASE i < n - 1
    <3>1. i + 1 \in 1..(n - 1)  BY <1>1, <2>2
    <3> QED  BY <1>2, <2>1, <2>2, <3>1, ZenonT(30)
  <2>3. CASE i = n - 1
    <3>1. i + 1 = n
      <4>1. n \in Nat  BY <1>1
      <4> HIDE DEF n
      <4> QED BY <2>3, <4>1
    <3>2. stack[i + 1].svc.name \in started'
      BY <1>t, <3>1
    <3> QED BY <2>1, <3>2
  <2>4. i < n - 1 \/ i = n - 1
    <3>1. n \in Nat  BY <1>1
    <3> HIDE DEF n
    <3> QED BY <3>1
  <2> QED  BY <2>2, <2>3, <2>4, Zenon
<1>6. n = 1 \/ n > 1
  <2> HIDE DEF n
  <2> QED  BY <1>1
<1>7. Looped'
  <2> SUFFICES ASSUME NEW j \in 1..Len(services), op = "start", j < cursor, services[j].auto_start
               PROVE  \/ services[j].name \in started'
                      \/ stack' # <<>> /\ stack'[1].svc.name = services[j].name
    BY DEF Looped
  <2>1. services[j].name \in started \/ stack[1].svc.name = services[j].name
    BY DEF RegistryInv, Looped
  <2>2. CASE n = 1
    <3>1. stack[1].svc.name \in started'  BY <1>t, <2>2
    <3> QED BY <2>1, <3>1
  <2>3. CASE n > 1
    <3>1. 1 \in 1..(n - 1) /\ n - 1 # 0
      <4>1. n \in Nat  BY <1>1
      <4> HIDE DEF n
      <4> QED BY <2>3, <4>1
    <3>2. stack' # <<>>
      BY <1>2, <3>1
    <3>3. stack'[1] = stack[1]
      BY <1>2, <3>1
    <3> QED BY <2>1, <3>2, <3>3
  <2> QED  BY <1>6, <2>2, <2>3
<1> QED  BY <1>3, <1>4, <1>5, <1>7 DEF RegistryInv, AtRest, Running

LEMMA NextAfter ==
  ASSUME NEW f \in Frames, f.next <= Len(f.svc.after) PROVE f.svc.after[f.next] \in After(f.svc)
<1>1. f.next \in Nat \ {0} /\ f.svc \in ManagedService
  BY ServiceAssumption DEF Frames
<1>2. Len(f.svc.after) \in Nat
  BY <1>1 DEF ManagedService
<1>3. f.next \in 1..Len(f.svc.after)
  BY <1>1, <1>2
<1> QED BY <1>3 DEF After

\* A frame that enters a dependency, and the stack with it on top.
LEMMA Advance ==
  ASSUME NEW f \in Frames, NEW g, g = [f EXCEPT !.next = @ + 1]
  PROVE  g \in Frames /\ g.svc = f.svc /\ g.next = f.next + 1
<1>1. f.svc \in Catalog /\ f.next \in Nat /\ f = [svc |-> f.svc, next |-> f.next]
  BY DEF Frames
<1>2. g = [svc |-> f.svc, next |-> f.next + 1]
  BY <1>1
<1>3. f.next + 1 \in Nat \ {0}
  BY <1>1
<1> QED BY <1>1, <1>2, <1>3 DEF Frames

LEMMA AdvanceTop ==
  ASSUME NEW st \in Seq(Frames), NEW n \in Nat, n = Len(st), n > 0, NEW g \in Frames, NEW new \in Frames,
         NEW up, up = Append([st EXCEPT ![n] = g], new)
  PROVE  /\ up \in Seq(Frames) /\ Len(up) = n + 1 /\ up[n] = g /\ up[n + 1] = new
         /\ \A i \in 1..(n - 1) : up[i] = st[i]
<1> DEFINE b == [st EXCEPT ![n] = g]
<1>1. DOMAIN st = 1..n /\ \A i \in 1..n : st[i] \in Frames
  OBVIOUS
<1>2. b \in Seq(Frames) /\ Len(b) = n /\ b[n] = g
  BY <1>1, SMTT(30)
<1>3. \A i \in 1..(n - 1) : b[i] = st[i]
  BY <1>1
<1> HIDE DEF b
<1>4. /\ up \in Seq(Frames) /\ Len(up) = n + 1 /\ up[n + 1] = new
      /\ \A i \in 1..n : up[i] = b[i]
  <2>1. up = Append(b, new)
    BY DEF b
  <2>2. /\ up \in Seq(Frames) /\ Len(up) = Len(b) + 1 /\ up[Len(b) + 1] = new
        /\ \A i \in 1..Len(b) : up[i] = b[i]
    BY <1>2, <2>1, AppendProperties, SMTT(30)
  <2> QED BY <1>2, <2>2
<1>5. n \in 1..n /\ \A i \in 1..(n - 1) : i \in 1..n
  OBVIOUS
<1> QED BY <1>2, <1>3, <1>4, <1>5

LEMMA TopFrame ==
  ASSUME RegistryTypeOK, Running
  PROVE  Len(stack) \in Nat /\ Len(stack) > 0 /\ stack \in Seq(Frames) /\ Top = stack[Len(stack)] /\ Top \in Frames
<1>1. stack \in Seq(Frames) /\ stack # <<>>
  BY DEF RegistryTypeOK, Running
<1>2. Len(stack) \in Nat /\ Len(stack) > 0
  BY <1>1
<1>3. stack[Len(stack)] \in Frames
  BY <1>1, <1>2
<1> QED BY <1>1, <1>2, <1>3 DEF Top

LEMMA DependencyShape ==
  ASSUME RegistryTypeOK, Dependency, NEW n, n = Len(stack), NEW d, d = Top.svc.after[Top.next]
  PROVE  /\ n \in Nat /\ n > 0 /\ stack[n] \in Frames /\ Top = stack[n]
         /\ stack[n].next <= Len(stack[n].svc.after) /\ d = stack[n].svc.after[stack[n].next] /\ d \in After(stack[n].svc)
         /\ find(d) \in Registered /\ find(d).name = d
         /\ stack' \in Seq(Frames) /\ Len(stack') = n + 1
         /\ \A i \in 1..(n - 1) : stack'[i] = stack[i]
         /\ stack'[n].svc = stack[n].svc /\ stack'[n].next = stack[n].next + 1
         /\ stack'[n + 1].svc = find(d) /\ stack'[n + 1].next = 1
<1>1. Running /\ More(Top) /\ Known(d)
  BY DEF Dependency
<1>2. n \in Nat /\ n > 0 /\ stack \in Seq(Frames) /\ Top = stack[n] /\ stack[n] \in Frames
  BY <1>1, TopFrame
<1>3. stack[n].next <= Len(stack[n].svc.after) /\ d = stack[n].svc.after[stack[n].next]
  BY <1>1, <1>2 DEF More
<1>4. d \in After(stack[n].svc)
  BY <1>2, <1>3, NextAfter
<1>5. find(d) \in Registered /\ find(d).name = d
  BY <1>1, FindName
<1> DEFINE g == [stack[n] EXCEPT !.next = @ + 1]
           new == NewFrame(find(d))
<1>6. g \in Frames /\ g.svc = stack[n].svc /\ g.next = stack[n].next + 1
  BY <1>2, Advance
<1>7. new \in Frames /\ new.svc = find(d) /\ new.next = 1
  <2>1. find(d) \in Catalog
    BY <1>5, RegisteredCatalog
  <2> QED BY <2>1 DEF NewFrame, Frames
<1>8. stack' = Append([stack EXCEPT ![n] = g], new)
  BY DEF Dependency
<1> HIDE DEF g, new
<1>9. /\ stack' \in Seq(Frames) /\ Len(stack') = n + 1 /\ stack'[n] = g /\ stack'[n + 1] = new
      /\ \A i \in 1..(n - 1) : stack'[i] = stack[i]
  BY <1>2, <1>6, <1>7, <1>8, AdvanceTop
<1> QED BY <1>2, <1>3, <1>4, <1>5, <1>6, <1>7, <1>9, ZenonT(30)

LEMMA RegistryInvStep == RegistryInv /\ [RegistryNext]_registryVars => RegistryInv'
<1> SUFFICES ASSUME RegistryInv, [RegistryNext]_registryVars PROVE RegistryInv'  OBVIOUS
<1>1. ASSUME NEW s \in Catalog, register_service(s) PROVE RegistryInv'
  <2>1. stack = <<>> /\ stack' = <<>> /\ op' # "start"
    BY <1>1 DEF RegistryInv, AtRest, register_service
  <2>2. RegistryTypeOK'  BY <1>1 DEF RegistryInv, RegistryTypeOK, register_service
  <2> QED  BY <2>1, <2>2 DEF RegistryInv, OnStack, Passed, Looped, AtRest
<1>2. CASE start_registered
  BY <1>2 DEF start_registered, RegistryInv, RegistryTypeOK, OnStack, Passed, Looped, AtRest
<1>3. CASE NextService
  <2>1. services \in Seq(Catalog) /\ cursor \in 1..Len(services) /\ services[cursor] \in Registered
    BY <1>3 DEF NextService, RegistryInv, RegistryTypeOK, Registered
  <2>2. CASE ~Selected(services[cursor])
    BY <1>3, <2>1, <2>2 DEF NextService, Selected, RegistryInv, RegistryTypeOK, OnStack, Passed, Looped, AtRest
  <2>3. CASE Selected(services[cursor])
    <3>1. stack' = <<NewFrame(services[cursor])>>  BY <1>3, <2>3 DEF NextService
    <3>2. Len(stack') = 1 /\ stack'[1].svc = services[cursor] /\ stack'[1].next = 1
      BY <3>1 DEF NewFrame
    <3>3. RegistryTypeOK'
      <4>1. NewFrame(services[cursor]) \in Frames
        BY <2>1 DEF NewFrame, Frames, Registered
      <4> QED  BY <1>3, <3>1, <4>1 DEF NextService, RegistryInv, RegistryTypeOK
    <3>4. OnStack'
      <4>1. Order!Needed(services[cursor].name)  BY <2>1, <2>3, AutoNeeded DEF Selected
      <4>2. UNCHANGED services  BY <1>3 DEF NextService
      <4>3. \A i \in 1..Len(stack') : i = 1  BY <3>2
      <4> QED  BY <2>1, <3>2, <4>1, <4>2, <4>3, SameNeeded DEF OnStack, Registered
    <3>5. Passed'  BY <3>2 DEF Passed
    <3>6. Looped'  BY <1>3, <2>1, <3>1, <3>2 DEF NextService, RegistryInv, Looped
    <3> QED  BY <1>3, <3>3, <3>4, <3>5, <3>6 DEF RegistryInv, AtRest, NextService
  <2> QED  BY <2>2, <2>3
<1>4. CASE CallReturns
  BY <1>4 DEF CallReturns, RegistryInv, RegistryTypeOK, OnStack, Passed, Looped, AtRest
<1>5. CASE AlreadyStarted
  <2>1. /\ Running /\ Pop /\ UNCHANGED <<services, op, cursor, started, asked, calls>>
        /\ Top.svc.name \in started
    BY <1>5 DEF AlreadyStarted, Handled
  <2> QED  BY <2>1, PopStep DEF RegistryInv, RegistryTypeOK
<1>6. CASE Dependency
  <2>a. UNCHANGED <<services, op, cursor, started, asked, calls>> /\ op = "start"
    BY <1>6 DEF Dependency, Running
  <2>b. PICK n : n = Len(stack)
    OBVIOUS
  <2>c. PICK d : d = Top.svc.after[Top.next]
    OBVIOUS
  <2>1. /\ n \in Nat /\ n > 0 /\ stack[n] \in Frames
        /\ stack[n].next <= Len(stack[n].svc.after) /\ d = stack[n].svc.after[stack[n].next] /\ d \in After(stack[n].svc)
        /\ find(d) \in Registered /\ find(d).name = d
    BY <1>6, <2>b, <2>c, DependencyShape, ZenonT(30) DEF RegistryInv
  <2>2. /\ stack' \in Seq(Frames) /\ Len(stack') = n + 1
        /\ \A i \in 1..(n - 1) : stack'[i] = stack[i]
        /\ stack'[n].svc = stack[n].svc /\ stack'[n].next = stack[n].next + 1
        /\ stack'[n + 1].svc = find(d) /\ stack'[n + 1].next = 1
    BY <1>6, <2>b, <2>c, DependencyShape, ZenonT(30) DEF RegistryInv
  <2>d. n \in Nat /\ n > 0
    BY <2>1, Zenon
  <2>e. \A i \in 1..(n - 1) : stack'[i] = stack[i]
    BY <2>2, Zenon
  <2>f. stack'[n].svc = stack[n].svc /\ stack'[n].next = stack[n].next + 1
    BY <2>2, Zenon
  <2>3. \A i \in 1..(n + 1) : i = n + 1 \/ i = n \/ i \in 1..(n - 1)
    BY <2>d
  <2>4. RegistryTypeOK'
    BY <2>a, <2>2 DEF RegistryInv, RegistryTypeOK
  <2>5. \A i \in 1..n : stack[i].svc \in Registered /\ Order!Needed(stack[i].svc.name)
    BY <2>b DEF RegistryInv, OnStack
  <2>6. n \in 1..n /\ \A i \in 1..(n - 1) : i \in 1..n
    BY <2>d
  <2>7. Order!Needed(d)
    BY <2>1, <2>5, <2>6, AfterNeeded, ZenonT(30)
  <2>8. OnStack'
    <3>1. ASSUME NEW i \in 1..(n + 1)
          PROVE  stack'[i].svc \in Registered /\ Order!Needed(stack'[i].svc.name)
      <4>1. CASE i = n + 1
        BY <2>1, <2>2, <2>7, <4>1, ZenonT(30)
      <4>2. CASE i = n
        BY <2>2, <2>5, <2>6, <4>2
      <4>3. CASE i \in 1..(n - 1)
        BY <2>2, <2>5, <2>6, <4>3
      <4> QED BY <2>3, <4>1, <4>2, <4>3
    <3>2. Registered' = Registered
      BY <2>a DEF Registered
    <3> QED BY <2>a, <2>2, <3>1, <3>2, SameNeeded DEF OnStack
  <2>9. Passed'
    <3>a. ASSUME NEW i \in 1..n, NEW k \in 1..(stack[i].next - 1)
          PROVE  /\ k <= Len(stack[i].svc.after)
                 /\ \/ stack[i].svc.after[k] \in started
                    \/ i < n /\ stack[i + 1].svc.name = stack[i].svc.after[k]
      BY <2>b DEF RegistryInv, Passed
    <3>b. ASSUME NEW i \in 1..(n + 1), NEW k \in 1..(stack'[i].next - 1)
          PROVE  /\ k <= Len(stack'[i].svc.after)
                 /\ \/ stack'[i].svc.after[k] \in started
                    \/ i < n + 1 /\ stack'[i + 1].svc.name = stack'[i].svc.after[k]
      <4>1. CASE i = n + 1
        <5>1. stack'[i].next = 1
          BY <2>2, <4>1
        <5> QED BY <5>1
      <4>2. CASE i \in 1..(n - 1)
        <5>1. i \in 1..n /\ i < n /\ i < n + 1 /\ (i + 1 = n \/ i + 1 \in 1..(n - 1))
          BY <2>d, <4>2
        <5>2. stack'[i] = stack[i] /\ stack'[i + 1].svc = stack[i + 1].svc
          <6>1. stack'[i] = stack[i]
            BY <2>e, <4>2
          <6>2. stack'[i + 1].svc = stack[i + 1].svc
            BY <2>e, <2>f, <5>1
          <6> QED BY <6>1, <6>2
        <5> QED BY <3>a, <5>1, <5>2
      <4>3. CASE i = n
        <5>1. stack'[i].svc = stack[n].svc /\ stack'[i].next = stack[n].next + 1 /\ i < n + 1 /\ stack[n].next \in Nat
          <6>1. stack[n].next \in Nat
            <7>1. stack[n] \in Frames
              BY <2>1, Zenon
            <7> QED BY <7>1 DEF Frames
          <6>2. n < n + 1
            BY <2>d
          <6> QED BY <2>f, <4>3, <6>1, <6>2, Zenon
        <5>2. CASE k = stack[n].next
          <6>1. k <= Len(stack[n].svc.after) /\ d = stack[n].svc.after[k]
            BY <2>1, <5>2, Zenon
          <6>2. stack'[i + 1].svc.name = d
            BY <2>1, <2>2, <4>3, Zenon
          <6> QED BY <5>1, <6>1, <6>2, Zenon
        <5>3. CASE k # stack[n].next
          <6>1. k \in 1..(stack[n].next - 1)
            BY <5>1, <5>3
          <6>2. k <= Len(stack[n].svc.after) /\ stack[n].svc.after[k] \in started
            <7>1. ~(n < n)
              BY <2>d
            <7> QED BY <2>6, <3>a, <6>1, <7>1, Zenon
          <6> QED BY <5>1, <6>2
        <5> QED BY <5>2, <5>3
      <4> QED BY <2>3, <4>1, <4>2, <4>3
    <3> QED BY <2>a, <2>2, <3>b DEF Passed
  <2>10. Looped'
    <3>1. (1 = n \/ 1 \in 1..(n - 1)) /\ n + 1 # 0 /\ n # 0
      BY <2>d
    <3>2. stack # <<>> /\ stack' # <<>>
      <4>1. Len(stack') # 0 /\ Len(stack) # 0
        BY <2>b, <2>2, <3>1, Zenon
      <4> QED BY <4>1
    <3>3. stack'[1].svc = stack[1].svc
      BY <2>e, <2>f, <3>1, Zenon
    <3> QED BY <2>a, <3>2, <3>3 DEF RegistryInv, Looped
  <2> QED BY <2>a, <2>4, <2>8, <2>9, <2>10 DEF RegistryInv, AtRest
<1>7. CASE \E o \in {"idle", "overflow"} : Throw(o)
  BY <1>7 DEF Throw, RegistryInv, RegistryTypeOK, OnStack, Passed, Looped, AtRest
<1>8. CASE StartOne
  <2>1. /\ Running /\ Pop /\ UNCHANGED <<services, op, cursor, calls>>
        /\ started' = started \cup {Top.svc.name} /\ asked' \in {asked, asked \cup {Top.svc.name}}
    BY <1>8 DEF StartOne
  <2>2. Top.svc.name \in Names
    <3>1. Top \in Frames  BY <2>1 DEF Running, Top, RegistryInv, RegistryTypeOK
    <3> QED  BY <3>1, ServiceAssumption DEF ManagedService, Frames
  <2> QED  BY <2>1, <2>2, PopStep DEF RegistryInv, RegistryTypeOK
<1>9. CASE UNCHANGED registryVars
  <2>1. UNCHANGED <<services, op, cursor, stack, started, asked, calls>>
    BY <1>9 DEF registryVars
  <2>2. RegistryTypeOK' /\ AtRest'
    BY <2>1 DEF RegistryInv, RegistryTypeOK, AtRest
  <2>3. OnStack'
    BY <2>1, SameNeeded DEF RegistryInv, OnStack, Registered
  <2>4. Passed'
    BY <2>1 DEF RegistryInv, Passed
  <2>5. Looped'
    BY <2>1 DEF RegistryInv, Looped
  <2> QED BY <2>2, <2>3, <2>4, <2>5 DEF RegistryInv
<1> QED
  BY <1>1, <1>2, <1>3, <1>4, <1>5, <1>6, <1>7, <1>8, <1>9
  DEF RegistryNext, Step, UnknownDependency, Overflow, BusFails

LEMMA RegistryInvAlways == RegistrySpec => []RegistryInv
BY RegistryInvInit, RegistryInvStep, PTL DEF RegistrySpec

\* start_registered() follows the order of the dependencies: every step of it
\* is a step that ActivationOrder allows.
THEOREM OrderedStartAlways == RegistrySpec => OrderedStart
<1>1. RegistryInit => Order!Init
  BY DEF RegistryInit, Order!Init
<1>2. RegistryInv /\ [RegistryNext]_registryVars => [Order!Next]_(Order!vars)
  <2> SUFFICES ASSUME RegistryInv, [RegistryNext]_registryVars PROVE [Order!Next]_(Order!vars)  OBVIOUS
  <2> USE DEF Order!vars
  <2>1. ASSUME NEW s \in Catalog, register_service(s) PROVE Order!Register
    BY <2>1 DEF register_service, Order!Register
  <2>2. CASE start_registered
    BY <2>2 DEF start_registered, Order!Begin, Order!Next
  <2>3. CASE NextService \/ AlreadyStarted \/ Dependency \/ UNCHANGED registryVars
    BY <2>3 DEF NextService, AlreadyStarted, Dependency, registryVars
  <2>4. CASE CallReturns
    <3>1. \A s \in Order!Registered : s.auto_start => s.name \in started
      BY <2>4 DEF CallReturns, Order!Registered, RegistryInv, RegistryTypeOK, Looped
    <3> QED  BY <2>4, <3>1 DEF CallReturns, Order!Return, Order!Next
  <2>5. CASE UnknownDependency \/ Overflow \/ BusFails
    BY <2>5 DEF UnknownDependency, Overflow, BusFails, Running, Throw, Order!Throw, Order!Next
  <2>6. CASE StartOne
    <3> DEFINE s == Top.svc
    <3>1. /\ Len(stack) \in Nat /\ Len(stack) > 0 /\ Top = stack[Len(stack)]
          /\ stack[Len(stack)] \in Frames
          /\ s.after \in Seq(Names)
      <4>1. Len(stack) \in Nat /\ Len(stack) > 0 /\ stack[Len(stack)] \in Frames
        BY <2>6 DEF StartOne, Running, RegistryInv, RegistryTypeOK
      <4> QED  BY <4>1, ServiceAssumption DEF Top, Frames, ManagedService
    <3>2. s \in Order!Registered /\ Order!Needed(s.name)
      BY <3>1 DEF RegistryInv, OnStack, Registered, Order!Registered
    <3>3. Order!After(s) \subseteq started
      <4>1. Top.next \in Nat /\ Len(s.after) \in Nat /\ Top.next > Len(s.after)
        BY <2>6, <3>1 DEF StartOne, More, Frames
      <4>2. \A k \in 1..Len(s.after) : s.after[k] \in started
        BY <3>1, <4>1 DEF RegistryInv, Passed
      <4> QED  BY <4>2 DEF Order!After
    <3>4. started' = started \cup {s.name} /\ op = "start" /\ UNCHANGED <<services, op>>
      BY <2>6 DEF StartOne, Running
    <3>5. CASE s.name \in started
      BY <3>4, <3>5
    <3>6. CASE s.name \notin started
      BY <3>2, <3>3, <3>4, <3>6 DEF Order!Handle, Order!Next
    <3> QED  BY <3>5, <3>6
  <2> QED  BY <2>1, <2>2, <2>3, <2>4, <2>5, <2>6 DEF RegistryNext, Step, Order!Next
<1> QED  BY <1>1, <1>2, RegistryInvAlways, PTL DEF RegistrySpec, OrderedStart, Order!Spec

\* The registry never holds two services of one name or of one unit.
THEOREM OwnUnitAlways == RegistrySpec => []OwnUnit
<1>1. RegistryInit => OwnUnit  BY DEF RegistryInit, OwnUnit
<1>2. RegistryTypeOK /\ OwnUnit /\ [RegistryNext]_registryVars => OwnUnit'
  <2> SUFFICES ASSUME RegistryTypeOK, OwnUnit, [RegistryNext]_registryVars PROVE OwnUnit'  OBVIOUS
  <2>1. ASSUME NEW s \in Catalog, register_service(s) PROVE OwnUnit'
    <3>1. /\ services \in Seq(Catalog) /\ services' = Append(services, s)
          /\ \A i \in 1..Len(services) : services[i].name # s.name /\ services[i].unit # s.unit
      BY <2>1 DEF register_service, Duplicate, Registered, RegistryTypeOK
    <3>2. /\ Len(services') = Len(services) + 1 /\ services'[Len(services) + 1] = s
          /\ \A i \in 1..Len(services) : services'[i] = services[i]
      BY <3>1
    <3> QED  BY <3>1, <3>2 DEF OwnUnit
  <2>2. CASE UNCHANGED services  BY <2>2 DEF OwnUnit
  <2> QED
    BY <2>1, <2>2 DEF RegistryNext, Step, registryVars, start_registered, NextService, CallReturns, AlreadyStarted,
       Dependency, UnknownDependency, Overflow, StartOne, BusFails, Throw
<1>3. RegistryInv => RegistryTypeOK  BY DEF RegistryInv
<1> QED  BY <1>1, <1>2, <1>3, RegistryInvAlways, PTL DEF RegistrySpec

-----------------------------------------------------------------------------
(* The depth of the recursion.                                             *)

\* Each frame was entered for a dependency of the one below.
Chain == \A i \in 1..(Len(stack) - 1) : stack[i + 1].svc.name \in After(stack[i].svc)

LEMMA ShortChain == ASSUME Len(stack) \in {0, 1} PROVE Chain
BY DEF Chain

LEMMA PopChain == ASSUME RegistryTypeOK, Running, Pop, Chain PROVE Chain'
<1> DEFINE n == Len(stack)
<1>1. n \in Nat /\ n > 0 /\ stack \in Seq(Frames) /\ stack' = SubSeq(stack, 1, n - 1)
  BY DEF RegistryTypeOK, Running, Pop
<1>2. \A i \in 1..(n - 1) : stack[i] \in Frames
  BY <1>1
<1>3. \A i \in 1..(n - 1) : i + 1 \in 1..n /\ (i < n - 1 => i + 1 \in 1..(n - 1))
  BY <1>1
<1> HIDE DEF n
<1>4. /\ Len(SubSeq(stack, 1, n - 1)) = IF 1 <= n - 1 THEN n - 1 - 1 + 1 ELSE 0
      /\ \A i \in 1..(n - 1 - 1 + 1) : SubSeq(stack, 1, n - 1)[i] = stack[1 + i - 1]
  BY <1>1, <1>2, SubSeqProperties
<1>5. Len(stack') = n - 1 /\ \A i \in 1..(n - 1) : stack'[i] = stack[i]
  BY <1>1, <1>4
<1> QED BY <1>1, <1>5 DEF Chain, n

LEMMA PushChain == ASSUME RegistryTypeOK, Dependency, Chain PROVE Chain'
<1>a. PICK n : n = Len(stack)
  OBVIOUS
<1>b. PICK d : d = Top.svc.after[Top.next]
  OBVIOUS
<1>1. /\ n \in Nat /\ n > 0 /\ d \in After(stack[n].svc) /\ find(d).name = d
      /\ Len(stack') = n + 1
      /\ \A i \in 1..(n - 1) : stack'[i] = stack[i]
      /\ stack'[n].svc = stack[n].svc /\ stack'[n + 1].svc = find(d)
  BY <1>a, <1>b, DependencyShape, ZenonT(30)
<1>2. ASSUME NEW i \in 1..n PROVE stack'[i + 1].svc.name \in After(stack'[i].svc)
  <2>1. CASE i = n
    BY <1>1, <2>1
  <2>2. CASE i \in 1..(n - 1)
    <3>1. i + 1 = n \/ i + 1 \in 1..(n - 1)
      BY <1>1, <2>2
    <3>2. stack'[i].svc = stack[i].svc /\ stack'[i + 1].svc = stack[i + 1].svc
      BY <1>1, <2>2, <3>1
    <3> QED BY <1>a, <2>2, <3>2 DEF Chain
  <2>3. i = n \/ i \in 1..(n - 1)
    BY <1>1
  <2> QED BY <2>1, <2>2, <2>3
<1>3. Len(stack') - 1 = n
  BY <1>1
<1> QED BY <1>2, <1>3 DEF Chain

LEMMA ChainStep == RegistryTypeOK /\ Chain /\ [RegistryNext]_registryVars => Chain'
<1> SUFFICES ASSUME RegistryTypeOK, Chain, [RegistryNext]_registryVars PROVE Chain'
  OBVIOUS
<1>1. CASE UNCHANGED stack
  BY <1>1 DEF Chain
<1>2. CASE \E s \in Catalog : stack' = <<NewFrame(s)>>
  BY <1>2 DEF Chain
<1>3. CASE stack' = <<>>
  BY <1>3 DEF Chain
<1>4. CASE Running /\ Pop
  BY <1>4, PopChain
<1>5. CASE Dependency
  BY <1>5, PushChain
<1>6. CASE NextService
  <2>1. services[cursor] \in Catalog
    BY <1>6 DEF NextService, RegistryTypeOK
  <2> QED BY <1>2, <1>3, <1>6, <2>1 DEF NextService
<1>7. CASE \E o \in {"idle", "overflow"} : Throw(o)
  BY <1>3, <1>7 DEF Throw
<1> QED
  BY <1>1, <1>3, <1>4, <1>5, <1>6, <1>7
  DEF RegistryNext, Step, registryVars, register_service, start_registered, CallReturns,
      AlreadyStarted, UnknownDependency, Overflow, StartOne, BusFails

\* A chain of more registered services than there are units passes one of them
\* twice, and what lies between is a circle.
LEMMA LongChain ==
  ASSUME NEW L \in Nat, NEW p \in [1..(L + 1) -> Registered], RegistryTypeOK, OwnUnit,
         IsFiniteSet(Units), Cardinality(Units) <= L,
         \A i \in 1..L : p[i + 1].name \in After(p[i])
  PROVE  Circular
<1> DEFINE f == [i \in 1..(L + 1) |-> p[i].unit]
<1>1. f \in [1..(L + 1) -> Units]
  BY RegisteredCatalog, ServiceAssumption DEF ManagedService
<1>2. IsFiniteSet(1..(L + 1)) /\ Cardinality(1..(L + 1)) = L + 1 /\ Cardinality(Units) \in Nat
  BY FS_Interval, FS_CardinalityType
<1>s. Cardinality(Units) < Cardinality(1..(L + 1))
  BY <1>2
<1> HIDE DEF f
<1>3. PICK i, j \in 1..(L + 1) : i # j /\ f[i] = f[j]
  <2> DEFINE S == 1..(L + 1)
  <2>1. IsFiniteSet(S) /\ Cardinality(Units) < Cardinality(S) /\ f \in [S -> Units]
    BY <1>1, <1>2, <1>s
  <2> HIDE DEF S
  <2>2. \E x, y \in S : x # y /\ f[x] = f[y]
    BY <2>1, FS_PigeonHole
  <2> QED BY <2>2 DEF S
<1>4. p[i].unit = p[j].unit
  BY <1>3 DEF f
<1>5. p[i] = p[j]
  BY <1>4, ZenonT(30) DEF Registered, OwnUnit
<1>6. \A a, b \in 1..(L + 1) : a < b /\ p[a] = p[b] => Circular
  <2> SUFFICES ASSUME NEW a \in 1..(L + 1), NEW b \in 1..(L + 1), a < b, p[a] = p[b] PROVE Circular
    OBVIOUS
  <2> DEFINE S == {p[k] : k \in a..(b - 1)}
  <2>1. S \in SUBSET Registered /\ S # {}
    <3>1. a \in a..(b - 1) /\ a..(b - 1) \subseteq 1..(L + 1)
      OBVIOUS
    <3> QED BY <3>1
  <2>2. ASSUME NEW s \in S PROVE \E t \in S : t.name \in After(s)
    <3>1. PICK k \in a..(b - 1) : s = p[k]
      BY <2>2
    <3>2. k \in 1..L /\ (k + 1 \in a..(b - 1) \/ k + 1 = b)
      OBVIOUS
    <3>3. p[k + 1] \in S
      <4>1. CASE k + 1 \in a..(b - 1)
        BY <4>1
      <4>2. CASE k + 1 = b
        <5>1. a \in a..(b - 1)
          OBVIOUS
        <5> QED BY <4>2, <5>1
      <4> QED BY <3>2, <4>1, <4>2
    <3> QED BY <3>1, <3>2, <3>3
  <2> HIDE DEF S
  <2> QED BY <2>1, <2>2 DEF Circular
<1>7. i < j \/ j < i
  BY <1>3
<1> QED BY <1>5, <1>6, <1>7

\* The recursion of start_registered() runs out of a stack with a frame for every
\* unit only when services depend on each other in a circle.
THEOREM OverflowNeedsCircleAlways ==
  IsFiniteSet(Units) /\ Cardinality(Units) <= MaxDepth /\ RegistrySpec => []OverflowNeedsCircle
<1> SUFFICES ASSUME IsFiniteSet(Units), Cardinality(Units) <= MaxDepth
             PROVE  RegistrySpec => []OverflowNeedsCircle
  OBVIOUS
<1>1. RegistryInit => Chain /\ OverflowNeedsCircle
  BY DEF RegistryInit, Chain, OverflowNeedsCircle
<1>2. RegistryInv /\ OwnUnit /\ Chain /\ OverflowNeedsCircle /\ [RegistryNext]_registryVars
        => OverflowNeedsCircle'
  <2> SUFFICES ASSUME RegistryInv, OwnUnit, Chain, OverflowNeedsCircle, [RegistryNext]_registryVars,
                      op' = "overflow"
               PROVE  Circular'
    BY DEF OverflowNeedsCircle
  <2>1. CASE Overflow
    <3>a. PICK n : n = Len(stack)
      OBVIOUS
    <3>b. PICK d : d = Top.svc.after[Top.next]
      OBVIOUS
    <3> DEFINE p == [i \in 1..(n + 1) |-> IF i <= n THEN stack[i].svc ELSE find(d)]
    <3>c. Running /\ More(Top) /\ Known(d) /\ n >= MaxDepth
      BY <2>1, <3>a, <3>b DEF Overflow
    <3>1. n \in Nat /\ n > 0 /\ Top \in Frames /\ Top = stack[n] /\ n >= MaxDepth
      BY <3>a, <3>c, TopFrame DEF RegistryInv
    <3>2. find(d) \in Registered /\ find(d).name = d
      BY <3>c, FindName
    <3>3. d \in After(stack[n].svc)
      BY <3>b, <3>c, <3>1, NextAfter DEF More
    <3>4. \A i \in 1..n : stack[i].svc \in Registered
      BY <3>a DEF RegistryInv, OnStack
    <3>5. p \in [1..(n + 1) -> Registered]
      BY <3>1, <3>2, <3>4
    <3>6. ASSUME NEW i \in 1..n PROVE p[i + 1].name \in After(p[i])
      <4>1. CASE i = n
        <5>1. p[n + 1] = find(d) /\ p[n] = stack[n].svc
          BY <3>1
        <5> QED BY <3>2, <3>3, <4>1, <5>1
      <4>2. CASE i \in 1..(n - 1)
        <5>1. i \in 1..(n + 1) /\ i + 1 \in 1..(n + 1) /\ i <= n /\ i + 1 <= n
          BY <3>1, <4>2
        <5>2. p[i + 1] = stack[i + 1].svc /\ p[i] = stack[i].svc
          BY <5>1
        <5> QED BY <3>a, <4>2, <5>2 DEF Chain
      <4>3. i = n \/ i \in 1..(n - 1)
        BY <3>1
      <4> QED BY <4>1, <4>2, <4>3
    <3> HIDE DEF p
    <3>7. Cardinality(Units) <= n
      <4>1. Cardinality(Units) \in Nat
        BY FS_CardinalityType
      <4>2. MaxDepth \in Nat
        BY ServiceAssumption
      <4> QED BY <3>1, <4>1, <4>2
    <3>8. Circular
      BY <3>1, <3>5, <3>6, <3>7, LongChain DEF RegistryInv
    <3>9. UNCHANGED services
      BY <2>1 DEF Overflow, Throw
    <3> QED BY <3>8, <3>9 DEF Circular, Registered
  <2>2. CASE ~Overflow
    <3>1. op = "overflow" /\ UNCHANGED services
      BY <2>2 DEF RegistryNext, Step, registryVars, register_service, start_registered, NextService,
         CallReturns, AlreadyStarted, Dependency, UnknownDependency, StartOne, BusFails, Throw, Running
    <3> QED BY <3>1, SMTT(30) DEF OverflowNeedsCircle, Circular, Registered
  <2> QED BY <2>1, <2>2
<1>3. RegistryInv => RegistryTypeOK
  BY DEF RegistryInv
<1> QED BY <1>1, <1>2, <1>3, ChainStep, OwnUnitAlways, RegistryInvAlways, PTL DEF RegistrySpec

-----------------------------------------------------------------------------
(* What inspect() reports of a unit.                                       *)

\* The states the unit can be in, and those the report is built from.
UnitStates == {"inactive", "activating", "active", "failed", "unloaded"}
UnitRecords == [state : UnitStates, restarts : 0..StartLimit, nice : {-10, 0}]
Reports == [active_state : UnitStates \cup {"", "unknown"},
            sub_state : {"", "unknown", "dead", "auto-restart", "running", "failed", "not-found"},
            restart_count : 0..StartLimit, permanently_failed : BOOLEAN,
            priority_matches : BOOLEAN, required_active : BOOLEAN]
Reading == {"active", "sub", "restarts", "nice"}
Inspecting == place \in Reading \cup {"unit", "result"}

InspectionTypeOK ==
  /\ place \in Reading \cup {"idle", "control", "unit", "result"}
  /\ unit \in UnitRecords /\ seen \subseteq UnitRecords /\ unanswered \in BOOLEAN
  /\ report \in Reports

\* What is seen includes the unit as it is, and a unit that was there.
Watched ==
  /\ Inspecting => unit \in seen
  /\ place \in Reading => \E u \in seen : u.state # "unloaded"

\* The unit was failed when its state was read, and at its limit when its
\* restarts were.
Witnessed ==
  /\ report.active_state = "failed" => \E u \in seen : u.state = "failed"
  /\ report.permanently_failed => /\ report.active_state = "failed"
                                  /\ \E u \in seen : u.restarts = StartLimit
  /\ place \in {"unit", "active"} => report.active_state = ""
  /\ place \in {"unit", "active", "sub", "restarts"} => ~report.permanently_failed

Right(u) ==
  /\ report.active_state = IF u.state = "unloaded" THEN "inactive" ELSE u.state
  /\ report.sub_state = SubState(u.state)
  /\ u.state # "unloaded" => /\ report.restart_count = u.restarts
                             /\ report.priority_matches <=> u.nice = service_priority_nice(Tier)
  /\ report.permanently_failed <=> u.state = "failed" /\ u.restarts = StartLimit

\* As far as it is filled in, the report of a unit that has rested is right.
Filled ==
  ~unanswered => \A u \in seen : seen = {u} =>
    /\ place \in {"sub", "restarts", "nice"} => report.active_state = u.state
    /\ place \in {"restarts", "nice"} => report.sub_state = SubState(u.state)
    /\ place = "nice" =>
         /\ report.restart_count = u.restarts
         /\ report.permanently_failed <=> u.state = "failed" /\ u.restarts = StartLimit
    /\ place = "result" \/ (place \in {"idle", "control"} /\ report.active_state # "") => Right(u)

InspectionInv == InspectionTypeOK /\ Watched /\ Witnessed /\ Filled

LEMMA BlankReport == Blank \in Reports
<1>1. 0 \in 0..StartLimit
  BY DEF StartLimit
<1> QED BY <1>1 DEF Blank, Reports

LEMMA InspectionInvInit == InspectionInit => InspectionInv
<1> SUFFICES ASSUME InspectionInit PROVE InspectionInv
  OBVIOUS
<1>1. unit \in UnitRecords
  <2>1. unit.state \in UnitStates /\ unit.restarts \in 0..StartLimit
    BY DEF InspectionInit, UnitStates, StartLimit
  <2> QED BY <2>1 DEF InspectionInit, UnitRecords
<1>3. InspectionTypeOK
  BY <1>1, BlankReport DEF InspectionInit, InspectionTypeOK
<1>2. Watched /\ Witnessed /\ Filled
  BY DEF InspectionInit, Watched, Witnessed, Filled, Inspecting, Reading, Blank
<1> QED BY <1>2, <1>3 DEF InspectionInv

\* An inspection begins.
LEMMA BeginInspection ==
  ASSUME InspectionInv, place' = "unit", report' = Blank, seen' = {unit}, unanswered' = FALSE,
         UNCHANGED unit
  PROVE  InspectionInv'
<1>1. unit \in UnitRecords
  BY DEF InspectionInv, InspectionTypeOK
<1>2. InspectionTypeOK'
  BY <1>1, BlankReport DEF InspectionTypeOK
<1>3. Watched' /\ Witnessed' /\ Filled'
  BY DEF Watched, Witnessed, Filled, Inspecting, Reading, Blank
<1> QED BY <1>2, <1>3 DEF InspectionInv

\* The unit moves: the report is of what was seen, and a unit seen in one state
\* only was so before.
LEMMA MoveInspection ==
  ASSUME InspectionInv, NEW s \in UnitStates, NEW r \in 0..StartLimit, Move(s, r)
  PROVE  InspectionInv'
<1>1. unit \in UnitRecords /\ seen \subseteq UnitRecords /\ InspectionTypeOK
  BY DEF InspectionInv, InspectionTypeOK
<1>2. unit' \in UnitRecords
  BY <1>1 DEF Move, UnitRecords
<1>3. UNCHANGED <<place, report, unanswered>>
  BY DEF Move
<1>4. seen' = IF place \in {"idle", "control"} THEN seen ELSE seen \cup {unit'}
  BY DEF Move
<1>5. seen \subseteq seen' /\ seen' \subseteq UnitRecords
  BY <1>1, <1>2, <1>4
<1>6. InspectionTypeOK'
  BY <1>1, <1>2, <1>3, <1>5 DEF InspectionTypeOK
<1>7. Watched /\ Witnessed /\ Filled
  BY DEF InspectionInv
<1>8. Watched'
  BY <1>3, <1>4, <1>7 DEF Watched, Inspecting, Reading
<1>9. Witnessed'
  BY <1>3, <1>5, <1>7 DEF Witnessed
<1>10. ASSUME NEW u \in seen', seen' = {u} PROVE u \in seen /\ seen = {u}
  <2>1. CASE place \in {"idle", "control"}
    BY <1>4, <1>10, <2>1
  <2>2. CASE place \notin {"idle", "control"}
    <3>1. unit \in seen
      BY <1>1, <1>7, <2>2 DEF InspectionTypeOK, Watched, Inspecting
    <3> QED BY <1>5, <1>10, <3>1
  <2> QED BY <2>1, <2>2
<1>11. Filled'
  BY <1>3, <1>7, <1>10 DEF Filled, Right
<1> QED BY <1>6, <1>8, <1>9, <1>11 DEF InspectionInv

\* While a property is read, a unit that has rested is there, and is the one seen.
LEMMA RestingSeen ==
  ASSUME InspectionInv, place \in Reading, NEW u, seen = {u}
  PROVE  u = unit /\ unit.state # "unloaded" /\ unit \in UnitRecords
BY DEF InspectionInv, InspectionTypeOK, Watched, Inspecting

LEMMA ReadUnit == InspectionInv /\ GetUnit => InspectionInv'
<1> SUFFICES ASSUME InspectionInv, GetUnit PROVE InspectionInv'
  OBVIOUS
<1>t. InspectionTypeOK /\ Watched /\ Witnessed
  BY DEF InspectionInv
<1>r. report \in Reports /\ unit \in UnitRecords
  BY <1>t DEF InspectionTypeOK
<1>1. PICK bad \in BOOLEAN :
        IF bad \/ unit.state = "unloaded" THEN Read("unit", "result", bad, NotFound)
        ELSE Read("unit", "active", bad, report)
  BY DEF GetUnit
<1>2. place = "unit" /\ UNCHANGED <<unit, seen>> /\ unanswered' = (unanswered \/ bad)
      /\ unit \in seen /\ report.active_state = "" /\ ~report.permanently_failed
  BY <1>1, <1>t DEF Read, Watched, Witnessed, Inspecting
<1>3. CASE bad \/ unit.state = "unloaded"
  <2>1. place' = "result" /\ report' = NotFound
    BY <1>1, <1>3 DEF Read
  <2>2. /\ report' \in Reports /\ report'.active_state = "inactive"
        /\ report'.sub_state = "not-found" /\ ~report'.permanently_failed
    BY <2>1, <1>2, <1>r DEF NotFound, Reports, UnitStates
  <2>3. InspectionTypeOK'
    BY <2>1, <2>2, <1>2, <1>t DEF InspectionTypeOK
  <2>4. Watched' /\ Witnessed'
    BY <2>1, <2>2, <1>2 DEF Watched, Witnessed, Inspecting, Reading
  <2>5. ASSUME ~unanswered', NEW u \in seen', seen' = {u} PROVE u = unit /\ u.state = "unloaded"
    BY <2>5, <1>2, <1>3
  <2>6. Filled'
    BY <2>1, <2>2, <2>5 DEF Filled, Right, SubState
  <2> QED BY <2>3, <2>4, <2>6 DEF InspectionInv
<1>4. CASE ~bad /\ unit.state # "unloaded"
  <2>1. place' = "active" /\ report' = report
    BY <1>1, <1>4 DEF Read
  <2>2. InspectionTypeOK'
    BY <2>1, <1>2, <1>t DEF InspectionTypeOK, Reading
  <2>3. Watched' /\ Witnessed'
    BY <2>1, <1>2, <1>4 DEF Watched, Witnessed, Inspecting, Reading
  <2>4. Filled'
    BY <2>1 DEF Filled
  <2> QED BY <2>2, <2>3, <2>4 DEF InspectionInv
<1> QED BY <1>3, <1>4

LEMMA ReadState == InspectionInv /\ ActiveState => InspectionInv'
<1> SUFFICES ASSUME InspectionInv, ActiveState PROVE InspectionInv'
  OBVIOUS
<1>t. InspectionTypeOK /\ Watched /\ Witnessed
  BY DEF InspectionInv
<1>r. report \in Reports /\ unit \in UnitRecords
  BY <1>t DEF InspectionTypeOK
<1>1. PICK bad \in BOOLEAN :
        Read("active", "sub", bad, [report EXCEPT !.active_state = Property(bad, unit.state, "unknown")])
  BY DEF ActiveState
<1> DEFINE v == Property(bad, unit.state, "unknown")
<1>2. /\ place = "active" /\ place' = "sub" /\ UNCHANGED <<unit, seen>>
      /\ unanswered' = (unanswered \/ bad)
      /\ report' = [report EXCEPT !.active_state = v]
      /\ unit \in seen /\ ~report.permanently_failed
      /\ \E u \in seen : u.state # "unloaded"
  BY <1>1, <1>t DEF Read, Watched, Witnessed, Inspecting, Reading
<1>3. v \in UnitStates \cup {"", "unknown"} /\ (v = "failed" => unit.state = "failed")
  BY <1>r DEF Property, UnitRecords, UnitStates
<1>4. ~bad /\ unit.state # "unloaded" => v = unit.state
  BY DEF Property
<1> HIDE DEF v
<1>5. report' \in Reports /\ report'.active_state = v /\ ~report'.permanently_failed
  BY <1>2, <1>3, <1>r DEF Reports
<1>6. InspectionTypeOK'
  BY <1>2, <1>5, <1>t DEF InspectionTypeOK, Reading
<1>7. Watched' /\ Witnessed'
  BY <1>2, <1>3, <1>5 DEF Watched, Witnessed, Inspecting, Reading
<1>8. Filled'
  <2> SUFFICES ASSUME ~unanswered', NEW u \in seen', seen' = {u} PROVE report'.active_state = u.state
    BY <1>2 DEF Filled
  <2>1. u = unit /\ unit.state # "unloaded"
    BY <1>2, RestingSeen DEF Reading
  <2> QED BY <1>2, <1>4, <1>5, <2>1
<1> QED BY <1>6, <1>7, <1>8 DEF InspectionInv

LEMMA ReadSub == InspectionInv /\ ReadSubState => InspectionInv'
<1> SUFFICES ASSUME InspectionInv, ReadSubState PROVE InspectionInv'
  OBVIOUS
<1>t. InspectionTypeOK /\ Watched /\ Witnessed /\ Filled
  BY DEF InspectionInv
<1>r. report \in Reports /\ unit \in UnitRecords
  BY <1>t DEF InspectionTypeOK
<1>1. PICK bad \in BOOLEAN :
        Read("sub", "restarts", bad,
             [report EXCEPT !.sub_state = Property(bad, SubState(unit.state), "unknown")])
  BY DEF ReadSubState
<1> DEFINE v == Property(bad, SubState(unit.state), "unknown")
<1>2. /\ place = "sub" /\ place' = "restarts" /\ UNCHANGED <<unit, seen>>
      /\ unanswered' = (unanswered \/ bad)
      /\ report' = [report EXCEPT !.sub_state = v]
      /\ unit \in seen /\ ~report.permanently_failed
      /\ \E u \in seen : u.state # "unloaded"
  BY <1>1, <1>t DEF Read, Watched, Witnessed, Inspecting, Reading
<1>3. v \in {"", "unknown", "dead", "auto-restart", "running", "failed", "not-found"}
  BY <1>r DEF Property, SubState
<1>4. ~bad /\ unit.state # "unloaded" => v = SubState(unit.state)
  BY DEF Property
<1> HIDE DEF v
<1>5. /\ report' \in Reports /\ report'.sub_state = v /\ ~report'.permanently_failed
      /\ report'.active_state = report.active_state
  BY <1>2, <1>3, <1>r DEF Reports
<1>6. InspectionTypeOK'
  BY <1>2, <1>5, <1>t DEF InspectionTypeOK, Reading
<1>7. Watched' /\ Witnessed'
  BY <1>2, <1>5, <1>t DEF Watched, Witnessed, Inspecting, Reading
<1>8. Filled'
  <2> SUFFICES ASSUME ~unanswered', NEW u \in seen', seen' = {u}
               PROVE  report'.active_state = u.state /\ report'.sub_state = SubState(u.state)
    BY <1>2 DEF Filled
  <2>1. u = unit /\ unit.state # "unloaded"
    BY <1>2, RestingSeen DEF Reading
  <2>2. report.active_state = u.state
    BY <1>2, <1>t DEF Filled
  <2> QED BY <1>2, <1>4, <1>5, <2>1, <2>2
<1> QED BY <1>6, <1>7, <1>8 DEF InspectionInv

LEMMA ReadRestarts == InspectionInv /\ NRestarts => InspectionInv'
<1> SUFFICES ASSUME InspectionInv, NRestarts PROVE InspectionInv'
  OBVIOUS
<1>t. InspectionTypeOK /\ Watched /\ Witnessed /\ Filled
  BY DEF InspectionInv
<1>r. report \in Reports /\ unit \in UnitRecords
  BY <1>t DEF InspectionTypeOK
<1>1. PICK bad \in BOOLEAN :
        Read("restarts", "nice", bad,
             [report EXCEPT !.restart_count = Property(bad, unit.restarts, 0),
                            !.permanently_failed =
                               PermanentlyFailed(report.active_state, Property(bad, unit.restarts, 0))])
  BY DEF NRestarts
<1> DEFINE n == Property(bad, unit.restarts, 0)
           p == PermanentlyFailed(report.active_state, n)
<1>2. /\ place = "restarts" /\ place' = "nice" /\ UNCHANGED <<unit, seen>>
      /\ unanswered' = (unanswered \/ bad)
      /\ report' = [report EXCEPT !.restart_count = n, !.permanently_failed = p]
      /\ unit \in seen
      /\ \E u \in seen : u.state # "unloaded"
  BY <1>1, <1>t DEF Read, Watched, Inspecting, Reading
<1>3. n \in 0..StartLimit /\ (n >= 3 => unit.restarts = StartLimit)
  BY <1>r DEF Property, UnitRecords, StartLimit
<1>4. ~bad /\ unit.state # "unloaded" => n = unit.restarts
  BY DEF Property
<1>5. p \in BOOLEAN /\ (p <=> report.active_state = "failed" /\ n >= 3)
  BY DEF PermanentlyFailed
<1> HIDE DEF n, p
<1>6. /\ report' \in Reports /\ report'.restart_count = n /\ report'.permanently_failed = p
      /\ report'.active_state = report.active_state /\ report'.sub_state = report.sub_state
  BY <1>2, <1>3, <1>5, <1>r DEF Reports
<1>7. InspectionTypeOK'
  BY <1>2, <1>6, <1>t DEF InspectionTypeOK, Reading
<1>8. Watched'
  BY <1>2 DEF Watched, Inspecting, Reading
<1>9. Witnessed'
  <2>1. report'.permanently_failed => report'.active_state = "failed" /\ unit.restarts = StartLimit
    BY <1>3, <1>5, <1>6
  <2> QED BY <1>2, <1>6, <1>t, <2>1 DEF Witnessed
<1>10. Filled'
  <2> SUFFICES ASSUME ~unanswered', NEW u \in seen', seen' = {u}
               PROVE  /\ report'.active_state = u.state /\ report'.sub_state = SubState(u.state)
                      /\ report'.restart_count = u.restarts
                      /\ report'.permanently_failed <=> u.state = "failed" /\ u.restarts = StartLimit
    BY <1>2 DEF Filled
  <2>1. u = unit /\ unit.state # "unloaded" /\ u.restarts \in 0..StartLimit
    BY <1>2, RestingSeen DEF Reading, UnitRecords
  <2>2. report.active_state = u.state /\ report.sub_state = SubState(u.state)
    BY <1>2, <1>t DEF Filled
  <2>3. n = u.restarts
    BY <1>2, <1>4, <2>1
  <2>4. p <=> u.state = "failed" /\ u.restarts = StartLimit
    BY <1>5, <2>1, <2>2, <2>3 DEF StartLimit
  <2> QED BY <1>6, <2>2, <2>3, <2>4
<1> QED BY <1>7, <1>8, <1>9, <1>10 DEF InspectionInv

LEMMA ReadNice == InspectionInv /\ Nice => InspectionInv'
<1> SUFFICES ASSUME InspectionInv, Nice PROVE InspectionInv'
  OBVIOUS
<1>t. InspectionTypeOK /\ Watched /\ Witnessed /\ Filled
  BY DEF InspectionInv
<1>r. report \in Reports /\ unit \in UnitRecords
  BY <1>t DEF InspectionTypeOK
<1>1. PICK bad \in BOOLEAN :
        Read("nice", "result", bad,
             [report EXCEPT !.priority_matches =
                Property(bad, unit.nice = service_priority_nice(Tier), FALSE)])
  BY DEF Nice
<1> DEFINE v == Property(bad, unit.nice = service_priority_nice(Tier), FALSE)
<1>2. /\ place = "nice" /\ place' = "result" /\ UNCHANGED <<unit, seen>>
      /\ unanswered' = (unanswered \/ bad)
      /\ report' = [report EXCEPT !.priority_matches = v]
      /\ unit \in seen
  BY <1>1, <1>t DEF Read, Watched, Inspecting, Reading
<1>3. v \in BOOLEAN
  BY DEF Property
<1>4. ~bad /\ unit.state # "unloaded" => v = (unit.nice = service_priority_nice(Tier))
  BY DEF Property
<1> HIDE DEF v
<1>5. /\ report' \in Reports /\ report'.priority_matches = v
      /\ report'.restart_count = report.restart_count
      /\ report'.permanently_failed = report.permanently_failed
      /\ report'.active_state = report.active_state /\ report'.sub_state = report.sub_state
  BY <1>2, <1>3, <1>r DEF Reports
<1>6. InspectionTypeOK'
  BY <1>2, <1>5, <1>t DEF InspectionTypeOK
<1>7. Watched' /\ Witnessed'
  BY <1>2, <1>5, <1>t DEF Watched, Witnessed, Inspecting, Reading
<1>8. Filled'
  <2> SUFFICES ASSUME ~unanswered', NEW u \in seen', seen' = {u} PROVE Right(u)'
    BY <1>2 DEF Filled
  <2>1. u = unit /\ unit.state # "unloaded"
    BY <1>2, RestingSeen DEF Reading
  <2>2. /\ report.active_state = u.state /\ report.sub_state = SubState(u.state)
        /\ report.restart_count = u.restarts
        /\ report.permanently_failed <=> u.state = "failed" /\ u.restarts = StartLimit
    BY <1>2, <1>t DEF Filled
  <2>3. report'.priority_matches <=> u.nice = service_priority_nice(Tier)
    BY <1>2, <1>4, <1>5, <2>1
  <2> QED BY <1>5, <2>1, <2>2, <2>3 DEF Right
<1> QED BY <1>6, <1>7, <1>8 DEF InspectionInv

\* The report is complete: only the registry's part is added.
LEMMA ReturnReport == InspectionInv /\ Result => InspectionInv'
<1> SUFFICES ASSUME InspectionInv, Result PROVE InspectionInv'
  OBVIOUS
<1>t. InspectionTypeOK /\ Watched /\ Witnessed /\ Filled
  BY DEF InspectionInv
<1>1. /\ place = "result" /\ place' = "idle" /\ UNCHANGED <<unit, seen, unanswered>>
      /\ report' = [report EXCEPT !.required_active = AutoStart]
  BY DEF Result
<1>2. report \in Reports
  BY <1>t DEF InspectionTypeOK
<1>3. /\ report' \in Reports /\ report'.priority_matches = report.priority_matches
      /\ report'.restart_count = report.restart_count
      /\ report'.permanently_failed = report.permanently_failed
      /\ report'.active_state = report.active_state /\ report'.sub_state = report.sub_state
  BY <1>1, <1>2, InspectionAssumption DEF Reports
<1>4. InspectionTypeOK'
  BY <1>1, <1>3, <1>t DEF InspectionTypeOK
<1>5. Watched' /\ Witnessed'
  BY <1>1, <1>3, <1>t DEF Watched, Witnessed, Inspecting, Reading
<1>6. Filled'
  BY <1>1, <1>3, <1>t DEF Filled, Right
<1> QED BY <1>4, <1>5, <1>6 DEF InspectionInv

\* No inspection begins or ends: a call waits for the bus, or fails there.
LEMMA AwayFromUnit ==
  ASSUME InspectionInv, UNCHANGED <<report, unit, seen, unanswered>>,
         place' = place \/ (place \in {"idle", "control"} /\ place' \in {"idle", "control"})
  PROVE  InspectionInv'
<1>t. InspectionTypeOK /\ Watched /\ Witnessed /\ Filled
  BY DEF InspectionInv
<1>1. InspectionTypeOK'
  BY <1>t DEF InspectionTypeOK
<1>2. Watched' /\ Witnessed'
  BY <1>t DEF Watched, Witnessed, Inspecting, Reading
<1>3. Filled'
  BY <1>t DEF Filled, Right
<1> QED BY <1>1, <1>2, <1>3 DEF InspectionInv

\* Nothing is reported when the first reply is invalid.
LEMMA ThrowInspection == InspectionInv /\ InvalidReply => InspectionInv'
<1> SUFFICES ASSUME InspectionInv, InvalidReply PROVE InspectionInv'
  OBVIOUS
<1>t. InspectionTypeOK /\ Watched /\ Witnessed /\ Filled
  BY DEF InspectionInv
<1>1. place = "unit" /\ place' = "idle" /\ UNCHANGED <<unit, seen, unanswered>> /\ report' = Blank
  BY DEF InvalidReply
<1>2. InspectionTypeOK'
  BY <1>1, <1>t, BlankReport DEF InspectionTypeOK
<1>3. ~report'.permanently_failed /\ report'.active_state = ""
  BY <1>1 DEF Blank
<1>4. Watched' /\ Witnessed'
  BY <1>1, <1>3, <1>t DEF Watched, Witnessed, Inspecting, Reading
<1>5. Filled'
  BY <1>1, <1>3 DEF Filled
<1> QED BY <1>2, <1>4, <1>5 DEF InspectionInv

LEMMA InspectionInvStep == InspectionInv /\ [InspectionNext]_inspectionVars => InspectionInv'
<1> SUFFICES ASSUME InspectionInv, [InspectionNext]_inspectionVars PROVE InspectionInv'
  OBVIOUS
<1>1. CASE status
  BY <1>1, BeginInspection DEF status
<1>2. ASSUME NEW a \in Actions, control(a) PROVE InspectionInv'
  BY <1>2, AwayFromUnit DEF control
<1>3. CASE ControlUnit
  BY <1>3, BeginInspection DEF ControlUnit
<1>4. CASE ControlFails
  BY <1>4, AwayFromUnit DEF ControlFails
<1>5. CASE Dispatch \/ Up \/ Crash \/ ResetFailed \/ Unload
  <2>1. unit.state \in UnitStates /\ unit.restarts \in 0..StartLimit
    BY DEF InspectionInv, InspectionTypeOK, UnitRecords
  <2>2. {"inactive", "activating", "active", "failed", "unloaded"} \subseteq UnitStates
        /\ 0 \in 0..StartLimit
        /\ (unit.restarts < StartLimit => unit.restarts + 1 \in 0..StartLimit)
    BY <2>1 DEF UnitStates, StartLimit
  <2>3. CASE Dispatch
    BY <2>1, <2>2, <2>3, MoveInspection DEF Dispatch
  <2>4. CASE Up \/ ResetFailed \/ Unload
    BY <2>1, <2>2, <2>4, MoveInspection DEF Up, ResetFailed, Unload
  <2>5. CASE Crash
    BY <2>1, <2>2, <2>5, MoveInspection DEF Crash
  <2> QED BY <1>5, <2>3, <2>4, <2>5
<1>6. CASE UNCHANGED inspectionVars
  BY <1>6, AwayFromUnit DEF inspectionVars
<1> QED BY <1>1, <1>2, <1>3, <1>4, <1>5, <1>6, ReadUnit, ReadState, ReadSub, ReadRestarts, ReadNice,
           ReturnReport, ThrowInspection, ZenonT(30) DEF InspectionNext, Manager

\* inspect() reads a unit property by property while systemd moves it; still,
\* it is right about a unit that rests meanwhile, and it calls a unit permanently
\* failed only when it saw it failed, and at its start limit.
THEOREM HonestReportAlways == InspectionSpec => []HonestReport
<1>1. InspectionInv => HonestReport
  <2> SUFFICES ASSUME InspectionInv PROVE RestingUnit /\ FailureWasSeen
    BY DEF HonestReport
  <2>1. RestingUnit
    BY DEF InspectionInv, Filled, RestingUnit, Right, Reported
  <2>2. FailureWasSeen
    BY DEF InspectionInv, Witnessed, FailureWasSeen
  <2> QED BY <2>1, <2>2
<1> QED BY <1>1, InspectionInvInit, InspectionInvStep, PTL DEF InspectionSpec
=============================================================================
