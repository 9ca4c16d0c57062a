------------------------------ MODULE NetworkApply ------------------------------
(***************************************************************************)
(* How network settings reach the links: Native::network() writes one      *)
(* file per interface and reloadNetwork() asks networkd to read them and   *)
(* to configure each link (daemon/backend.cpp, network_config.cpp,         *)
(* validateNetwork()).  Any step may fail and leave the rest undone, the   *)
(* process may die, interfaces come and go, and networkd may be restarted  *)
(* and read half of the files.                                             *)
(*                                                                         *)
(* A proposal is a sequence of settings.  Names, addresses and DNS servers *)
(* are checked in AddressRules; here a setting has its interface, mode,    *)
(* whether it has a gateway and DNS servers, and its preference.  A file   *)
(* is what renderNetwork() puts into it; metric 0 stands for no metric.    *)
(* The profile names the device-tree node of every interface.              *)
(***************************************************************************)
EXTENDS Naturals, Sequences

CONSTANTS
  Managed,    \* interfaces of the product profile
  Size,       \* their number
  Proposals,  \* settings asked for
  MaxCalls    \* bound: calls of network() and reloads

VARIABLES
  files, loaded, link,  \* /run/systemd/network, what networkd read, what the links have
  present, identity,    \* interfaces there, and what their device-tree node says of the hardware
  up,                   \* networkd runs
  pc, want, at, boot,   \* the call in progress: settings, next of them, bootstrap
  last,                 \* outcome of the last network(): "none", "running", "ok", "failed"
  calls

world == <<files, loaded, link, present, identity, up>>
networkVars == <<world, pc, want, at, boot, last, calls>>

Setting == [interface : STRING, static : BOOLEAN, gateway : BOOLEAN, dns : BOOLEAN, preferred : BOOLEAN]
Rendered == [static : BOOLEAN, gateway : BOOLEAN, usedns : BOOLEAN, metric : Nat]
Identities == {"none", "ours", "other"}
Nothing == [static |-> TRUE, gateway |-> FALSE, usedns |-> FALSE, metric |-> 0]

ASSUME NetworkAssumption ==
  /\ Managed \subseteq STRING /\ Proposals \subseteq Seq(Setting) /\ <<>> \notin Proposals

NetworkTypeOK ==
  /\ files \in [Managed -> Rendered] /\ loaded \in [Managed -> Rendered] /\ link \in [Managed -> Rendered]
  /\ present \subseteq Managed /\ identity \in [Managed -> Identities] /\ up \in BOOLEAN
  /\ pc \in {"idle", "write", "reload", "links"}
  /\ want \in Seq(Setting) /\ at \in Nat \ {0}
  /\ pc # "idle" => at <= Len(want)
  /\ pc \in {"idle", "reload"} => at = 1
  /\ boot \in BOOLEAN /\ last \in {"none", "running", "ok", "failed"}

NetworkInit ==
  /\ files = [i \in Managed |-> Nothing] /\ loaded = files /\ link = files
  /\ present \in SUBSET Managed /\ up = FALSE
  /\ identity = [i \in Managed |-> IF i \in present THEN "ours" ELSE "none"]
  /\ pc = "idle" /\ want = <<>> /\ at = 1 /\ boot = FALSE /\ last = "none" /\ calls = 0

-----------------------------------------------------------------------------
(* Settings and files.                                                      *)

\* validateNetwork(), settings of one product: no duplicates, one preference.
OnePreferred(p) == \A j, k \in DOMAIN p : p[j].preferred /\ p[k].preferred => j = k
validateNetwork(p) ==
  /\ OnePreferred(p)
  /\ \A j, k \in DOMAIN p : p[j].interface = p[k].interface => j = k
  /\ \A j \in DOMAIN p : /\ ~p[j].static => ~p[j].gateway
                         /\ p[j].static /\ p[j].preferred => p[j].gateway

hasPreferred(p) == \E k \in DOMAIN p : p[k].preferred

\* renderNetwork().
\* bug: only the preferred interface gets a metric.
metricBug(c, has) == IF c.preferred THEN 100 ELSE 0
metric(c, has) == IF ~has \/ (c.static /\ ~c.gateway) THEN 0 ELSE IF c.preferred THEN 100 ELSE 600
renderNetwork(c, has) ==
  [static |-> c.static, gateway |-> c.gateway, usedns |-> ~c.dns, metric |-> metric(c, has)]
File(p, k) == renderNetwork(p[k], hasPreferred(p))

-----------------------------------------------------------------------------
(* Native::network() and reloadNetwork().                                   *)

\* bug: a failure is not noticed.
OutcomeBug(ok) == IF last = "running" THEN "ok" ELSE last
Outcome(ok) == IF last # "running" THEN last ELSE IF ok THEN "ok" ELSE "failed"
Return(ok) == pc' = "idle" /\ at' = 1 /\ last' = Outcome(ok) /\ UNCHANGED <<want, boot, calls>>

\* The bootstrap service runs before networkd.
Network(p, b) ==
  /\ pc = "idle" /\ (b => ~up) /\ calls < MaxCalls /\ calls' = calls + 1
  /\ validateNetwork(p) /\ Len(p) = Size
  /\ pc' = "write" /\ want' = p /\ at' = 1 /\ boot' = b /\ last' = "running"
  /\ UNCHANGED world

\* The call that preferences() makes when a drop-in of the network changed.
ReloadNetwork ==
  /\ pc = "idle" /\ want # <<>> /\ calls < MaxCalls /\ calls' = calls + 1
  /\ pc' = "reload" /\ UNCHANGED <<world, want, at, boot, last>>

\* interfacePolicy(): managed, and the hardware of the profile; at boot it may be
\* missing, or say nothing of itself yet.
interfacePolicy(i) ==
  /\ i \in Managed
  /\ (boot /\ identity[i] = "none") \/ (i \in present /\ identity[i] = "ours")

WriteFile ==
  /\ pc = "write" /\ interfacePolicy(want[at].interface)
  /\ files' = [files EXCEPT ![want[at].interface] = File(want, at)]
  /\ UNCHANGED <<loaded, link, present, identity, up>>
  /\ \/ at < Len(want) /\ at' = at + 1 /\ UNCHANGED <<pc, want, boot, last, calls>>
     \/ at = Len(want) /\ ~boot /\ pc' = "reload" /\ at' = 1 /\ UNCHANGED <<want, boot, last, calls>>
     \/ at = Len(want) /\ boot /\ Return(TRUE)

Reload ==
  /\ pc = "reload" /\ up /\ loaded' = files /\ pc' = "links" /\ at' = 1
  /\ UNCHANGED <<files, link, present, identity, up, want, boot, last, calls>>

\* bug: one link too many.
LastLinkBug == at > Len(want)
LastLink == at = Len(want)
ReconfigureLink ==
  /\ pc = "links" /\ up /\ want[at].interface \in present
  /\ link' = [link EXCEPT ![want[at].interface] = loaded[want[at].interface]]
  /\ UNCHANGED <<files, loaded, present, identity, up>>
  /\ \/ ~LastLink /\ at' = at + 1 /\ UNCHANGED <<pc, want, boot, last, calls>>
     \/ LastLink /\ Return(TRUE)

\* A policy, a file or a bus call fails, or the process dies.
Fail == pc # "idle" /\ Return(FALSE) /\ UNCHANGED world

-----------------------------------------------------------------------------
(* networkd and the hardware.                                               *)

Configured(from, i) == IF i \in present THEN from[i] ELSE Nothing
Call == UNCHANGED <<pc, want, at, boot, last, calls>>
StartNetworkd ==
  /\ ~(pc = "write" /\ boot) /\ up' = TRUE /\ loaded' = files /\ link' = [i \in Managed |-> Configured(files, i)]
  /\ UNCHANGED <<files, present, identity>> /\ Call
StopNetworkd == up /\ up' = FALSE /\ UNCHANGED <<files, loaded, link, present, identity>> /\ Call
Plug(i, hardware) ==
  /\ i \notin present /\ present' = present \cup {i} /\ identity' = [identity EXCEPT ![i] = hardware]
  /\ link' = [link EXCEPT ![i] = IF up THEN loaded[i] ELSE Nothing]
  /\ UNCHANGED <<files, loaded, up>> /\ Call
Unplug(i) ==
  /\ i \in present /\ present' = present \ {i} /\ link' = [link EXCEPT ![i] = Nothing]
  /\ identity' = [identity EXCEPT ![i] = "none"]
  /\ UNCHANGED <<files, loaded, up>> /\ Call

NetworkNext ==
  \/ \E p \in Proposals, b \in BOOLEAN : Network(p, b)
  \/ ReloadNetwork \/ WriteFile \/ Reload \/ ReconfigureLink \/ Fail
  \/ StartNetworkd \/ StopNetworkd \/ \E i \in Managed : Unplug(i) \/ \E h \in Identities : Plug(i, h)

NetworkSpec == NetworkInit /\ [][NetworkNext]_networkVars

-----------------------------------------------------------------------------
(* Properties.                                                              *)

\* After network() succeeded, every link that is there has the settings asked
\* for, whatever networkd read in between, and whatever failed before.
Routed ==
  pc = "idle" /\ last = "ok" /\ up =>
    \A k \in DOMAIN want : want[k].interface \in present => link[want[k].interface] = File(want, k)

\* The default route of the preferred interface wins over any other one: "Lower
\* route metric; other links remain fallbacks" (system.hpp).  Without a metric a
\* static route has the kernel's 0 and a DHCP route networkd's 1024.
Weight(r) == IF r.metric # 0 THEN r.metric ELSE IF r.static THEN 0 ELSE 1024
DefaultRoute(r) == ~r.static \/ r.gateway
PreferredWins ==
  pc = "idle" /\ last = "ok" /\ up =>
    \A j, k \in DOMAIN want :
      /\ want[j].preferred /\ j # k
      /\ {want[j].interface, want[k].interface} \subseteq present
      /\ DefaultRoute(link[want[k].interface])
      => /\ DefaultRoute(link[want[j].interface])
         /\ Weight(link[want[j].interface]) < Weight(link[want[k].interface])
=============================================================================
