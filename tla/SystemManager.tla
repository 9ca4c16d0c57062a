----------------------------- MODULE SystemManager -----------------------------
(***************************************************************************)
(* The transaction core of mnc-system-manager: class Backend               *)
(* (daemon/storage.cpp), the sd-bus worker that serialises it              *)
(* (daemon/main.cpp), the --bootstrap process that runs first at every     *)
(* boot, and what surrounds them: the settings authority that owns the     *)
(* active settings file, crashes, power loss, failing platform calls and   *)
(* uncertain journal writes.                                               *)
(*                                                                         *)
(* A handler is cut where somebody else can look: at a journal write, a    *)
(* platform effect, a read of the settings file.  pc is the place the one  *)
(* running process has reached, call its stack frame.  The code changes    *)
(* state_ before every persist(), so the place "save" writes all of st.    *)
(*                                                                         *)
(* Abstractions: a Configuration is its network and everything else; the   *)
(* SHA-256 of the settings file is its content; a deadline has or has not  *)
(* passed at any tick; a request that is refused changes nothing and is a  *)
(* ServeNone step; the managed hostname is part of "everything else";      *)
(* audit events are left out.                                              *)
(***************************************************************************)
EXTENDS Naturals

CONSTANTS
  Networks, Preferences, \* values of the two parts of a Configuration
  Defaults,              \* profile_.defaults
  Initial,               \* profile_.boot_preferences->initial
  BootPreferences,       \* does the profile carry boot_preferences?
  ResetPaths,            \* profile_.reset_paths
  SettingsPath,          \* the reset path that holds the active settings file
  Unknown,               \* a setting nobody applied, or one half applied
  NoFile,                \* the active settings file does not exist
  WriteBeforeDecision,   \* does the authority write only while nothing is decided?
  MaxProposals, MaxJobs, MaxFaults, MaxCrashes   \* bounds on the environment

Configuration == [network : Networks, preferences : Preferences]

ASSUME ConstantsAssumption ==
  /\ Defaults \in Configuration /\ Initial \in Configuration
  /\ BootPreferences \in BOOLEAN /\ WriteBeforeDecision \in BOOLEAN
  /\ SettingsPath \in ResetPaths
  /\ Unknown \notin Networks \cup Preferences /\ NoFile \notin Configuration
  /\ MaxProposals \in Nat /\ MaxJobs \in Nat /\ MaxFaults \in Nat /\ MaxCrashes \in Nat

VARIABLES
  journal,        \* state.json: what a read returns, what surely survives power loss
  st,             \* Backend::state_
  storage_failed, \* Backend::storage_failed_
  job_deadline,   \* Backend::job_deadline_ # 0
  pc, call,       \* control of the one process that runs Backend code
  live,           \* what the platform has been told to run
  going_down,     \* logind has accepted a reboot or a shutdown
  settings,       \* content of profile_.active_settings
  authority,      \* what the settings authority may write next
  data,           \* reset paths that hold customer data
  told,           \* history: outcome shown to clients, per transaction id
  handed,         \* history: ids of the jobs whose power call was made
  used            \* how much of each bound is spent

memory  == <<st, storage_failed, job_deadline>>
product == <<settings, authority, data>>
world   == <<live, going_down, product>>
history == <<told, handed>>
vars    == <<journal, memory, pc, call, world, history, used>>

-----------------------------------------------------------------------------
(* struct Pending, Job and State; places and the stack frame.              *)

Pending ==
  [id : Nat, state : {"none", "pending", "committing", "committed", "rolled_back"},
   network : Networks, previous : Networks,
   previous_hash : Configuration, candidate_hash : Configuration]
Job ==
  [id : Nat, action : {"none", "reboot", "shutdown", "device_reset"},
   state : {"none", "accepted", "dispatched", "failed", "interrupted", "completed"}]
State ==
  [configuration : Configuration, initialized : BOOLEAN, pending : Pending,
   job : Job, reset_intent : BOOLEAN]

NoPending ==
  [id |-> 0, state |-> "none", network |-> Defaults.network, previous |-> Defaults.network,
   previous_hash |-> Defaults, candidate_hash |-> Defaults]
\* What the constructor builds when there is no state.json.
Fresh ==
  [configuration |-> Defaults, initialized |-> FALSE, pending |-> NoPending,
   job |-> [id |-> 0, action |-> "none", state |-> "none"], reset_intent |-> FALSE]

\* No process runs: machine off, bootstrap failed, daemon down.
DeadPlaces == {"off", "bootfailed", "stopped"}
BootPlaces == {"reset.remove", "boot.apply", "boot.end", "boot.done"}
DaemonPlaces ==
  {"start.recover", "start.job", "tick", "tick.job", "power", "serve", "undo",
   "begin.apply", "prepare", "reply", "throw"}
Places == DeadPlaces \cup BootPlaces \cup DaemonPlaces \cup {"settle", "save"}

\* catch: where an exception goes; tick, settle, save: where tick(),
\* settleNetwork() and persist() return to; reply: what a successful reply
\* means to the caller; the rest are locals.
SettleReturns == {"tick.job", "throw", "reply", "start.job", "boot.apply"}
SaveReturns == SettleReturns \cup {"start.recover", "power", "begin.apply", "boot.end", "boot.done"}
Frame ==
  [catch : {"tick", "undo", "stopped", "bootfailed"}, tick : {"serve", "reply", "prepare"},
   settle : SettleReturns, save : SaveReturns,
   reply : {"none", "outcome", "grant", "job", "applied"},
   commit : BOOLEAN, previous : Configuration, todo : SUBSET ResetPaths]
NewFrame(catch) ==
  [catch |-> catch, tick |-> "serve", settle |-> "throw", save |-> "throw",
   reply |-> "none", commit |-> FALSE, previous |-> Defaults, todo |-> {}]
Request(reply) == [NewFrame("tick") EXCEPT !.reply = reply]

\* Backend::pending(), Backend::idle().  (Here and below a definition marked
\* "bug" is a faulty variant of the next one.)
IsPendingBug(s) == s.pending.state = "pending"
IsPending(s) == s.pending.state \in {"pending", "committing"}
IdleBug == ~storage_failed /\ st.job.state # "accepted" /\ ~st.reset_intent
Idle == ~storage_failed /\ ~IsPending(st) /\ st.job.state # "accepted" /\ ~st.reset_intent

-----------------------------------------------------------------------------
(* Control flow, exceptions and the journal.                               *)

Goto(place) == pc' = place /\ UNCHANGED call
Save(place) == pc' = "save" /\ call' = [call EXCEPT !.save = place]
\* The next iteration of the worker: tick(), then one message.
Loop == pc' = "tick" /\ call' = NewFrame("stopped")

\* The process ends; st becomes what the next constructor will read.
Halt(place) ==
  /\ pc' = place /\ call' = NewFrame("stopped")
  /\ st' = journal'.visible /\ storage_failed' = FALSE /\ job_deadline' = FALSE

\* request() turns an exception into an error reply and apply() rolls back;
\* in the worker loop and in on_start() it ends the daemon with exit code 1,
\* in bootstrap it fails the unit the daemon requires.
Throw(failed) ==
  \/ /\ call.catch = "tick"
     /\ Loop
     /\ storage_failed' = failed
     /\ UNCHANGED <<st, job_deadline>>
  \/ /\ call.catch = "undo"
     /\ pc' = "undo" /\ call' = [call EXCEPT !.catch = "tick"]
     /\ st' = [st EXCEPT !.configuration = call.previous]
     /\ storage_failed' = failed
     /\ UNCHANGED job_deadline
  \/ call.catch \in DeadPlaces /\ Halt(call.catch)

\* A system call or a platform effect fails; the setting is left as it was or
\* half applied.
Fault == used.faults < MaxFaults /\ used' = [used EXCEPT !.faults = @ + 1]
HalfApplied(setting) == Fault /\ live' \in {live, [live EXCEPT ![setting] = Unknown]}

\* persist() through atomicWrite(): fsync, rename, sync of the directory.  It
\* throws at once after an earlier failure, else when atomicWrite() fails:
\* before the rename (old content) or after it (new content is read, but power
\* loss may still undo the rename).
Persist ==
  /\ pc = "save"
  /\ \/ /\ ~storage_failed
        /\ journal' = [visible |-> st, stable |-> st]
        /\ Goto(call.save)
        /\ UNCHANGED <<memory, used>>
     \/ /\ ~storage_failed
        /\ Fault
        /\ journal' \in {journal, [journal EXCEPT !.visible = st]}
        /\ Throw(TRUE)
     \/ /\ storage_failed
        /\ UNCHANGED <<journal, used>>
        /\ Throw(TRUE)
  /\ UNCHANGED <<world, history>>

Rethrow ==
  /\ pc = "throw"
  /\ UNCHANGED <<journal, world, history, used>>
  /\ Throw(storage_failed)

-----------------------------------------------------------------------------
(* settleNetwork() and recoverNetwork().                                   *)

\* recoverNetwork() reads the settings file and takes the verdict.
VerdictBug == st.pending.state = "committing"
Verdict == st.pending.state = "committing" /\ settings = st.pending.candidate_hash
Recover(frame, place) ==
  pc' = "settle" /\ call' = [frame EXCEPT !.settle = place, !.commit = Verdict]

\* The runtime apply comes first; the journal is kept until it succeeds.
SettledNetworkBug == IF call.commit THEN st.pending.network ELSE live.network
SettledNetwork == IF call.commit THEN st.pending.network ELSE st.pending.previous
Settle ==
  /\ pc = "settle"
  /\ UNCHANGED journal
  /\ \/ /\ live' = [live EXCEPT !.network = SettledNetwork]
        /\ st' = [st EXCEPT !.configuration.network = SettledNetwork,
                    !.pending.state = IF call.commit THEN "committed" ELSE "rolled_back"]
        /\ Save(call.settle)
        /\ UNCHANGED <<storage_failed, job_deadline, used>>
     \/ HalfApplied("network") /\ Throw(storage_failed)
  /\ UNCHANGED <<going_down, product, history>>

-----------------------------------------------------------------------------
(* The bootstrap process.                                                  *)

\* The machine comes up with no runtime settings; st is the journal.
PowerOn ==
  /\ pc = "off"
  /\ going_down' = FALSE
  /\ UNCHANGED <<journal, product, history>>
NothingApplied == live' = [network |-> Unknown, preferences |-> Unknown]

\* A reset is in progress: mnc-storage must have reported reset_prepared.
ResetDueBug == st.job.action = "device_reset"
ResetDue == st.reset_intent
BootReset ==
  /\ PowerOn
  /\ ResetDue
  /\ NothingApplied
  /\ \/ /\ pc' = "reset.remove"
        /\ call' = [NewFrame("bootfailed") EXCEPT !.todo = ResetPaths]
        /\ UNCHANGED <<memory, used>>
     \/ Fault /\ Halt("bootfailed")

BootRecover ==
  /\ PowerOn
  /\ ~ResetDue /\ st.initialized
  /\ NothingApplied
  /\ IF IsPending(st) THEN Recover(NewFrame("bootfailed"), "boot.apply")
                      ELSE pc' = "boot.apply" /\ call' = NewFrame("bootfailed")
  /\ UNCHANGED <<memory, used>>

\* First boot: the initial configuration of a product with boot preferences;
\* else the image runs settings of its own and only the clock policy is written.
BootFirst ==
  /\ PowerOn
  /\ ~ResetDue /\ ~st.initialized
  /\ call' = NewFrame("bootfailed")
  /\ IF BootPreferences
     THEN pc' = "boot.apply" /\ NothingApplied /\ st' = [st EXCEPT !.configuration = Initial]
     ELSE pc' = "boot.end" /\ live' \in Configuration /\ UNCHANGED st
  /\ UNCHANGED <<storage_failed, job_deadline, used>>

\* durableRemove() of one path, which is there as long as anything of it is left;
\* then the defaults and no transaction.
AllRemovedBug == SettingsPath \notin call.todo
AllRemoved == call.todo = {}
ResetRemove ==
  /\ pc = "reset.remove"
  /\ UNCHANGED journal
  /\ \/ /\ AllRemoved
        /\ st' = [st EXCEPT !.configuration = Defaults, !.initialized = TRUE, !.pending = NoPending]
        /\ Goto("boot.apply")
        /\ UNCHANGED <<storage_failed, job_deadline, settings, data, used>>
     \/ \E p \in call.todo :
        /\ call' = [call EXCEPT !.todo = @ \ {p}]
        /\ data' = data \ {p}
        /\ settings' = IF p = SettingsPath THEN NoFile ELSE settings
        /\ UNCHANGED <<pc, memory, used>>
     \/ call.todo # {} /\ Fault /\ Throw(storage_failed) /\ UNCHANGED <<settings, data>>
  /\ UNCHANGED <<live, going_down, authority, history>>

\* network(), sshBootPolicy() and clockBootPolicy(); a reset or a first boot is
\* complete only then, and is journalled.
BootApply ==
  /\ pc = "boot.apply"
  /\ UNCHANGED journal
  /\ \/ /\ live' = st.configuration
        /\ IF st.reset_intent \/ ~st.initialized
           THEN /\ st' = [st EXCEPT !.initialized = TRUE, !.reset_intent = FALSE,
                            !.job.state = IF st.reset_intent THEN "completed" ELSE @]
                /\ Save("boot.end")
           ELSE Goto("boot.end") /\ UNCHANGED st
        /\ UNCHANGED <<storage_failed, job_deadline, used>>
     \/ /\ Fault
        /\ live' \in {[live EXCEPT !.network = n] :
                         n \in {live.network, Unknown, st.configuration.network}}
        /\ Throw(storage_failed)
  /\ UNCHANGED <<going_down, product, history>>

\* A call that leaves no trace here throws: sd_bus_process() in the worker loop,
\* bootHostname() or the clock policy of a first boot at the end of bootstrap.
CallFails ==
  /\ pc \in {"serve", "boot.end"}
  /\ Fault
  /\ UNCHANGED <<journal, world, history>>
  /\ Throw(storage_failed)

\* The managed hostname is set and journalled.
BootEnd ==
  /\ pc = "boot.end"
  /\ IF BootPreferences THEN Save("boot.done") ELSE Goto("boot.done")
  /\ UNCHANGED <<journal, memory, world, history, used>>

BootDone ==
  /\ pc = "boot.done"
  /\ UNCHANGED <<journal, world, history, used>>
  /\ Halt("stopped")

-----------------------------------------------------------------------------
(* Backend::start(), from Daemon::on_start().                              *)

\* A reset that is not finished needs another reboot.
ResumeResetBug == Loop /\ UNCHANGED <<st, job_deadline>>
ResumeReset == job_deadline' = TRUE /\ Loop /\ UNCHANGED st

\* systemd starts the daemon after bootstrap, and again after a failure.  An
\* uninitialized one takes over what discover() finds running.
Start ==
  /\ pc = "stopped"
  /\ \/ st.reset_intent /\ ResumeReset
     \/ /\ ~st.reset_intent /\ st.initialized
        /\ Goto("start.recover")
        /\ UNCHANGED <<st, job_deadline>>
     \/ /\ ~st.reset_intent /\ ~st.initialized
        /\ \E c \in Configuration :
              /\ live \in Configuration => c = live
              /\ st' = [st EXCEPT !.configuration = c, !.initialized = TRUE]
        /\ Save("start.recover")
        /\ UNCHANGED job_deadline
  /\ UNCHANGED <<journal, storage_failed, world, history, used>>

StartRecover ==
  /\ pc = "start.recover"
  /\ IF IsPending(st) THEN Recover(call, "start.job") ELSE Goto("start.job")
  /\ UNCHANGED <<journal, memory, world, history, used>>

\* A job still accepted was never handed over: it is interrupted.
NotHandedBug == st.job.state \in {"accepted", "dispatched"}
NotHanded == st.job.state = "accepted"
StartJob ==
  /\ pc = "start.job"
  /\ IF NotHanded
     THEN st' = [st EXCEPT !.job.state = "interrupted"] /\ Save("reply")
     ELSE Loop /\ UNCHANGED st
  /\ UNCHANGED <<journal, storage_failed, job_deadline, world, history, used>>

-----------------------------------------------------------------------------
(* Backend::tick(), at the top of every worker iteration and inside        *)
(* networkTransaction() and prepareNetworkCommit().                        *)

TickStorageFailedBug ==
  pc = "tick" /\ storage_failed /\ Loop /\ UNCHANGED <<journal, memory, world, history, used>>
TickStorageFailed ==
  /\ pc = "tick"
  /\ storage_failed
  /\ UNCHANGED <<journal, world, history, used>>
  /\ Throw(TRUE)

\* The deadline of the open transaction has passed.
MayExpireBug == ~storage_failed /\ st.pending.state = "pending"
MayExpire == ~storage_failed /\ IsPending(st)
TickExpire ==
  /\ pc = "tick"
  /\ MayExpire
  /\ Recover(call, "tick.job")
  /\ UNCHANGED <<journal, memory, world, history, used>>

TickPassBug == pc = "tick" /\ Goto("tick.job") /\ UNCHANGED <<journal, memory, world, history, used>>
TickPass ==
  /\ pc = "tick"
  /\ ~storage_failed
  /\ Goto("tick.job")
  /\ UNCHANGED <<journal, memory, world, history, used>>

\* The job is due: "dispatched" is journalled before the power call.
Dispatch ==
  /\ pc = "tick.job"
  /\ job_deadline
  /\ job_deadline' = FALSE
  /\ st' = [st EXCEPT !.job.state = "dispatched"]
  /\ Save("power")
  /\ UNCHANGED <<journal, storage_failed, world, history, used>>

NoDispatch ==
  /\ pc = "tick.job"
  /\ Goto(call.tick)
  /\ UNCHANGED <<journal, memory, world, history, used>>

\* platform_.power(): logind takes the request, or it throws.
PowerCall ==
  /\ pc = "power"
  /\ handed' = handed \cup {st.job.id}
  /\ \/ going_down' = TRUE /\ Goto(call.tick) /\ UNCHANGED <<st, used>>
     \/ /\ Fault
        /\ st' = [st EXCEPT !.job.state = "failed"]
        /\ Save("throw")
        /\ UNCHANGED going_down
  /\ UNCHANGED <<journal, storage_failed, job_deadline, live, product, told>>

-----------------------------------------------------------------------------
(* Requests: sd_bus_process() dispatches one message after each tick.      *)

\* No message, a read-only method, or a request that is refused.
ServeNone ==
  /\ pc = "serve"
  /\ Loop
  /\ UNCHANGED <<journal, memory, world, history, used>>

\* A successful reply: it shows an outcome, lets the authority write the
\* candidate or save the preferences, or follows the arming of job_deadline_.
Reply ==
  /\ pc = "reply"
  /\ Loop
  /\ told' = IF call.reply = "outcome" /\ st.pending.state \in {"committed", "rolled_back"}
             THEN [told EXCEPT ![st.pending.id] = st.pending.state] ELSE told
  /\ job_deadline' = (job_deadline \/ call.reply = "job")
  /\ authority' = CASE call.reply = "grant" /\ authority.phase = "idle" ->
                         [phase |-> "granted", id |-> st.pending.id,
                          content |-> st.pending.candidate_hash]
                    [] call.reply = "applied" ->
                         [phase |-> "applied", id |-> 0, content |-> st.configuration]
                    [] OTHER -> authority
  /\ UNCHANGED <<journal, st, storage_failed, live, going_down, settings, data, handed, used>>

\* apply(): the network must be the current one; preferences() and
\* sshBootPolicy() run before the journal is written.
ApplyPreferences(p) ==
  /\ pc = "serve"
  /\ Idle
  /\ authority.phase \in {"idle", "applied"}
  /\ LET frame == [Request("applied") EXCEPT !.previous = st.configuration] IN
     \/ /\ live' = [live EXCEPT !.preferences = p]
        /\ st' = [st EXCEPT !.configuration.preferences = p, !.initialized = TRUE]
        /\ pc' = "save" /\ call' = [frame EXCEPT !.catch = "undo", !.save = "reply"]
        /\ UNCHANGED used
     \/ HalfApplied("preferences") /\ pc' = "undo" /\ call' = frame /\ UNCHANGED st
  /\ UNCHANGED <<journal, storage_failed, job_deadline, going_down, product, history>>

\* The catch block of apply(); state_.configuration is the previous one again.
Undo ==
  /\ pc = "undo"
  /\ UNCHANGED journal
  /\ \/ /\ live' = [live EXCEPT !.preferences = call.previous.preferences]
        /\ Save("throw")
        /\ UNCHANGED <<memory, used>>
     \/ HalfApplied("preferences") /\ Throw(storage_failed)
  /\ UNCHANGED <<going_down, product, history>>

\* beginNetwork(): the authority names the content it believes active and the
\* content it will write; the journal is written before the network changes.
BeginNetwork(n) ==
  /\ pc = "serve"
  /\ Idle
  /\ authority.phase = "idle"
  /\ settings # NoFile /\ n # settings.network
  /\ used.proposals < MaxProposals
  /\ used' = [used EXCEPT !.proposals = @ + 1]
  /\ st' = [st EXCEPT !.pending =
              [id |-> used.proposals + 1, state |-> "pending", network |-> n,
               previous |-> st.configuration.network, previous_hash |-> settings,
               candidate_hash |-> [settings EXCEPT !.network = n]]]
  /\ pc' = "save"
  /\ call' = [Request("outcome") EXCEPT !.save = "begin.apply", !.tick = "reply"]
  /\ UNCHANGED <<journal, storage_failed, job_deadline, world, history>>

\* On success the reply is networkTransaction(), which ticks; on failure the
\* transaction is settled at once and the error is returned.
BeginApply ==
  /\ pc = "begin.apply"
  /\ \/ live' = [live EXCEPT !.network = st.pending.network] /\ Goto("tick") /\ UNCHANGED used
     \/ /\ HalfApplied("network")
        /\ pc' = "settle"
        /\ call' = [call EXCEPT !.settle = "throw", !.commit = FALSE]
  /\ UNCHANGED <<journal, memory, going_down, product, history>>

\* Two requests that tick first.  A stale id is refused after the tick, which
\* is a GetNetworkTransaction step.
GetNetworkTransaction ==
  /\ pc = "serve"
  /\ pc' = "tick" /\ call' = [Request("outcome") EXCEPT !.tick = "reply"]
  /\ UNCHANGED <<journal, memory, world, history, used>>

PrepareNetworkCommit ==
  /\ pc = "serve"
  /\ pc' = "tick" /\ call' = [Request("grant") EXCEPT !.tick = "prepare"]
  /\ UNCHANGED <<journal, memory, world, history, used>>

\* Its rest: repeating it succeeds; settings changed meanwhile refuse it.
Prepare ==
  /\ pc = "prepare"
  /\ CASE st.pending.state = "pending" /\ settings = st.pending.previous_hash ->
            st' = [st EXCEPT !.pending.state = "committing"] /\ Save("reply")
       [] st.pending.state = "committing" -> Goto("reply") /\ UNCHANGED st
       [] OTHER -> Loop /\ UNCHANGED st
  /\ UNCHANGED <<journal, storage_failed, job_deadline, world, history, used>>

\* finishNetwork(): repeating a settled outcome succeeds; a commit needs the
\* candidate on disk, a cancel is refused once it is there.
MayFinishBug(commit) == commit = Verdict
MayFinish(commit) == IsPending(st) /\ commit = Verdict
FinishNetwork(commit) ==
  /\ pc = "serve"
  /\ \/ /\ st.pending.state = (IF commit THEN "committed" ELSE "rolled_back")
        /\ pc' = "reply" /\ call' = Request("outcome")
     \/ /\ MayFinish(commit)
        /\ pc' = "settle"
        /\ call' = [Request("outcome") EXCEPT !.settle = "reply", !.commit = commit]
  /\ UNCHANGED <<journal, memory, world, history, used>>

\* power() and resetDevice() accept a job.
AcceptJob(action) ==
  /\ pc = "serve"
  /\ Idle
  /\ used.jobs < MaxJobs
  /\ used' = [used EXCEPT !.jobs = @ + 1]
  /\ st' = [st EXCEPT !.job = [id |-> used.jobs + 1, action |-> action, state |-> "accepted"],
                      !.reset_intent = (@ \/ action = "device_reset")]
  /\ pc' = "save" /\ call' = [Request("job") EXCEPT !.save = "reply"]
  /\ UNCHANGED <<journal, storage_failed, job_deadline, world, history>>

Power == \E action \in {"reboot", "shutdown"} : AcceptJob(action)
ResetDevice == AcceptJob("device_reset")

-----------------------------------------------------------------------------
(* The settings authority: the product service that owns the settings file *)
(* (not in this repository; modelled from the protocol Backend offers it). *)

ServicesUp == pc \notin {"off", "bootfailed"} /\ call.catch # "bootfailed"
NoGrant == [phase |-> "idle", id |-> 0, content |-> Defaults]

\* No rollback of the granted transaction has been decided.
Undecided ==
  /\ st.pending.id = authority.id /\ st.pending.state = "committing"
  /\ pc = "settle" => call.commit

\* The durable settings commit: the candidate replaces the active file.
AuthorityCommits ==
  /\ authority.phase = "granted" /\ ServicesUp
  /\ WriteBeforeDecision => Undecided
  /\ settings' = authority.content
  /\ authority' = NoGrant
  /\ UNCHANGED <<journal, memory, pc, call, live, going_down, data, history, used>>

\* Applied preferences are saved; a first file records the running network.
AuthoritySaves ==
  /\ authority.phase = "applied" /\ ServicesUp
  /\ settings' = [authority.content EXCEPT
                    !.network = IF settings = NoFile THEN @ ELSE settings.network]
  /\ authority' = NoGrant
  /\ UNCHANGED <<journal, memory, pc, call, live, going_down, data, history, used>>

\* It crashes, times out or is told to stop before it writes.
AuthorityGivesUp ==
  /\ authority.phase # "idle"
  /\ authority' = NoGrant
  /\ UNCHANGED <<journal, memory, pc, call, live, going_down, settings, data, history, used>>

\* Product services store customer data under the reset paths.
CustomerWrites ==
  /\ ServicesUp
  /\ data # ResetPaths
  /\ data' = ResetPaths
  /\ UNCHANGED <<journal, memory, pc, call, live, going_down, settings, authority,
                 history, used>>

-----------------------------------------------------------------------------
(* Crashes.                                                                *)

CrashBudget == used.crashes < MaxCrashes /\ used' = [used EXCEPT !.crashes = @ + 1]
Writing == pc = "save" /\ ~storage_failed

\* The process dies.  Inside atomicWrite() the rename may already be visible.
Crash ==
  /\ pc \notin DeadPlaces
  /\ CrashBudget
  /\ \/ UNCHANGED journal
     \/ Writing /\ journal' = [journal EXCEPT !.visible = st]
  /\ Halt(IF call.catch = "bootfailed" THEN "bootfailed" ELSE "stopped")
  /\ UNCHANGED <<world, history>>

\* The machine stops with journal version s: runtime state is gone.
MachineOff(s) ==
  /\ journal' = [visible |-> s, stable |-> s]
  /\ Halt("off")
  /\ authority' = NoGrant
  /\ UNCHANGED <<live, going_down, settings, data, history>>

\* Power fails: an unsynced rename is kept or lost.
PowerLoss ==
  /\ pc # "off"
  /\ CrashBudget
  /\ \E s \in {journal.visible, journal.stable} \cup (IF Writing THEN {st} ELSE {}) :
        MachineOff(s)

\* systemd stops the daemon between two iterations and halts the machine.
MachineStops ==
  /\ going_down
  /\ pc = "stopped" \/ (pc = "tick" /\ call.catch = "stopped")
  /\ MachineOff(journal.visible)
  /\ UNCHANGED used

\* An operator switches off a device whose bootstrap failed.
PowerCycle ==
  /\ pc = "bootfailed"
  /\ MachineOff(journal.visible)
  /\ UNCHANGED used

-----------------------------------------------------------------------------
Init ==
  /\ journal = [visible |-> Fresh, stable |-> Fresh]
  /\ st = Fresh /\ storage_failed = FALSE /\ job_deadline = FALSE
  /\ pc = "off" /\ call = NewFrame("stopped")
  /\ live = [network |-> Unknown, preferences |-> Unknown] /\ going_down = FALSE
  /\ settings = NoFile /\ authority = NoGrant /\ data = {}
  /\ told = [i \in 1 .. MaxProposals |-> "none"] /\ handed = {}
  /\ used = [proposals |-> 0, jobs |-> 0, faults |-> 0, crashes |-> 0]

\* What a process does by itself once it runs.
System ==
  \/ Persist \/ Rethrow \/ Reply \/ Settle
  \/ BootReset \/ BootRecover \/ BootFirst \/ ResetRemove \/ BootApply \/ BootEnd \/ BootDone
  \/ Start \/ StartRecover \/ StartJob
  \/ TickStorageFailed \/ TickExpire \/ TickPass \/ Dispatch \/ NoDispatch \/ PowerCall
  \/ ServeNone \/ Undo \/ BeginApply \/ Prepare
Requests ==
  \/ \E p \in Preferences : ApplyPreferences(p)
  \/ \E n \in Networks : BeginNetwork(n)
  \/ GetNetworkTransaction \/ PrepareNetworkCommit
  \/ \E commit \in BOOLEAN : FinishNetwork(commit)
  \/ Power \/ ResetDevice
Environment ==
  \/ AuthorityCommits \/ AuthoritySaves \/ AuthorityGivesUp \/ CustomerWrites
  \/ CallFails \/ Crash \/ PowerLoss \/ MachineStops \/ PowerCycle

Next == System \/ Requests \/ Environment
Spec == Init /\ [][Next]_vars

\* The process that runs makes progress; the boot clock passes every deadline,
\* and a machine told to go down does.
Fairness ==
  /\ WF_vars(System)
  /\ SF_vars(TickExpire) /\ SF_vars(Dispatch) /\ SF_vars(MachineStops)
FairSpec == Spec /\ Fairness

-----------------------------------------------------------------------------
TypeOK ==
  /\ journal \in [visible : State, stable : State]
  /\ st \in State /\ storage_failed \in BOOLEAN /\ job_deadline \in BOOLEAN
  /\ pc \in Places /\ call \in Frame
  /\ live \in [network : Networks \cup {Unknown}, preferences : Preferences \cup {Unknown}]
  /\ going_down \in BOOLEAN
  /\ settings \in Configuration \cup {NoFile}
  /\ authority \in [phase : {"idle", "applied", "granted"}, id : Nat, content : Configuration]
  /\ data \in SUBSET ResetPaths
  /\ told \in [1 .. MaxProposals -> {"none", "committed", "rolled_back"}]
  /\ handed \in SUBSET Nat
  /\ used \in [proposals : Nat, jobs : Nat, faults : Nat, crashes : Nat]

Versions == {st, journal.visible, journal.stable}

\* One operation at a time: in memory and in every version of the journal a
\* network transaction is never open beside an accepted job or a reset, and an
\* intent to reset always belongs to a device_reset job.  idle() guards each
\* entry, but crashes and uncertain writes bring older states back.
OneOperation ==
  \A s \in Versions :
    /\ ~(IsPending(s) /\ (s.reset_intent \/ s.job.state = "accepted"))
    /\ s.reset_intent => s.job.action = "device_reset"

\* A network that is not the journalled one (proposed, or half applied) runs
\* only under an open transaction in the journal a daemon restart would read,
\* so recovery always comes back to it.  (Power loss takes the running network
\* with it.)
NetworkJournalled ==
  ServicesUp /\ journal.visible.initialized =>
    live.network = journal.visible.configuration.network \/ IsPending(journal.visible)

\* The network the daemon runs and journals is the one the authoritative
\* settings file records, whenever no transaction is open: through timeouts,
\* cancels, crashes, power loss and failed writes.
Agreement ==
  (pc = "serve" /\ ~IsPending(st) /\ settings # NoFile) =>
    /\ settings.network = st.configuration.network
    /\ live.network = st.configuration.network

\* A client that has been told an outcome is never told the other one.
OutcomeStable == [][\A i \in DOMAIN told : told[i] # "none" => told'[i] = told[i]]_told

\* A job whose power call was made is never reported as interrupted.
NeverInterruptedOnceHanded ==
  \A s \in Versions : s.job.state = "interrupted" => s.job.id \notin handed

\* Nothing is deleted before the intent to reset is durable.
IntentBeforeDeletion ==
  [][(data' # data /\ data' \subseteq data) \/ (settings' = NoFile /\ settings # NoFile)
       => journal.stable.reset_intent]_<<data, settings>>

\* The intent leaves the journal only when every path is gone and the defaults
\* run and are journalled in the same write.
IntentSurvives ==
  [][journal.stable.reset_intent /\ ~journal'.stable.reset_intent
       => /\ data = {} /\ settings = NoFile
          /\ live = Defaults /\ journal'.stable.configuration = Defaults]_journal

\* Whenever the daemon serves a request its memory is the journal a restart
\* would read: every failed write, also one whose rename did take effect, is
\* followed by a restart before anybody is served again.
MemoryIsJournal == pc = "serve" => st = journal.visible /\ ~storage_failed

\* An open transaction is settled, with or without the authority: the deadline
\* expires, a crash is followed by recovery.  (A failed bootstrap has no
\* Restart= and waits for an operator.)
TransactionSettles ==
  IsPending(journal.visible) ~> (~IsPending(journal.visible) \/ pc = "bootfailed")

\* Write uncertainty always ends in a restart of the daemon.
StorageFailureRecovers == storage_failed ~> pc \in DeadPlaces

\* A journalled reset ends in a reset device.  Two things may stop it: a failed
\* bootstrap, and a failed power call inside the tick() of a request, which is
\* answered with an error and leaves the job failed with no deadline.
ResetProgresses ==
  journal.visible.reset_intent ~>
    \/ ~journal.visible.reset_intent \/ pc = "bootfailed"
    \/ st.job.state = "failed" /\ ~job_deadline

-----------------------------------------------------------------------------
(* What comments in the code say and the code does not do.                 *)

\* backend.hpp: "All durable changes precede their effects."  apply() runs
\* platform_.preferences() before persist().
DurableBeforeEffect ==
  ServicesUp /\ journal.visible.initialized /\ live.preferences # Unknown =>
    live.preferences = journal.visible.configuration.preferences

\* storage.cpp: "A durable settings commit cannot subsequently be cancelled by
\* a stale caller."  settleNetwork() acts on a hash that finishNetwork() read
\* before the network was reconfigured.
DurableCommitStands ==
  [][(/\ journal.visible.pending.state = "committing"
      /\ settings = journal.visible.pending.candidate_hash
      /\ call.reply = "outcome" /\ call.settle = "reply")
     => journal'.visible.pending.state # "rolled_back"]_journal
=============================================================================
