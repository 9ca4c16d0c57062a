-------------------------------- MODULE Storage --------------------------------
(***************************************************************************)
(* mnc-storage: prepare() at every boot, which also carries out a factory  *)
(* reset, and the maintenance commands backup, reformat and restore, with  *)
(* failures and power loss at every step, and the part of the daemon that  *)
(* asks for a reset and ends it (daemon/storage.cpp).  A command holds     *)
(* maintenance.lock, so there is one program counter.                      *)
(*                                                                         *)
(* Settings are a directory of two documents, of which verify_archive()    *)
(* needs one, and the lock file of who writes them; a version tells what   *)
(* was saved.  The identity of the device is productInfo.json, which is    *)
(* there whole, torn, or not at all.                                       *)
(***************************************************************************)
EXTENDS Naturals

CONSTANTS
  Versions,  \* settings the product saves
  MaxUses,   \* bound: uses of the device, and requests to reset it
  MaxBoots   \* bound: boots

ASSUME VersionsAssumption == Versions # {} /\ 0 \notin Versions

VARIABLES
  disk,              \* what survives power loss
  mounted,           \* what is at /factory, /state and /data
  temporary,         \* settings in a /state that is a tmpfs
  archive,           \* backups in RAM, in a temporary /state, and off the device
  step, role,        \* where prepare() or a command is, and the role it works on
  found,             \* devices of prepare(): the partitions it found
  resetting, prepared, \* its resetting, and reset_prepared of the status it wrote
  root,              \* the root file system is in RAM
  services,          \* the product's services run
  where, source,     \* the archive of the command, and its extracted content
  restored, refused, exposed, cut, \* history: see the properties
  boots, uses

view == <<mounted, temporary, archive>>
booting == <<found, resetting, prepared, root>>
command == <<services, where, source>>
history == <<restored, refused, exposed, cut, boots, uses>>
storageVars == <<disk, step, role, view, booting, command, history>>

Roles == {"factory", "state", "data"}
Places == {"run", "state", "away"}
Paths == {"monutchee", "ssh", "root-ssh"}

Documents == {"active", "other"}
Tree(v, fs) == [version |-> v, files |-> fs]
NoTree == Tree(0, {})
Locked(t) == [t EXCEPT !.files = @ \cup {"lock"}]
Trees == [version : {0} \cup Versions, files : SUBSET (Documents \cup {"lock"})]
NoArchive == [settings |-> NoTree, product |-> "none"]
Archives == [settings : Trees, product : {"none", "torn", "whole"}]

Disk(parts, settings, product, legacy, used) ==
  [parts |-> parts, settings |-> settings, product |-> product, legacy |-> legacy, recordings |-> used,
   paths |-> {}, machine |-> FALSE, varlib |-> "none", intent |-> FALSE]
Blank == Disk({}, NoTree, "none", FALSE, FALSE)

\* A new device, and one of the older layout with everything on one partition.
Factory == Disk(Roles, NoTree, "whole", FALSE, FALSE)
Legacy == Disk({"data"}, NoTree, "none", TRUE, TRUE)
LegacyTree == Tree(CHOOSE v \in Versions : TRUE, Documents)

StorageInit ==
  /\ disk \in {Factory, Legacy} /\ step = "off" /\ role = "factory"
  /\ mounted = [r \in Roles |-> "no"] /\ temporary = NoTree /\ archive = [p \in Places |-> NoArchive]
  /\ found = {} /\ resetting = FALSE /\ prepared = FALSE /\ root = FALSE /\ services = FALSE
  /\ where = "run" /\ source = NoArchive
  /\ restored = NoArchive /\ refused = FALSE /\ exposed = FALSE /\ cut = {} /\ boots = 0 /\ uses = 0

Disks == [parts : SUBSET Roles, settings : Trees, product : {"none", "torn", "whole"}, legacy : BOOLEAN,
          recordings : BOOLEAN, paths : SUBSET Paths, machine : BOOLEAN,
          varlib : {"none", "torn", "cached", "whole"}, intent : BOOLEAN]
StorageTypeOK ==
  /\ disk \in Disks /\ mounted \in [Roles -> {"no", "disk", "tmpfs"}] /\ temporary \in Trees
  /\ archive \in [Places -> Archives] /\ role \in Roles /\ found \subseteq Roles
  /\ resetting \in BOOLEAN /\ prepared \in BOOLEAN /\ where \in Places /\ source \in Archives

Goto(s, r) == step' = s /\ role' = r
Ends == Goto("up", "factory") /\ where' = "run" /\ source' = NoArchive
Mounted(r, how) == mounted' = [mounted EXCEPT ![r] = how]

\* What goes with a tmpfs at /state when it is unmounted.
Dropped(r) ==
  IF r = "state" /\ mounted[r] = "tmpfs"
  THEN temporary' = NoTree /\ archive' = [archive EXCEPT !.state = NoArchive]
  ELSE UNCHANGED <<temporary, archive>>

-----------------------------------------------------------------------------
(* prepare().                                                               *)

\* With or without mnc.storage=maintenance; the media may be missing.
Boot(maintenance, ram) ==
  /\ step = "off" /\ boots < MaxBoots /\ boots' = boots + 1
  /\ Goto("mount", "factory") /\ root' = ram
  /\ found' \in IF maintenance THEN {{}} ELSE {{}, disk.parts}
  /\ resetting' = FALSE /\ prepared' = FALSE
  /\ restored' = IF maintenance THEN restored ELSE NoArchive
  /\ UNCHANGED <<disk, view, command, refused, exposed, cut, uses>>

NextRole ==
  CASE role = "factory" -> Goto("mount", "state")
    [] role = "state"   -> Goto("journal", "data")
    [] role = "data"    -> Goto("remove", "data")

Mount ==
  /\ step = "mount" /\ role \in found /\ Mounted(role, "disk") /\ NextRole
  /\ UNCHANGED <<disk, temporary, archive, booting, command, history>>

\* The partition is missing, needs repair or cannot be mounted.
MountTmpfs ==
  /\ step = "mount" /\ Mounted(role, "tmpfs") /\ NextRole
  /\ UNCHANGED <<disk, temporary, archive, booting, command, history>>

\* A temporary /state has no journal.
Intent == mounted["state"] = "disk" /\ disk.intent
ReadJournal ==
  /\ step = "journal" /\ resetting' = Intent
  /\ Goto(IF ~Intent THEN "mount" ELSE IF "data" \in found THEN "mkfs" ELSE "shell", "data")
  /\ UNCHANGED <<disk, view, found, prepared, root, command, history>>

Mkfs ==
  /\ step = "mkfs" /\ Goto("mount", "data")
  /\ disk' = [disk EXCEPT !.recordings = FALSE, !.legacy = FALSE]
  /\ UNCHANGED <<view, booting, command, history>>

Resettable == resetting /\ mounted["data"] = "disk"
RemovePath ==
  /\ step = "remove" /\ Resettable
  /\ \/ disk.settings # NoTree /\ disk' = [disk EXCEPT !.settings = NoTree]
     \/ \E p \in disk.paths : disk' = [disk EXCEPT !.paths = @ \ {p}]
  /\ UNCHANGED <<step, role, view, booting, command, history>>

\* bug: the first of the paths is enough.
AllGoneBug == disk.settings = NoTree
AllGone == disk.settings = NoTree /\ disk.paths = {}
Removed ==
  /\ step = "remove" /\ (resetting => Resettable /\ AllGone)
  /\ prepared' = resetting /\ Goto("machine", role)
  /\ UNCHANGED <<disk, view, found, resetting, root, command, history>>

MachineId ==
  /\ step = "machine" /\ Goto("varlib", role)
  /\ disk' = IF mounted["state"] = "disk" THEN [disk EXCEPT !.machine = TRUE] ELSE disk
  /\ UNCHANGED <<view, booting, command, history>>

\* The directory is made, and then filled, without sync; one that is there is not
\* looked at.
VarLib ==
  /\ step \in {"varlib", "fill"}
  /\ IF step = "varlib" /\ mounted["state"] = "disk" /\ disk.varlib = "none"
     THEN disk' = [disk EXCEPT !.varlib = "torn"] /\ Goto("fill", role)
     ELSE disk' = (IF step = "fill" THEN [disk EXCEPT !.varlib = "cached"] ELSE disk) /\ Goto("bootstrap", role)
  /\ UNCHANGED <<view, booting, command, history>>

-----------------------------------------------------------------------------
(* The daemon and the product.                                              *)

\* Backend::bootstrap(); if it fails, the services that need it do not start.
Bootstrap ==
  /\ step = "bootstrap" /\ Goto("up", "factory") /\ found' = {} /\ resetting' = FALSE /\ prepared' = FALSE
  /\ \/ /\ Intent => prepared
        /\ services' = TRUE /\ disk' = IF Intent THEN [disk EXCEPT !.intent = FALSE] ELSE disk
     \/ services' = FALSE /\ UNCHANGED disk
  /\ UNCHANGED <<view, root, where, source, history>>

\* The customer saves settings, logs in, records.
Use(v) ==
  /\ step = "up" /\ services /\ uses < MaxUses /\ uses' = uses + 1
  /\ LET own == mounted["state"] = "disk"
     IN /\ disk' = [disk EXCEPT !.settings = IF own THEN Locked(Tree(v, Documents)) ELSE @,
                                !.paths = IF own THEN Paths ELSE @,
                                !.recordings = IF mounted["data"] = "disk" THEN TRUE ELSE @]
        /\ temporary' = IF mounted["state"] = "tmpfs" THEN Locked(Tree(v, Documents)) ELSE temporary
  /\ UNCHANGED <<step, role, mounted, archive, booting, command, restored, refused, exposed, cut, boots>>

resetDevice ==
  /\ step = "up" /\ services /\ ~disk.intent /\ uses < MaxUses /\ uses' = uses + 1
  /\ mounted["state"] = "disk" /\ mounted["data"] = "disk"
  /\ disk' = [disk EXCEPT !.intent = TRUE]
  /\ UNCHANGED <<step, role, view, booting, command, restored, refused, exposed, cut, boots>>

\* An archive is copied between RAM and a place off the device.
Carry(from, to) ==
  /\ step = "up" /\ archive[from] # NoArchive /\ archive[to] = NoArchive
  /\ to = "state" => mounted["state"] = "tmpfs"
  /\ archive' = [archive EXCEPT ![to] = archive[from]]
  /\ UNCHANGED <<disk, step, role, mounted, temporary, booting, command, history>>

-----------------------------------------------------------------------------
(* backup.                                                                  *)

Own == CASE mounted["state"] = "disk" -> disk.settings [] mounted["state"] = "tmpfs" -> temporary [] OTHER -> NoTree
OlderLayout == mounted["data"] = "disk" /\ disk.legacy
Settings == IF Own # NoTree THEN Own ELSE IF OlderLayout THEN LegacyTree ELSE NoTree
Product ==
  IF mounted["factory"] = "disk" /\ disk.product # "none" THEN disk.product
  ELSE IF OlderLayout THEN "whole" ELSE "none"

\* verify_archive(), of what the members say.
verify_archive(a) == "active" \in a.settings.files /\ a.product = "whole"

\* Stops the services and takes the lock of the settings, whose file that makes.
Backup(place) ==
  /\ step = "up" /\ archive[place] = NoArchive /\ (place = "state" => mounted["state"] = "tmpfs")
  /\ Settings # NoTree /\ Product # "none"
  /\ services' = FALSE /\ where' = place /\ Goto("backup", role)
  /\ LET locks(how) == Own # NoTree /\ mounted["state"] = how
     IN /\ disk' = [disk EXCEPT !.settings = IF locks("disk") THEN Locked(@) ELSE @]
        /\ temporary' = IF locks("tmpfs") THEN Locked(temporary) ELSE temporary
  /\ UNCHANGED <<mounted, archive, booting, source, history>>

\* The archive is complete and verified before it gets its name.
PublishBackup ==
  LET a == [settings |-> [Settings EXCEPT !.files = @ \ {"lock"}], product |-> Product]
  IN /\ step = "backup" /\ verify_archive(a) /\ Ends
     /\ archive' = [archive EXCEPT ![where] = a]
     /\ UNCHANGED <<disk, mounted, temporary, booting, services, history>>

-----------------------------------------------------------------------------
(* reformat.                                                                *)

\* disk_guard() refuses a disk with a mount of any other place: prepare() binds the
\* machine-id, /var/lib and two more of a persistent /state.
Guarded == mounted["state"] # "disk"
Reformat(place) ==
  /\ step = "up" /\ verify_archive(archive[place]) /\ place # "away" /\ root /\ Guarded
  /\ services' = FALSE /\ where' = place /\ Goto("umount", "data")
  /\ UNCHANGED <<disk, view, booting, source, history>>

Umount ==
  /\ step = "umount" /\ Mounted(role, "no") /\ Dropped(role)
  /\ CASE role = "data" -> Goto("umount", "state")
       [] role = "state" -> Goto("umount", "factory")
       [] role = "factory" -> Goto("erase", "factory")
  /\ UNCHANGED <<disk, booting, command, history>>

\* bug: the archive is not verified again.
RevalidatedBug == TRUE
Revalidated == verify_archive(archive[where])
Erase ==
  /\ step = "erase" /\ (\A r \in Roles : mounted[r] = "no") /\ Revalidated
  /\ disk' = Blank /\ Goto("format", "factory") /\ restored' = NoArchive
  /\ refused' = FALSE /\ cut' = cut \cap {"settings"} \* an archive may hold half of them
  /\ UNCHANGED <<view, booting, command, exposed, boots, uses>>

Format ==
  /\ step = "format" /\ disk' = [disk EXCEPT !.parts = @ \cup {role}]
  /\ \/ role = "factory" /\ Goto("format", "state") /\ UNCHANGED source
     \/ role = "state" /\ Goto("format", "data") /\ UNCHANGED source
     \/ role = "data" /\ verify_archive(archive[where]) /\ source' = archive[where] /\ Goto("restore", "factory")
  /\ UNCHANGED <<view, booting, services, where, history>>

-----------------------------------------------------------------------------
(* restore, of the partitions of factory and state.                         *)

\* The services are stopped before the requirements are looked at.
Restore(place) ==
  /\ step = "up" /\ archive[place] # NoArchive /\ services' = FALSE
  /\ IF verify_archive(archive[place]) /\ disk.parts = Roles /\ \A r \in Roles : mounted[r] # "disk"
     THEN where' = place /\ source' = archive[place] /\ Goto("restore", "factory")
     ELSE UNCHANGED <<where, source, step, role>>
  /\ UNCHANGED <<disk, view, booting, history>>

Absent == IF role = "state" THEN disk.settings = NoTree ELSE disk.product = "none"
Same == IF role = "state" THEN disk.settings = source.settings ELSE disk.product = source.product
Copied ==
  IF role = "state" THEN [disk EXCEPT !.settings = source.settings] ELSE [disk EXCEPT !.product = source.product]

\* bug: what is there is taken for the work of an earlier restore.
PlaceableBug == TRUE
Placeable == Absent \/ Same

\* Mounts the partition and copies, or finds the work of an earlier restore.
RestoreRole ==
  /\ step = "restore" /\ Placeable
  /\ Mounted(role, "disk") /\ Dropped(role) /\ disk' = (IF Absent THEN Copied ELSE disk) /\ Goto(IF Absent THEN "copied" ELSE "sync", role)
  /\ UNCHANGED <<booting, command, history>>

Conflict ==
  /\ step = "restore" /\ ~Placeable /\ Ends /\ Mounted(role, "no") /\ Dropped(role)
  /\ refused' = (role = "state" => disk.settings.version = source.settings.version /\ "lock" \notin disk.settings.files)
  /\ UNCHANGED <<disk, booting, services, restored, exposed, cut, boots, uses>>

Sync ==
  /\ step \in {"copied", "sync"} /\ Mounted(role, "no")
  /\ \/ role = "factory" /\ Goto("restore", "state") /\ UNCHANGED <<restored, where, source>>
     \/ role = "state" /\ Ends /\ restored' = source
  /\ UNCHANGED <<disk, temporary, archive, booting, services, refused, exposed, cut, boots, uses>>

-----------------------------------------------------------------------------
(* Failures and power loss.                                                 *)

\* What an interrupted mkfs leaves of the data partition, and what is left of a
\* removal or of a copy.
Unformatted ==
  {[disk EXCEPT !.recordings = FALSE, !.legacy = FALSE, !.parts = ps] : ps \in {disk.parts, disk.parts \ {"data"}}}
HalfRemoved == {[disk EXCEPT !.settings = Tree(disk.settings.version, fs)] : fs \in SUBSET disk.settings.files}
HalfCopied ==
  IF role = "state"
  THEN {[disk EXCEPT !.settings = Tree(source.settings.version, fs)] : fs \in SUBSET source.settings.files} \cup {[disk EXCEPT !.settings = NoTree]}
  ELSE {[disk EXCEPT !.product = x] : x \in {"none", "torn", "whole"}}
Interrupted ==
  {disk} \cup
    CASE step = "mkfs" -> Unformatted
      [] step = "remove" /\ Resettable /\ disk.settings # NoTree -> HalfRemoved
      [] step = "restore" /\ Absent -> HalfCopied
      [] OTHER -> {}

\* What is there only in part when d is left: not what a whole copy, or none, is.
Half(d) ==
  {c \in {"settings", "product", "varlib"} :
     \/ c = "settings" /\ d.settings \notin {disk.settings, source.settings, NoTree}
     \/ c = "product" /\ d.product = "torn"
     \/ c = "varlib" /\ d.varlib = "torn"}

\* A tool or a requirement of prepare() fails: mnc-preboot starts a shell.
Refuse ==
  /\ step \in {"mount", "journal", "mkfs", "remove", "machine", "varlib", "fill"} /\ Goto("shell", "factory")
  /\ disk' \in Interrupted /\ cut' = cut \cup Half(disk') /\ found' = found \cap disk'.parts
  /\ UNCHANGED <<view, resetting, prepared, root, command, restored, refused, exposed, boots, uses>>

\* A command ends with an error; restore() unmounts what it mounted.
CommandFails ==
  /\ step \in {"backup", "umount", "erase", "format", "restore", "copied", "sync"} /\ Ends
  /\ \/ step \in {"restore", "copied", "sync"} /\ disk' \in Interrupted /\ Mounted(role, "no") /\ Dropped(role)
     \/ step \notin {"copied", "sync"} /\ UNCHANGED <<disk, view>>
  /\ cut' = cut \cup Half(disk')
  /\ UNCHANGED <<booting, services, restored, refused, exposed, boots, uses>>

\* Power loss also takes what is not synced.
Cached(v) ==
  CASE v = "cached" -> {"none", "torn", "whole"} [] v = "torn" /\ step = "fill" -> {"none", "torn"} [] OTHER -> {v}
PoweredOff ==
  {[d EXCEPT !.varlib = v] : d \in Interrupted \cup (IF step = "copied" THEN HalfCopied ELSE {}), v \in Cached(disk.varlib)}

\* On disk, in the layout of today or the older one.
OnDisk(d) == d.product = "whole" \/ d.legacy

\* Also a reboot.
PowerLoss ==
  /\ step # "off" /\ Goto("off", "factory")
  /\ disk' \in PoweredOff /\ cut' = cut \cup Half(disk')
  /\ mounted' = [r \in Roles |-> "no"] /\ temporary' = NoTree
  /\ archive' = [archive EXCEPT !.run = NoArchive, !.state = NoArchive]
  /\ found' = {} /\ resetting' = FALSE /\ prepared' = FALSE /\ root' = FALSE /\ services' = FALSE
  /\ source' = NoArchive /\ where' = "run" /\ refused' = FALSE
  /\ exposed' = (exposed \/ (~OnDisk(disk') /\ archive.away = NoArchive))
  /\ UNCHANGED <<restored, boots, uses>>

StorageNext ==
  \/ \E maintenance, ram \in BOOLEAN : Boot(maintenance, ram)
  \/ Mount \/ MountTmpfs \/ ReadJournal \/ Mkfs \/ RemovePath \/ Removed \/ MachineId \/ VarLib
  \/ Bootstrap \/ resetDevice \/ \E v \in Versions : Use(v)
  \/ \E p \in Places : Backup(p) \/ Reformat(p) \/ Restore(p) \/ \E q \in Places : Carry(p, q)
  \/ PublishBackup \/ Umount \/ Erase \/ Format \/ RestoreRole \/ Conflict \/ Sync
  \/ Refuse \/ CommandFails \/ PowerLoss

StorageSpec == StorageInit /\ [][StorageNext]_storageVars

-----------------------------------------------------------------------------
(* Properties.                                                              *)

\* "Never formats storage during discovery" (mnc-storage:3), "Intent survives
\* every deletion and is cleared only after all work succeeds" (storage.cpp:268):
\* recordings, settings and logins go only by a reset that was asked for, or by a
\* reformat with a backup in hand; the intent of a reset is cleared only when
\* they are all gone, whatever power losses and failing mounts came before; and a
\* reset keeps the identity of the device and of the system.  What restore() has
\* copied and not yet synced may go with the power.
ErasureStep ==
  LET reformats == step = "erase" /\ verify_archive(archive[where])
      unsynced == step = "copied"
  IN /\ disk.recordings /\ ~disk'.recordings => reformats \/ disk.intent
     /\ disk.settings.files \subseteq disk'.settings.files \/ reformats \/ disk.intent \/ unsynced
     /\ disk.paths \subseteq disk'.paths \/ reformats \/ disk.intent
     /\ disk.intent /\ ~disk'.intent => reformats \/ (~disk.recordings /\ disk.settings = NoTree /\ disk.paths = {})
     /\ disk.machine /\ ~disk'.machine => reformats
     /\ disk.product = "whole" /\ disk'.product # "whole" => reformats \/ unsynced
Erasure == [][ErasureStep]_storageVars

\* The identity of a device is never lost: reformat erases the disk only while
\* an archive exists, which stays until restore() has copied it.  The exception
\* is a restart while that archive is only in RAM: "also copy it off-device to
\* survive power loss" (mnc-storage:411).
Recoverable == exposed \/ OnDisk(disk) \/ \E p \in Places : archive[p] # NoArchive

\* What mnc-storage copies is whole: a restore that succeeded has put on the disk,
\* durably, what is in the archive; none is refused for what an earlier one left;
\* and a system with a persistent /state has all of /var/lib.  The exception is
\* what an interruption has really left in part: a later boot takes half of
\* /var/lib for all of it, and a later restore its own half work for a conflict.
CopiesWhole ==
  /\ restored # NoArchive => disk.settings = restored.settings /\ disk.product = restored.product
  /\ refused => cut \cap {"settings", "product"} # {}
  /\ step = "up" /\ services /\ mounted["state"] = "disk" => disk.varlib \in {"cached", "whole"} \/ "varlib" \in cut
=============================================================================
