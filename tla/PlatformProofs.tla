----------------------------- MODULE PlatformProofs -----------------------------
(***************************************************************************)
(* Two parts of the platform that share no state.  Storage: a factory      *)
(* reset is complete before it counts as done, the identity of the device  *)
(* is never lost, and what is copied is there whole, for any settings and  *)
(* any number of boots.  NetworkApply: what a successful network() leaves  *)
(* behind, for any set of managed interfaces and any proposals.            *)
(***************************************************************************)
EXTENDS Storage, NetworkApply, TLAPS

-----------------------------------------------------------------------------
(* Storage.                                                                *)

\* A backup in /state is in a tmpfs, there is none while prepare() mounts, and
\* none is hidden by the partition that restore mounts.
InTmpfs ==
  /\ archive["state"] # NoArchive => mounted["state"] = "tmpfs"
  /\ step \in {"off", "mount", "journal", "mkfs"} => archive["state"] = NoArchive
  /\ step = "backup" /\ where = "state" => mounted["state"] = "tmpfs"
  /\ step \in {"copied", "sync"} => mounted[role] = "disk"

\* A copy of the identity that reformat's own unmounting cannot take away.
Kept == exposed \/ OnDisk(disk) \/ archive["run"] # NoArchive \/ archive["away"] # NoArchive

\* The older layout has no state partition, so a reset never meets it.
Older ==
  disk.legacy =>
    /\ "state" \notin disk.parts /\ "state" \notin found /\ mounted["state"] # "disk"
    /\ step \notin {"format", "restore", "copied", "sync"}

\* What prepare() has done of a reset, by where it is.
Progress ==
  /\ step = "mkfs" => disk.intent /\ mounted["state"] = "disk"
  /\ resetting /\ step \in {"mount", "remove"} => ~disk.recordings /\ disk.intent
  /\ prepared /\ step \in {"machine", "varlib", "fill", "bootstrap"} =>
       ~disk.recordings /\ disk.settings = NoTree /\ disk.paths = {}

IInv == StorageTypeOK /\ InTmpfs /\ Kept /\ Older /\ Progress

\* What every step keeps and does.
Keeps == IInv' /\ ErasureStep

LEMMA Empty == NoTree \in Trees /\ NoArchive \in Archives
BY DEF NoTree, NoArchive, Tree, Trees, Archives

USE DEF Goto, view, booting, command, history, Roles, Places

LEMMA BootStep == ASSUME IInv, NEW mt \in BOOLEAN, NEW ram \in BOOLEAN, Boot(mt, ram) PROVE Keeps
<1>a. disk.parts \subseteq Roles  BY DEF IInv, StorageTypeOK, Disks
<1>b. found' \subseteq Roles  BY <1>a DEF Boot
<1>1. StorageTypeOK'
  BY <1>b DEF IInv, StorageTypeOK, Boot
<1>2. InTmpfs' /\ Kept'
  BY DEF IInv, StorageTypeOK, InTmpfs, Kept, OnDisk, Disks, Boot
<1>3. Older' /\ Progress'
  BY DEF IInv, StorageTypeOK, Older, Progress, Disks, Boot
<1>4. ErasureStep
  BY DEF ErasureStep, Boot
<1> QED  BY <1>1, <1>2, <1>3, <1>4 DEF Keeps, IInv

LEMMA MountStep == ASSUME IInv, Mount PROVE Keeps
<1>1. StorageTypeOK'
  BY DEF IInv, StorageTypeOK, Mount, NextRole, Mounted
<1>2. InTmpfs' /\ Kept'
  BY DEF IInv, StorageTypeOK, InTmpfs, Kept, OnDisk, Disks, Mount, NextRole, Mounted
<1>3. Older' /\ Progress'
  BY DEF IInv, StorageTypeOK, Older, Progress, Disks, Mount, NextRole, Mounted
<1>4. ErasureStep
  BY DEF ErasureStep, Mount
<1> QED  BY <1>1, <1>2, <1>3, <1>4 DEF Keeps, IInv

LEMMA MountTmpfsStep == ASSUME IInv, MountTmpfs PROVE Keeps
<1>1. StorageTypeOK'
  BY DEF IInv, StorageTypeOK, MountTmpfs, NextRole, Mounted
<1>2. InTmpfs' /\ Kept'
  BY DEF IInv, StorageTypeOK, InTmpfs, Kept, OnDisk, Disks, MountTmpfs, NextRole, Mounted
<1>3. Older' /\ Progress'
  BY DEF IInv, StorageTypeOK, Older, Progress, Disks, MountTmpfs, NextRole, Mounted
<1>4. ErasureStep
  BY DEF ErasureStep, MountTmpfs
<1> QED  BY <1>1, <1>2, <1>3, <1>4 DEF Keeps, IInv

LEMMA ReadJournalStep == ASSUME IInv, ReadJournal PROVE Keeps
<1>1. StorageTypeOK'
  BY DEF IInv, StorageTypeOK, Disks, ReadJournal, Intent
<1>2. InTmpfs' /\ Kept'
  BY DEF IInv, StorageTypeOK, InTmpfs, Kept, OnDisk, Disks, ReadJournal, Intent
<1>3. Older' /\ Progress'
  BY DEF IInv, StorageTypeOK, Older, Progress, Disks, ReadJournal, Intent
<1>4. ErasureStep
  BY DEF ErasureStep, ReadJournal
<1> QED  BY <1>1, <1>2, <1>3, <1>4 DEF Keeps, IInv

LEMMA MkfsStep == ASSUME IInv, Mkfs PROVE Keeps
<1>1. StorageTypeOK'
  BY DEF IInv, StorageTypeOK, Disks, Mkfs
<1>2. InTmpfs' /\ Kept'
  BY DEF IInv, StorageTypeOK, InTmpfs, Kept, OnDisk, Disks, Older, Progress, Mkfs
<1>3. Older' /\ Progress'
  BY DEF IInv, StorageTypeOK, Older, Progress, Disks, Mkfs
<1>4. ErasureStep
  BY DEF IInv, StorageTypeOK, Progress, ErasureStep, Disks, Mkfs
<1> QED  BY <1>1, <1>2, <1>3, <1>4 DEF Keeps, IInv

LEMMA RemovePathStep == ASSUME IInv, RemovePath PROVE Keeps
<1>1. StorageTypeOK'
  BY DEF IInv, StorageTypeOK, Disks, NoTree, Trees, Tree, RemovePath, Resettable
<1>2. InTmpfs' /\ Kept'
  BY DEF IInv, StorageTypeOK, InTmpfs, Kept, OnDisk, Disks, RemovePath, Resettable
<1>3. Older' /\ Progress'
  BY DEF IInv, StorageTypeOK, Older, Progress, Disks, RemovePath, Resettable
<1>4. ErasureStep
  BY DEF IInv, StorageTypeOK, Progress, ErasureStep, Disks, RemovePath, Resettable
<1> QED  BY <1>1, <1>2, <1>3, <1>4 DEF Keeps, IInv

LEMMA RemovedStep == ASSUME IInv, Removed PROVE Keeps
<1>1. StorageTypeOK'
  BY DEF IInv, StorageTypeOK, Removed, Resettable, AllGone
<1>2. InTmpfs' /\ Kept'
  BY DEF IInv, StorageTypeOK, InTmpfs, Kept, OnDisk, Disks, Removed, Resettable, AllGone
<1>3. Older' /\ Progress'
  BY DEF IInv, StorageTypeOK, Older, Progress, Disks, Removed, Resettable, AllGone
<1>4. ErasureStep
  BY DEF ErasureStep, Removed
<1> QED  BY <1>1, <1>2, <1>3, <1>4 DEF Keeps, IInv

LEMMA MachineIdStep == ASSUME IInv, MachineId PROVE Keeps
<1>1. StorageTypeOK'
  BY DEF IInv, StorageTypeOK, Disks, MachineId
<1>2. InTmpfs' /\ Kept'
  BY DEF IInv, StorageTypeOK, InTmpfs, Kept, OnDisk, Disks, MachineId
<1>3. Older' /\ Progress'
  BY DEF IInv, StorageTypeOK, Older, Progress, Disks, MachineId
<1>4. ErasureStep
  BY DEF IInv, StorageTypeOK, Progress, ErasureStep, Disks, MachineId
<1> QED  BY <1>1, <1>2, <1>3, <1>4 DEF Keeps, IInv

LEMMA VarLibStep == ASSUME IInv, VarLib PROVE Keeps
<1>1. StorageTypeOK'
  BY DEF IInv, StorageTypeOK, Disks, VarLib
<1>2. InTmpfs' /\ Kept'
  BY DEF IInv, StorageTypeOK, InTmpfs, Kept, OnDisk, Disks, VarLib
<1>3. Older' /\ Progress'
  BY DEF IInv, StorageTypeOK, Older, Progress, Disks, VarLib
<1>4. ErasureStep
  BY DEF IInv, StorageTypeOK, Progress, ErasureStep, Disks, VarLib
<1> QED  BY <1>1, <1>2, <1>3, <1>4 DEF Keeps, IInv

LEMMA BootstrapStep == ASSUME IInv, Bootstrap PROVE Keeps
<1>a. disk' \in Disks
  <2>1. disk \in Disks  BY DEF IInv, StorageTypeOK
  <2>2. disk' = disk \/ disk' = [disk EXCEPT !.intent = FALSE]  BY DEF Bootstrap
  <2> QED  BY <2>1, <2>2 DEF Disks
<1>1. StorageTypeOK'
  BY <1>a DEF IInv, StorageTypeOK, Bootstrap
<1>2. InTmpfs' /\ Kept'
  BY DEF IInv, StorageTypeOK, InTmpfs, Kept, OnDisk, Disks, Bootstrap, Intent
<1>3. Older' /\ Progress'
  BY DEF IInv, StorageTypeOK, Older, Progress, Disks, Bootstrap, Intent
<1>4. ErasureStep
  BY DEF IInv, StorageTypeOK, Progress, ErasureStep, Disks, Bootstrap, Intent
<1> QED  BY <1>1, <1>2, <1>3, <1>4 DEF Keeps, IInv

LEMMA UseStep == ASSUME IInv, NEW v \in Versions, Use(v) PROVE Keeps
<1>a. Locked(Tree(v, Documents)) \in Trees  BY DEF Locked, Tree, Documents, Trees
<1>b. disk' \in Disks  BY <1>a DEF IInv, StorageTypeOK, Disks, Use
<1>c. temporary' \in Trees  BY <1>a DEF IInv, StorageTypeOK, Use
<1>1. StorageTypeOK'
  BY <1>b, <1>c DEF IInv, StorageTypeOK, Use
<1>2. InTmpfs' /\ Kept'
  BY DEF IInv, StorageTypeOK, InTmpfs, Kept, OnDisk, Disks, Use, Locked, Tree, Documents, Paths
<1>3. Older' /\ Progress'
  BY DEF IInv, StorageTypeOK, Older, Progress, Disks, Use, Locked, Tree, Documents, Paths
<1>4. ErasureStep
  <2>1. disk.settings.files \subseteq disk'.settings.files
    <3>1. disk.settings.files \subseteq Documents \cup {"lock"}  BY DEF IInv, StorageTypeOK, Disks, Trees
    <3>2. disk'.settings = disk.settings \/ disk'.settings.files = Documents \cup {"lock"}
      BY DEF IInv, StorageTypeOK, Disks, Use, Locked, Tree
    <3> QED  BY <3>1, <3>2
  <2>2. disk.paths \subseteq disk'.paths  BY DEF IInv, StorageTypeOK, Disks, Use
  <2>3. /\ disk.recordings => disk'.recordings
        /\ disk'.intent = disk.intent /\ disk'.machine = disk.machine /\ disk'.product = disk.product
    BY DEF IInv, StorageTypeOK, Disks, Use
  <2> QED  BY <2>1, <2>2, <2>3 DEF ErasureStep
<1> QED  BY <1>1, <1>2, <1>3, <1>4 DEF Keeps, IInv

LEMMA resetDeviceStep == ASSUME IInv, resetDevice PROVE Keeps
<1>1. StorageTypeOK'
  BY DEF IInv, StorageTypeOK, Disks, resetDevice
<1>2. InTmpfs' /\ Kept'
  BY DEF IInv, StorageTypeOK, InTmpfs, Kept, OnDisk, Disks, resetDevice
<1>3. Older' /\ Progress'
  BY DEF IInv, StorageTypeOK, Older, Progress, Disks, resetDevice
<1>4. ErasureStep
  BY DEF IInv, StorageTypeOK, Progress, ErasureStep, Disks, resetDevice
<1> QED  BY <1>1, <1>2, <1>3, <1>4 DEF Keeps, IInv

LEMMA CarryStep == ASSUME IInv, NEW p \in Places, NEW q \in Places, Carry(p, q) PROVE Keeps
<1>1. StorageTypeOK'
  BY DEF IInv, StorageTypeOK, Carry
<1>2. InTmpfs' /\ Kept'
  BY DEF IInv, StorageTypeOK, InTmpfs, Kept, OnDisk, Disks, Carry
<1>3. Older' /\ Progress'
  BY DEF IInv, StorageTypeOK, Older, Progress, Disks, Carry
<1>4. ErasureStep
  BY DEF ErasureStep, Carry
<1> QED  BY <1>1, <1>2, <1>3, <1>4 DEF Keeps, IInv

LEMMA BackupStep == ASSUME IInv, NEW p \in Places, Backup(p) PROVE Keeps
<1>1. StorageTypeOK'
  BY DEF IInv, StorageTypeOK, Disks, Trees, Backup, Locked
<1>2. InTmpfs' /\ Kept'
  BY DEF IInv, StorageTypeOK, InTmpfs, Kept, OnDisk, Disks, Backup, Locked
<1>3. Older' /\ Progress'
  BY DEF IInv, StorageTypeOK, Older, Progress, Disks, Backup, Locked
<1>4. ErasureStep
  BY DEF IInv, StorageTypeOK, Progress, ErasureStep, Disks, Backup, Locked
<1> QED  BY <1>1, <1>2, <1>3, <1>4 DEF Keeps, IInv

LEMMA PublishBackupStep == ASSUME IInv, PublishBackup PROVE Keeps
<1> DEFINE a == [settings |-> [Settings EXCEPT !.files = @ \ {"lock"}], product |-> Product]
<1>a. Settings \in Trees
  BY VersionsAssumption DEF IInv, StorageTypeOK, Settings, Own, LegacyTree, NoTree, Tree, Trees, Documents, Disks
<1>b. Product \in {"none", "torn", "whole"}
  BY DEF IInv, StorageTypeOK, Product, Disks
<1>c. a \in Archives
  BY <1>a, <1>b DEF Archives, Trees
<1>d. a # NoArchive /\ archive' = [archive EXCEPT ![where] = a]
  BY DEF PublishBackup, verify_archive, NoArchive, NoTree, Tree
<1> HIDE DEF a
<1>1. StorageTypeOK'
  BY <1>c, <1>d DEF IInv, StorageTypeOK, NoArchive, NoTree, Tree, Trees, Archives, PublishBackup, Ends
<1>2. InTmpfs' /\ Kept'
  BY <1>c, <1>d DEF IInv, StorageTypeOK, InTmpfs, Kept, OnDisk, Disks, PublishBackup, Ends
<1>3. Older' /\ Progress'
  BY DEF IInv, StorageTypeOK, Older, Progress, Disks, PublishBackup, Ends
<1>4. ErasureStep
  BY DEF ErasureStep, PublishBackup
<1> QED  BY <1>1, <1>2, <1>3, <1>4 DEF Keeps, IInv

LEMMA ReformatStep == ASSUME IInv, NEW p \in Places, Reformat(p) PROVE Keeps
<1>1. StorageTypeOK'
  BY DEF IInv, StorageTypeOK, Reformat
<1>2. InTmpfs' /\ Kept'
  BY DEF IInv, StorageTypeOK, InTmpfs, Kept, OnDisk, Disks, Reformat
<1>3. Older' /\ Progress'
  BY DEF IInv, StorageTypeOK, Older, Progress, Disks, Reformat
<1>4. ErasureStep
  BY DEF ErasureStep, Reformat
<1> QED  BY <1>1, <1>2, <1>3, <1>4 DEF Keeps, IInv

LEMMA UmountStep == ASSUME IInv, Umount PROVE Keeps
<1>a. mounted' \in [Roles -> {"no", "disk", "tmpfs"}]  BY DEF IInv, StorageTypeOK, Umount, Mounted
<1>b. temporary' \in Trees /\ archive' \in [Places -> Archives]
  BY Empty DEF IInv, StorageTypeOK, Umount, Dropped
<1>1. StorageTypeOK'
  BY <1>a, <1>b DEF IInv, StorageTypeOK, Umount
<1>2. InTmpfs' /\ Kept'
  <2>1. CASE role = "state"
    BY <2>1 DEF IInv, StorageTypeOK, InTmpfs, Kept, Umount, Mounted, Dropped
  <2>2. CASE role # "state"
    BY <2>2 DEF IInv, StorageTypeOK, InTmpfs, Kept, Umount, Mounted, Dropped
  <2> QED  BY <2>1, <2>2
<1>3. Older' /\ Progress'
  BY DEF IInv, StorageTypeOK, Older, Progress, Disks, Umount, Mounted, Dropped
<1>4. ErasureStep
  BY DEF ErasureStep, Umount
<1> QED  BY <1>1, <1>2, <1>3, <1>4 DEF Keeps, IInv

LEMMA EraseStep == ASSUME IInv, Erase PROVE Keeps
<1>1. StorageTypeOK'
  BY DEF IInv, StorageTypeOK, Disks, NoTree, Tree, Trees, Erase, Revalidated, verify_archive, Blank, Disk
<1>2. InTmpfs' /\ Kept'
  BY DEF IInv, StorageTypeOK, InTmpfs, Kept, OnDisk, Disks, NoArchive, NoTree, Tree, Erase, Revalidated,
     verify_archive, Blank, Disk
<1>3. Older' /\ Progress'
  BY DEF IInv, StorageTypeOK, Older, Progress, Disks, Erase, Revalidated, verify_archive, Blank, Disk
<1>4. ErasureStep
  BY DEF IInv, StorageTypeOK, Progress, ErasureStep, Disks, Erase, Revalidated, verify_archive, Blank, Disk
<1> QED  BY <1>1, <1>2, <1>3, <1>4 DEF Keeps, IInv

LEMMA FormatStep == ASSUME IInv, Format PROVE Keeps
<1>1. StorageTypeOK'
  BY DEF IInv, StorageTypeOK, Disks, Format
<1>2. InTmpfs' /\ Kept'
  BY DEF IInv, StorageTypeOK, InTmpfs, Kept, OnDisk, Disks, Format
<1>3. Older' /\ Progress'
  BY DEF IInv, StorageTypeOK, Older, Progress, Disks, Format
<1>4. ErasureStep
  BY DEF IInv, StorageTypeOK, Progress, ErasureStep, Disks, Format
<1> QED  BY <1>1, <1>2, <1>3, <1>4 DEF Keeps, IInv

LEMMA RestoreStep == ASSUME IInv, NEW p \in Places, Restore(p) PROVE Keeps
<1>1. StorageTypeOK'
  BY DEF IInv, StorageTypeOK, Restore
<1>2. InTmpfs' /\ Kept'
  BY DEF IInv, StorageTypeOK, InTmpfs, Kept, OnDisk, Disks, Restore
<1>3. Older' /\ Progress'
  BY DEF IInv, StorageTypeOK, Older, Progress, Disks, Restore
<1>4. ErasureStep
  BY DEF ErasureStep, Restore
<1> QED  BY <1>1, <1>2, <1>3, <1>4 DEF Keeps, IInv

LEMMA RestoreRoleStep == ASSUME IInv, RestoreRole PROVE Keeps
<1>1. StorageTypeOK'
  BY Empty DEF IInv, StorageTypeOK, Disks, Archives, RestoreRole, Placeable, Absent, Same, Copied, Mounted, Dropped
<1>2. InTmpfs' /\ Kept'
  BY DEF IInv, StorageTypeOK, InTmpfs, Kept, OnDisk, Disks, RestoreRole, Placeable, Absent, Same, Copied,
     Mounted, Dropped
<1>3. Older' /\ Progress'
  BY DEF IInv, StorageTypeOK, Older, Progress, Disks, RestoreRole, Placeable, Absent, Same, Copied, Mounted, Dropped
<1>4. ErasureStep
  <2>1. CASE role = "state"
    <3>1. disk.settings.files \subseteq disk'.settings.files
      BY <2>1 DEF IInv, StorageTypeOK, Disks, RestoreRole, Absent, Copied, NoTree, Tree
    <3> QED  BY <2>1, <3>1 DEF ErasureStep, IInv, StorageTypeOK, Disks, RestoreRole, Copied
  <2>2. CASE role # "state"
    BY <2>2 DEF ErasureStep, IInv, StorageTypeOK, Disks, RestoreRole, Absent, Copied
  <2> QED  BY <2>1, <2>2
<1> QED  BY <1>1, <1>2, <1>3, <1>4 DEF Keeps, IInv

LEMMA ConflictStep == ASSUME IInv, Conflict PROVE Keeps
<1>1. StorageTypeOK'
  BY Empty DEF IInv, StorageTypeOK, Conflict, Mounted, Dropped, Ends
<1>2. InTmpfs' /\ Kept'
  BY DEF IInv, StorageTypeOK, InTmpfs, Kept, OnDisk, Disks, Conflict, Mounted, Dropped, Ends
<1>3. Older' /\ Progress'
  BY DEF IInv, StorageTypeOK, Older, Progress, Disks, Conflict, Mounted, Dropped, Ends
<1>4. ErasureStep
  BY DEF ErasureStep, Conflict
<1> QED  BY <1>1, <1>2, <1>3, <1>4 DEF Keeps, IInv

LEMMA SyncStep == ASSUME IInv, Sync PROVE Keeps
<1>1. StorageTypeOK'
  BY Empty DEF IInv, StorageTypeOK, Sync, Mounted, Ends
<1>2. InTmpfs' /\ Kept'
  BY DEF IInv, StorageTypeOK, InTmpfs, Kept, OnDisk, Disks, Sync, Mounted, Ends
<1>3. Older' /\ Progress'
  BY DEF IInv, StorageTypeOK, Older, Progress, Disks, Sync, Mounted, Ends
<1>4. ErasureStep
  BY DEF ErasureStep, Sync
<1> QED  BY <1>1, <1>2, <1>3, <1>4 DEF Keeps, IInv

\* What a failure or power loss can do to the disk in the middle of a step.
LEMMA InterruptedDisk ==
  ASSUME IInv, NEW d \in Interrupted
  PROVE  /\ d \in Disks /\ d.intent = disk.intent /\ d.machine = disk.machine /\ d.varlib = disk.varlib
         /\ d.parts \subseteq disk.parts /\ d.legacy = disk.legacy
         /\ step # "mkfs" => d.recordings = disk.recordings
         /\ disk.product = "whole" => d.product = "whole"
         /\ d.paths = disk.paths
         /\ disk.settings.files \subseteq d.settings.files \/ disk.intent
<1>1. CASE d = disk  BY <1>1 DEF IInv, StorageTypeOK
<1>2. CASE step = "mkfs" /\ d \in Unformatted
  <2>1. PICK ps \in {disk.parts, disk.parts \ {"data"}} :
          d = [disk EXCEPT !.recordings = FALSE, !.legacy = FALSE, !.parts = ps]
    BY <1>2 DEF Unformatted
  <2>2. ps \subseteq disk.parts /\ ps \in SUBSET Roles  BY <2>1 DEF IInv, StorageTypeOK, Disks
  <2>3. disk.legacy = FALSE  BY <1>2 DEF IInv, StorageTypeOK, Disks, Older, Progress
  <2> QED  BY <1>2, <2>1, <2>2, <2>3 DEF IInv, StorageTypeOK, Disks
<1>3. CASE step = "remove" /\ Resettable /\ d \in HalfRemoved
  <2>1. disk.intent  BY <1>3 DEF IInv, Progress, Interrupted, Resettable
  <2>2. PICK fs \in SUBSET disk.settings.files : d = [disk EXCEPT !.settings = Tree(disk.settings.version, fs)]
    BY <1>3 DEF HalfRemoved
  <2>3. Tree(disk.settings.version, fs) \in Trees  BY DEF IInv, StorageTypeOK, Disks, Trees, Tree
  <2> QED  BY <2>1, <2>2, <2>3 DEF IInv, StorageTypeOK, Disks
<1>4. CASE step = "restore" /\ Absent /\ d \in HalfCopied
  <2>1. CASE role = "state"
    <3>1. PICK t : d = [disk EXCEPT !.settings = t] /\ (t = NoTree \/ \E fs \in SUBSET source.settings.files : t = Tree(source.settings.version, fs))
      BY <1>4, <2>1 DEF HalfCopied
    <3>2. t \in Trees  BY <3>1, Empty DEF IInv, StorageTypeOK, Archives, Trees, Tree
    <3>3. disk.settings.files = {}  BY <1>4, <2>1 DEF Absent, NoTree, Tree
    <3> QED  BY <3>1, <3>2, <3>3 DEF IInv, StorageTypeOK, Disks
  <2>2. CASE role # "state"
    BY <1>4, <2>2 DEF IInv, StorageTypeOK, HalfCopied, Disks, Absent
  <2> QED  BY <2>1, <2>2
<1> QED  BY <1>1, <1>2, <1>3, <1>4 DEF Interrupted

LEMMA RefuseStep == ASSUME IInv, Refuse PROVE Keeps
<1>1. disk' \in Interrupted  BY DEF Refuse
<1>2. StorageTypeOK'
  BY <1>1, InterruptedDisk DEF IInv, StorageTypeOK, Refuse
<1>3. InTmpfs' /\ Kept'
  BY <1>1, InterruptedDisk DEF IInv, InTmpfs, Kept, OnDisk, Refuse
<1>4. Older' /\ Progress'
  BY <1>1, InterruptedDisk DEF IInv, StorageTypeOK, Older, Progress, Refuse
<1>5. ErasureStep
  BY <1>1, InterruptedDisk DEF IInv, StorageTypeOK, Disks, Progress, ErasureStep
<1> QED  BY <1>2, <1>3, <1>4, <1>5 DEF Keeps, IInv

LEMMA CommandFailsStep == ASSUME IInv, CommandFails PROVE Keeps
<1>1. disk' \in Interrupted  BY DEF CommandFails, Interrupted
<1>2. StorageTypeOK'
  BY <1>1, InterruptedDisk, Empty DEF IInv, StorageTypeOK, CommandFails, Mounted, Dropped, Ends
<1>3. InTmpfs' /\ Kept'
  BY <1>1, InterruptedDisk DEF IInv, StorageTypeOK, InTmpfs, Kept, OnDisk, CommandFails, Mounted, Dropped, Ends
<1>4. Older' /\ Progress'
  BY <1>1, InterruptedDisk DEF IInv, StorageTypeOK, Older, Progress, CommandFails, Mounted, Dropped, Ends
<1>5. ErasureStep
  BY <1>1, InterruptedDisk DEF IInv, StorageTypeOK, Disks, Progress, ErasureStep
<1> QED  BY <1>2, <1>3, <1>4, <1>5 DEF Keeps, IInv

\* Power loss at any step; only a copy that is not synced can lose the identity.
LEMMA PowerLossStep == ASSUME IInv, PowerLoss PROVE Keeps
<1>1. PICK d \in Interrupted \cup (IF step = "copied" THEN HalfCopied ELSE {}), v \in Cached(disk.varlib) :
        disk' = [d EXCEPT !.varlib = v]
  BY DEF PowerLoss, PoweredOff
<1>2. v \in {"none", "torn", "cached", "whole"}
  BY <1>1 DEF Cached, IInv, StorageTypeOK, Disks
<1>3. /\ d \in Disks /\ d.intent = disk.intent /\ d.machine = disk.machine
      /\ d.parts \subseteq disk.parts /\ d.legacy = disk.legacy
      /\ step # "mkfs" => d.recordings = disk.recordings
      /\ disk.product = "whole" => d.product = "whole" \/ step = "copied"
      /\ d.paths = disk.paths
      /\ disk.settings.files \subseteq d.settings.files \/ disk.intent \/ step = "copied"
  <2>1. CASE d \in Interrupted  BY <2>1, InterruptedDisk
  <2>2. CASE step = "copied" /\ d \in HalfCopied /\ role = "state"
    <3>1. PICK t : d = [disk EXCEPT !.settings = t] /\ (t = NoTree \/ \E fs \in SUBSET source.settings.files : t = Tree(source.settings.version, fs))
      BY <2>2 DEF HalfCopied
    <3>2. t \in Trees  BY <3>1, Empty DEF IInv, StorageTypeOK, Archives, Trees, Tree
    <3> QED  BY <2>2, <3>1, <3>2 DEF IInv, StorageTypeOK, Disks
  <2>3. CASE step = "copied" /\ d \in HalfCopied /\ role # "state"
    BY <2>3 DEF IInv, StorageTypeOK, HalfCopied, Disks
  <2> QED  BY <1>1, <2>1, <2>2, <2>3
<1>4. /\ disk' \in Disks /\ disk'.intent = d.intent /\ disk'.machine = d.machine /\ disk'.parts = d.parts
      /\ disk'.legacy = d.legacy /\ disk'.recordings = d.recordings /\ disk'.product = d.product
      /\ disk'.paths = d.paths /\ disk'.settings = d.settings
  BY <1>1, <1>2, <1>3 DEF Disks
<1>5. StorageTypeOK'
  BY <1>4, Empty DEF IInv, StorageTypeOK, PowerLoss
<1>6. InTmpfs' /\ Kept'
  BY DEF IInv, StorageTypeOK, InTmpfs, Kept, PowerLoss
<1>7. Older' /\ Progress'
  BY <1>3, <1>4 DEF IInv, StorageTypeOK, Older, Progress, PowerLoss
<1>8. ErasureStep
  BY <1>3, <1>4 DEF IInv, StorageTypeOK, Disks, Progress, ErasureStep
<1> QED  BY <1>5, <1>6, <1>7, <1>8 DEF Keeps, IInv

LEMMA InitIInv == StorageInit => IInv
<1> SUFFICES ASSUME StorageInit PROVE IInv  OBVIOUS
<1>1. disk \in Disks
  <2>1. Factory \in Disks  BY Empty DEF Factory, Disk, Disks, Roles
  <2>2. Legacy \in Disks  BY Empty DEF Legacy, Disk, Disks, Roles
  <2> QED  BY <2>1, <2>2 DEF StorageInit
<1>2. StorageTypeOK  BY <1>1, Empty DEF StorageInit, StorageTypeOK, Roles, Places
<1>3. InTmpfs /\ Kept /\ Older /\ Progress
  BY DEF StorageInit, Factory, Legacy, Disk, InTmpfs, Kept, OnDisk, Older, Progress
<1> QED  BY <1>2, <1>3 DEF IInv

LEMMA NextKeeps == ASSUME IInv, StorageNext PROVE Keeps
BY BootStep, MountStep, MountTmpfsStep, ReadJournalStep, MkfsStep, RemovePathStep, RemovedStep, MachineIdStep, VarLibStep,
   BootstrapStep, UseStep, resetDeviceStep, CarryStep, BackupStep, PublishBackupStep, ReformatStep, UmountStep, EraseStep,
   FormatStep, RestoreStep, RestoreRoleStep, ConflictStep, SyncStep, RefuseStep, CommandFailsStep, PowerLossStep
   DEF StorageNext

LEMMA StutterIInv == ASSUME IInv, UNCHANGED storageVars PROVE IInv'
BY DEF IInv, StorageTypeOK, InTmpfs, Kept, OnDisk, Older, Progress, storageVars

LEMMA IInvAlways == StorageSpec => []IInv
<1>1. IInv /\ [StorageNext]_storageVars => IInv'
  BY NextKeeps, StutterIInv DEF Keeps
<1> QED  BY <1>1, InitIInv, PTL DEF StorageSpec

-----------------------------------------------------------------------------
\* The identity of the device is on the disk or in an archive at all times,
\* unless the machine restarted while the archive was only in RAM: for any
\* settings and any number of boots, failures and power losses in reformat() and
\* restore().
THEOREM RecoverableAlways == StorageSpec => []Recoverable
<1>1. IInv => Recoverable  BY DEF IInv, Kept, Recoverable, Places
<1> QED  BY <1>1, IInvAlways, PTL

\* Recordings, settings, logins, the identity of the device and that of the
\* system are erased only by a reset that was asked for or a reformat with a
\* verified archive, and the intent of a reset outlives all that it is to erase
\* (prepare() and Backend::bootstrap()), in the same generality.
THEOREM ErasureAlways == StorageSpec => Erasure
<1>1. IInv /\ [StorageNext]_storageVars => [ErasureStep]_storageVars
  BY NextKeeps DEF Keeps
<1> QED  BY <1>1, IInvAlways, PTL DEF StorageSpec, Erasure
-----------------------------------------------------------------------------
(* CopiesWhole.                                                             *)

\* Only a boot finds partitions and resets; the services run in a system that is up.
Phases ==
  /\ step \in {"off", "up", "backup", "umount", "erase", "format", "restore", "copied", "sync"} =>
       found = {} /\ ~resetting
  /\ services => step = "up"

\* restore works on a verified archive; a role it has done holds what is in it.
Restoring ==
  step \in {"restore", "copied", "sync"} =>
    /\ verify_archive(source) /\ role \in {"factory", "state"}
    /\ role = "state" \/ step # "restore" => disk.product = source.product
    /\ role = "state" /\ step # "restore" => disk.settings = source.settings

\* Until the next boot in earnest nothing touches what was restored.
Restored ==
  restored # NoArchive =>
    /\ verify_archive(restored) /\ disk.settings = restored.settings /\ disk.product = restored.product
    /\ found = {} /\ ~resetting /\ step # "copied"
    /\ mounted["state"] = "disk" => step = "sync" /\ role = "state"

\* Settings with all their documents, and those of an archive: without the lock.
WholeTree(t) == t = NoTree \/ Documents \subseteq t.files
Packed(t) == WholeTree(t) /\ "lock" \notin t.files

\* What is there only in part was left so by an interruption: the settings and
\* their copies, the identity of the device, /var/lib.
UncutSettings ==
  "settings" \notin cut =>
    /\ WholeTree(disk.settings) /\ WholeTree(temporary)
    /\ (\A p \in Places : Packed(archive[p].settings)) /\ Packed(source.settings)
UncutProduct == disk.product = "torn" => "product" \in cut
UncutVarLib ==
  "varlib" \notin cut =>
    /\ disk.varlib = "torn" => step = "fill"
    /\ (step = "bootstrap" \/ services) /\ mounted["state"] = "disk" => disk.varlib \in {"cached", "whole"}
RefusedCut == refused => "settings" \in cut \/ "product" \in cut

CopiesInv == Phases /\ Restoring /\ Restored /\ UncutSettings /\ UncutProduct /\ UncutVarLib /\ RefusedCut

LEMMA EmptyWhole == Packed(NoTree) /\ Packed(NoArchive.settings) /\ ~verify_archive(NoArchive)
BY DEF Packed, WholeTree, NoArchive, NoTree, Tree, verify_archive

LEMMA InitCopies == StorageInit => CopiesInv
<1> SUFFICES ASSUME StorageInit PROVE CopiesInv  OBVIOUS
<1>1. disk.settings = NoTree /\ disk.varlib = "none" /\ disk.product # "torn"
  BY DEF StorageInit, Factory, Legacy, Disk
<1>2. Phases /\ Restoring /\ Restored  BY DEF StorageInit, Phases, Restoring, Restored
<1>3. UncutSettings  BY <1>1, EmptyWhole DEF StorageInit, UncutSettings, Packed
<1>4. UncutProduct /\ UncutVarLib /\ RefusedCut
  BY <1>1 DEF StorageInit, UncutProduct, UncutVarLib, RefusedCut
<1> QED  BY <1>2, <1>3, <1>4 DEF CopiesInv

\* The steps that may change what is copied; what Interrupted leaves of it.
LEMMA CopiesKept ==
  ASSUME IInv, StorageNext
  PROVE  \/ disk'.settings = disk.settings /\ disk'.product = disk.product
         \/ RemovePath \/ (\E v \in Versions : Use(v)) \/ (\E p \in Places : Backup(p)) \/ Erase \/ RestoreRole
         \/ Refuse \/ CommandFails \/ PowerLoss
<1>1. CASE UNCHANGED disk  BY <1>1
<1>2. CASE Mkfs \/ MachineId \/ VarLib \/ Bootstrap \/ resetDevice \/ Format
  <2>1. CASE VarLib  BY <2>1 DEF VarLib, IInv, StorageTypeOK, Disks
  <2>2. CASE Mkfs \/ MachineId \/ Format  BY <2>2, ZenonT(30) DEF Mkfs, MachineId, Format, IInv, StorageTypeOK, Disks
  <2>3. CASE Bootstrap \/ resetDevice  BY <2>3 DEF Bootstrap, resetDevice, IInv, StorageTypeOK, Disks
  <2> QED  BY <1>2, <2>1, <2>2, <2>3
<1>3. CASE \E mt, ram \in BOOLEAN : Boot(mt, ram)  BY <1>1, <1>3 DEF Boot
<1>4. CASE Mount \/ MountTmpfs \/ ReadJournal \/ Removed \/ PublishBackup \/ Umount \/ Conflict \/ Sync
  BY <1>1, <1>4 DEF Mount, MountTmpfs, ReadJournal, Removed, PublishBackup, Umount, Conflict, Sync
<1>5. CASE \E p \in Places : Reformat(p) \/ Restore(p) \/ \E q \in Places : Carry(p, q)
  BY <1>1, <1>5 DEF Reformat, Restore, Carry
<1> QED  BY <1>2, <1>3, <1>4, <1>5 DEF StorageNext

LEMMA VarLibKept ==
  ASSUME IInv, StorageNext
  PROVE  disk'.varlib = disk.varlib \/ VarLib \/ Erase \/ Refuse \/ CommandFails \/ PowerLoss
<1>1. CASE UNCHANGED disk  BY <1>1
<1>2. CASE Mkfs \/ MachineId \/ Bootstrap \/ resetDevice
  BY <1>2 DEF Mkfs, MachineId, Bootstrap, resetDevice, IInv, StorageTypeOK, Disks
<1>5. CASE Format \/ RemovePath  BY <1>5 DEF Format, RemovePath, IInv, StorageTypeOK, Disks
<1>3. CASE RestoreRole  BY <1>3 DEF RestoreRole, Copied, IInv, StorageTypeOK, Disks
<1>4. CASE (\E v \in Versions : Use(v)) \/ \E p \in Places : Backup(p)
  <2>1. ASSUME NEW v \in Versions, Use(v) PROVE disk'.varlib = disk.varlib
    BY <2>1 DEF Use, IInv, StorageTypeOK, Disks
  <2>2. ASSUME NEW p \in Places, Backup(p) PROVE disk'.varlib = disk.varlib
    BY <2>2 DEF Backup, IInv, StorageTypeOK, Disks
  <2> QED  BY <1>4, <2>1, <2>2
<1> QED
  BY <1>1, <1>2, <1>3, <1>4, <1>5 DEF StorageNext, Boot, Mount, MountTmpfs, ReadJournal, Removed, PublishBackup, Umount,
     Conflict, Sync, Reformat, Restore, Carry

LEMMA PhasesStep == ASSUME IInv, Phases, StorageNext PROVE Phases'
<1>1. CASE \E mt, ram \in BOOLEAN : Boot(mt, ram)  BY <1>1, SMTT(30) DEF Boot, Phases
<1>2. CASE Mount \/ MountTmpfs
  <2>1. step = "mount" /\ step' \in {"mount", "journal", "remove"} /\ UNCHANGED services
    BY <1>2 DEF Mount, MountTmpfs, NextRole, IInv, StorageTypeOK
  <2> QED  BY <2>1 DEF Phases
<1>3. CASE ReadJournal \/ Mkfs \/ RemovePath \/ Removed \/ MachineId \/ VarLib \/ Bootstrap
  BY <1>3, SMTT(30) DEF ReadJournal, Mkfs, RemovePath, Removed, MachineId, VarLib, Bootstrap, Phases
<1>4. CASE resetDevice \/ \E v \in Versions : Use(v)
  <2>1. UNCHANGED <<step, found, resetting, services>>  BY <1>4 DEF resetDevice, Use
  <2> QED  BY <2>1 DEF Phases
<1>5. CASE \E p \in Places : Backup(p) \/ Reformat(p) \/ Restore(p) \/ \E q \in Places : Carry(p, q)
  BY <1>5 DEF Backup, Reformat, Restore, Carry, Phases
<1>6. CASE PublishBackup \/ Umount \/ Erase \/ Format
  <2>1. /\ step \in {"backup", "umount", "erase", "format"} /\ step' \in {"up", "umount", "erase", "format", "restore"}
        /\ UNCHANGED <<found, resetting, services>>
    BY <1>6 DEF PublishBackup, Umount, Erase, Format, Ends, IInv, StorageTypeOK
  <2> QED  BY <2>1 DEF Phases
<1>7. CASE RestoreRole \/ Conflict \/ Sync
  BY <1>7 DEF RestoreRole, Conflict, Sync, Ends, Phases
<1>8. CASE Refuse \/ CommandFails \/ PowerLoss
  BY <1>8 DEF Refuse, CommandFails, PowerLoss, Ends, Phases
<1> QED  BY <1>1, <1>2, <1>3, <1>4, <1>5, <1>6, <1>7, <1>8 DEF StorageNext

LEMMA RestoringStep == ASSUME IInv, Restoring, StorageNext PROVE Restoring'
<1>1. CASE step' \notin {"restore", "copied", "sync"}  BY <1>1 DEF Restoring
<1>2. CASE Format /\ step' = "restore"
  <2>1. verify_archive(archive[where]) /\ source' = archive[where] /\ role' = "factory"
    BY <1>2 DEF Format
  <2> QED  BY <1>2, <2>1 DEF Restoring, verify_archive
<1>3. ASSUME NEW p \in Places, Restore(p) PROVE Restoring'
  <2>1. CASE verify_archive(archive[p]) /\ source' = archive[p] /\ step' = "restore" /\ role' = "factory"
    BY <2>1 DEF Restoring, verify_archive
  <2> QED  BY <1>3, <2>1 DEF Restore, Restoring, verify_archive
<1>4. CASE RestoreRole
  <2>1. /\ step = "restore" /\ role' = role /\ source' = source /\ step' \in {"copied", "sync"}
        /\ role \in {"factory", "state"} /\ verify_archive(source)
    BY <1>4 DEF RestoreRole, Restoring
  <2>2. CASE role = "state"
    <3>1. disk.product = source.product  BY <2>1, <2>2 DEF Restoring
    <3>2. CASE Absent /\ disk' = [disk EXCEPT !.settings = source.settings]
      BY <2>1, <2>2, <3>1, <3>2 DEF Restoring, verify_archive, IInv, StorageTypeOK, Disks
    <3>3. CASE Same /\ disk' = disk
      BY <2>1, <2>2, <3>1, <3>3 DEF Same, Restoring, verify_archive
    <3> QED  BY <1>4, <2>2, <3>2, <3>3 DEF RestoreRole, Placeable, Copied
  <2>3. CASE role = "factory"
    <3>1. disk'.product = source.product
      <4>1. CASE Absent /\ disk' = [disk EXCEPT !.product = source.product]
        BY <4>1 DEF IInv, StorageTypeOK, Disks
      <4>2. CASE Same /\ disk' = disk  BY <2>3, <4>2 DEF Same
      <4> QED  BY <1>4, <2>3, <4>1, <4>2 DEF RestoreRole, Placeable, Copied
    <3> QED  BY <2>1, <2>3, <3>1 DEF Restoring, verify_archive
  <2> QED  BY <2>1, <2>2, <2>3
<1>5. CASE Sync
  BY <1>5 DEF Sync, Ends, Restoring, verify_archive
<1>6. CASE /\ step \notin {"restore", "copied", "sync"}
           /\ ~Format /\ ~(\E p \in Places : Restore(p))
  <2>1. step' \notin {"restore", "copied", "sync"}
    <3>1. CASE \E mt, ram \in BOOLEAN : Boot(mt, ram)  BY <3>1 DEF Boot
    <3>2. CASE Mount \/ MountTmpfs \/ ReadJournal \/ Mkfs \/ RemovePath \/ Removed \/ MachineId \/ VarLib \/ Bootstrap
      BY <1>6, <3>2 DEF Mount, MountTmpfs, NextRole, ReadJournal, Mkfs, RemovePath, Removed, MachineId, VarLib,
         Bootstrap, IInv, StorageTypeOK
    <3>3. CASE resetDevice \/ \E v \in Versions : Use(v)  BY <1>6, <3>3 DEF resetDevice, Use
    <3>4. CASE \E p \in Places : Backup(p) \/ Reformat(p) \/ \E q \in Places : Carry(p, q)
      BY <1>6, <3>4 DEF Backup, Reformat, Carry
    <3>5. CASE PublishBackup \/ Umount \/ Erase \/ Conflict
      BY <3>5 DEF PublishBackup, Umount, Erase, Conflict, Ends, IInv, StorageTypeOK
    <3>6. CASE Refuse \/ CommandFails \/ PowerLoss
      BY <3>6 DEF Refuse, CommandFails, PowerLoss, Ends
    <3>7. ~RestoreRole /\ ~Sync  BY <1>6 DEF RestoreRole, Sync
    <3> QED  BY <1>6, <3>1, <3>2, <3>3, <3>4, <3>5, <3>6, <3>7 DEF StorageNext
  <2> QED  BY <1>1, <2>1
<1>7. CASE Conflict \/ CommandFails \/ PowerLoss \/ Refuse
  BY <1>1, <1>7 DEF Conflict, CommandFails, PowerLoss, Refuse, Ends
<1>8. CASE Format  BY <1>1, <1>2, <1>8 DEF Format
<1>9. CASE step \in {"restore", "copied", "sync"}
  <2>1. RestoreRole \/ Sync \/ Conflict \/ CommandFails \/ PowerLoss
    BY <1>9 DEF StorageNext, Boot, Mount, MountTmpfs, ReadJournal, Mkfs, RemovePath, Removed, MachineId, VarLib,
       Bootstrap, resetDevice, Use, Backup, Reformat, Restore, Carry, PublishBackup, Umount, Erase, Format, Refuse
  <2> QED  BY <1>4, <1>5, <1>7, <2>1
<1> QED  BY <1>3, <1>6, <1>8, <1>9

\* A failure or power loss leaves what was restored alone.
LEMMA RestoredDisk ==
  ASSUME IInv, Restored, restored # NoArchive, NEW d \in Interrupted \cup (IF step = "copied" THEN HalfCopied ELSE {})
  PROVE  d.settings = disk.settings /\ d.product = disk.product
<1>1. step # "copied" /\ ~resetting  BY DEF Restored
<1>2. ~Absent
  <2>1. disk.settings # NoTree /\ disk.product # "none"
    BY DEF Restored, verify_archive, NoTree, Tree
  <2> QED  BY <2>1 DEF Absent
<1>3. d = disk \/ (step = "mkfs" /\ d \in Unformatted)
  BY <1>1, <1>2 DEF Interrupted, Resettable
<1>4. CASE d \in Unformatted
  <2>1. PICK ps : d = [disk EXCEPT !.recordings = FALSE, !.legacy = FALSE, !.parts = ps]
    BY <1>4 DEF Unformatted
  <2> QED  BY <2>1 DEF IInv, StorageTypeOK, Disks
<1> QED  BY <1>3, <1>4

\* What was restored stays as it is, but for a new boot or a new reformat.
LEMMA RestoredStep == ASSUME IInv, Phases, Restoring, Restored, StorageNext PROVE Restored'
<1>1. CASE restored' = NoArchive  BY <1>1 DEF Restored
<1>2. CASE restored' # restored /\ restored' # NoArchive
  <2>1. Sync /\ role = "state" /\ restored' = source
    BY <1>2 DEF StorageNext, Boot, Mount, MountTmpfs, ReadJournal, Mkfs, RemovePath, Removed, MachineId, VarLib,
       Bootstrap, resetDevice, Use, Backup, Reformat, Restore, Carry, PublishBackup, Umount, Erase, Format,
       RestoreRole, Conflict, Sync, Refuse, CommandFails, PowerLoss
  <2>2. /\ step \in {"copied", "sync"} /\ step' = "up" /\ disk' = disk /\ mounted'["state"] = "no"
        /\ UNCHANGED <<found, resetting>>
    BY <2>1 DEF Sync, Ends, Mounted, IInv, StorageTypeOK
  <2> QED  BY <2>1, <2>2 DEF Restored, Restoring, Phases, verify_archive
<1>3. CASE restored' = restored /\ restored # NoArchive
  <2>1. /\ verify_archive(restored) /\ disk.settings = restored.settings /\ disk.product = restored.product
        /\ found = {} /\ ~resetting /\ step # "copied" /\ (mounted["state"] = "disk" => step = "sync" /\ role = "state")
        /\ disk.settings # NoTree /\ disk.product # "none"
    BY <1>3 DEF Restored, verify_archive, NoTree, Tree
  <2>2. ~RemovePath /\ ~Erase /\ ~Mount
    BY <1>3, <2>1 DEF RemovePath, Resettable, Erase, Mount
  <2>3. disk'.settings = disk.settings /\ disk'.product = disk.product
    <3>1. ASSUME NEW v \in Versions, Use(v) PROVE disk'.settings = disk.settings /\ disk'.product = disk.product
      <4>1. mounted["state"] # "disk"  BY <2>1, <3>1 DEF Use
      <4> QED  BY <3>1, <4>1 DEF Use, IInv, StorageTypeOK, Disks
    <3>2. ASSUME NEW p \in Places, Backup(p) PROVE disk'.settings = disk.settings /\ disk'.product = disk.product
      <4>1. mounted["state"] # "disk"  BY <2>1, <3>2 DEF Backup
      <4> QED  BY <3>2, <4>1 DEF Backup, IInv, StorageTypeOK, Disks
    <3>3. CASE RestoreRole  BY <2>1, <3>3 DEF RestoreRole, Absent
    <3>4. CASE Refuse \/ CommandFails
      <4>1. disk' \in Interrupted  BY <3>4 DEF Refuse, CommandFails, Interrupted
      <4> QED  BY <1>3, <4>1, RestoredDisk
    <3>5. CASE PowerLoss
      <4>1. PICK d \in Interrupted \cup (IF step = "copied" THEN HalfCopied ELSE {}), v \in Cached(disk.varlib) :
              disk' = [d EXCEPT !.varlib = v]
        BY <3>5 DEF PowerLoss, PoweredOff
      <4>2. d \in Disks  BY <2>1, <4>1, InterruptedDisk
      <4>3. disk'.settings = d.settings /\ disk'.product = d.product  BY <4>1, <4>2 DEF Disks
      <4> QED  BY <1>3, <4>1, <4>3, RestoredDisk
    <3> QED  BY <2>2, <3>1, <3>2, <3>3, <3>4, <3>5, CopiesKept
  <2>4. CASE RestoreRole
    <3>1. /\ step' = "sync" /\ role' = role /\ UNCHANGED <<found, resetting>> /\ role \in {"factory", "state"}
          /\ mounted' = [mounted EXCEPT ![role] = "disk"] /\ step = "restore"
      BY <2>1, <2>4 DEF RestoreRole, Absent, Mounted, Restoring
    <3> QED  BY <1>3, <2>1, <2>3, <3>1 DEF Restored, IInv, StorageTypeOK, verify_archive
  <2>5. CASE \E mt, ram \in BOOLEAN : Boot(mt, ram)
    <3>1. step = "off" /\ step' = "mount" /\ found' = {} /\ ~resetting' /\ UNCHANGED mounted
      BY <1>3, <2>5 DEF Boot
    <3> QED  BY <1>3, <2>1, <2>3, <3>1 DEF Restored, verify_archive
  <2>6. CASE ~RestoreRole /\ ~(\E mt, ram \in BOOLEAN : Boot(mt, ram))
    <3>1. found' = {}
      BY <2>1, <2>2, <2>6 DEF StorageNext, MountTmpfs, ReadJournal, Mkfs, Removed, MachineId, VarLib,
         Bootstrap, resetDevice, Use, Backup, Reformat, Restore, Carry, PublishBackup, Umount, Format,
         Conflict, Sync, Refuse, CommandFails, PowerLoss
    <3>2. ~resetting'
      BY <2>1, <2>2, <2>6 DEF StorageNext, MountTmpfs, ReadJournal, Intent, Mkfs, Removed, MachineId, VarLib,
         Bootstrap, resetDevice, Use, Backup, Reformat, Restore, Carry, PublishBackup, Umount, Format,
         Conflict, Sync, Refuse, CommandFails, PowerLoss
    <3>3. step' # "copied"
      BY <2>1, <2>2, <2>6 DEF StorageNext, MountTmpfs, NextRole, ReadJournal, Mkfs, Removed, MachineId, VarLib,
         Bootstrap, resetDevice, Use, Backup, Reformat, Restore, Carry, PublishBackup, Umount, Format,
         Conflict, Sync, Refuse, CommandFails, PowerLoss, Ends, IInv, StorageTypeOK
    <3>4. mounted'["state"] # "disk"
      <4>1. CASE MountTmpfs \/ Umount \/ Conflict \/ Sync
        BY <2>1, <4>1 DEF MountTmpfs, Umount, Conflict, Sync, Mounted, IInv, StorageTypeOK
      <4>2. CASE CommandFails
        BY <2>1, <4>2 DEF CommandFails, Mounted, IInv, StorageTypeOK
      <4>3. CASE PowerLoss  BY <4>3 DEF PowerLoss
      <4>4. CASE UNCHANGED mounted /\ step # "sync"  BY <2>1, <4>4
      <4> QED
        BY <2>2, <2>6, <4>1, <4>2, <4>3, <4>4, ZenonT(30) DEF StorageNext, ReadJournal, Mkfs, Removed, MachineId, VarLib,
           Bootstrap, resetDevice, Use, Backup, Reformat, Restore, Carry, PublishBackup, Format, Refuse
    <3> QED  BY <1>3, <2>1, <2>3, <3>1, <3>2, <3>3, <3>4 DEF Restored, verify_archive
  <2> QED  BY <2>4, <2>5, <2>6
<1> QED  BY <1>1, <1>2, <1>3

LEMMA LockedWhole == ASSUME NEW t \in Trees, WholeTree(t), t # NoTree PROVE WholeTree(Locked(t))
BY DEF WholeTree, Locked, Trees

\* Two whole trees of one version without a lock are the same.
LEMMA PackedSame ==
  ASSUME NEW s \in Trees, NEW t \in Trees, Packed(s), Packed(t), s # NoTree, t # NoTree, s.version = t.version
  PROVE  s = t
<1>1. s.files = Documents /\ t.files = Documents  BY DEF Packed, WholeTree, Trees
<1>2. s = [version |-> s.version, files |-> s.files] /\ t = [version |-> t.version, files |-> t.files]
  BY DEF Trees
<1> QED  BY <1>1, <1>2

\* What is recorded as left in part: erasing the disk forgets all but settings,
\* which an archive may hold.
LEMMA CutStep ==
  ASSUME StorageNext
  PROVE  /\ Refuse \/ CommandFails \/ PowerLoss => cut' = cut \cup Half(disk')
         /\ Erase => cut' = cut \cap {"settings"}
         /\ ~Erase => cut \subseteq cut'
<1>1. Refuse \/ CommandFails \/ PowerLoss => cut' = cut \cup Half(disk')  BY DEF Refuse, CommandFails, PowerLoss
<1>2. Erase => cut' = cut \cap {"settings"}  BY DEF Erase
<1>3. ~Erase => cut' = cut \/ cut' = cut \cup Half(disk')
  BY <1>1 DEF StorageNext, Boot, Mount, MountTmpfs, ReadJournal, Mkfs, RemovePath, Removed, MachineId,
     VarLib, Bootstrap, resetDevice, Use, Backup, Reformat, Restore, Carry, PublishBackup, Umount, Format,
     RestoreRole, Conflict, Sync
<1> QED  BY <1>1, <1>2, <1>3

LEMMA HalfOf ==
  ASSUME NEW d
  PROVE  /\ "settings" \notin Half(d) => d.settings \in {disk.settings, source.settings, NoTree}
         /\ d.product = "torn" => "product" \in Half(d)
         /\ d.varlib = "torn" => "varlib" \in Half(d)
BY DEF Half

LEMMA UncutSettingsStep == ASSUME IInv, UncutSettings, StorageNext PROVE UncutSettings'
<1> SUFFICES ASSUME "settings" \notin cut' PROVE UncutSettings'  BY DEF UncutSettings
<1>1. /\ "settings" \notin cut
      /\ Refuse \/ CommandFails \/ PowerLoss => disk'.settings \in {disk.settings, source.settings, NoTree}
  BY CutStep, HalfOf
<1>2. /\ WholeTree(disk.settings) /\ WholeTree(temporary)
      /\ (\A p \in Places : Packed(archive[p].settings)) /\ Packed(source.settings)
  BY <1>1 DEF UncutSettings
<1>4. ASSUME NEW v \in Versions PROVE WholeTree(Locked(Tree(v, Documents)))
  BY DEF WholeTree, Locked, Tree
<1>5. WholeTree(disk'.settings)
  <2>1. CASE RemovePath
    BY <1>2, <2>1, EmptyWhole DEF RemovePath, Packed, IInv, StorageTypeOK, Disks
  <2>2. ASSUME NEW v \in Versions, Use(v) PROVE WholeTree(disk'.settings)
    BY <1>2, <1>4, <2>2 DEF Use, IInv, StorageTypeOK, Disks
  <2>3. ASSUME NEW p \in Places, Backup(p) PROVE WholeTree(disk'.settings)
    <3>1. CASE disk'.settings = Locked(disk.settings) /\ disk.settings # NoTree
      BY <1>2, <3>1, LockedWhole DEF IInv, StorageTypeOK, Disks
    <3> QED  BY <1>2, <2>3, <3>1 DEF Backup, Own, IInv, StorageTypeOK, Disks
  <2>4. CASE Erase  BY <2>4, EmptyWhole DEF Erase, Blank, Disk, Packed
  <2>5. CASE RestoreRole
    <3>1. disk'.settings \in {disk.settings, source.settings}
      BY <2>5 DEF RestoreRole, Copied, IInv, StorageTypeOK, Disks
    <3> QED  BY <1>2, <3>1 DEF Packed
  <2>6. CASE Refuse \/ CommandFails \/ PowerLoss  BY <1>1, <1>2, <2>6, EmptyWhole DEF Packed
  <2> QED  BY <1>2, <2>1, <2>2, <2>3, <2>4, <2>5, <2>6, CopiesKept
<1>6. WholeTree(temporary')
  <2>1. ASSUME NEW v \in Versions, Use(v) PROVE WholeTree(temporary')
    BY <1>2, <1>4, <2>1 DEF Use
  <2>2. ASSUME NEW p \in Places, Backup(p) PROVE WholeTree(temporary')
    <3>1. CASE temporary' = Locked(temporary) /\ temporary # NoTree
      BY <1>2, <3>1, LockedWhole DEF IInv, StorageTypeOK
    <3> QED  BY <1>2, <2>2, <3>1 DEF Backup, Own
  <2>3. CASE temporary' \in {temporary, NoTree}  BY <1>2, <2>3, EmptyWhole DEF Packed
  <2> QED
    BY <2>1, <2>2, <2>3 DEF StorageNext, Boot, Mount, MountTmpfs, ReadJournal, Mkfs, RemovePath, Removed, MachineId,
       VarLib, Bootstrap, resetDevice, Reformat, Restore, Carry, PublishBackup, Umount, Erase, Format,
       RestoreRole, Conflict, Sync, Refuse, CommandFails, PowerLoss, Dropped
<1>7. \A p \in Places : Packed(archive'[p].settings)
  <2>1. CASE PublishBackup
    <3> DEFINE t == [Settings EXCEPT !.files = @ \ {"lock"}]
               a == [settings |-> t, product |-> Product]
    <3>1. Settings \in Trees /\ WholeTree(Settings)
      <4>1. LegacyTree \in Trees /\ WholeTree(LegacyTree)
        BY VersionsAssumption DEF LegacyTree, Tree, Trees, Documents, WholeTree
      <4>2. Own \in Trees /\ WholeTree(Own)
        BY <1>2, Empty, EmptyWhole DEF Own, Packed, IInv, StorageTypeOK, Disks
      <4> QED  BY <4>1, <4>2, Empty, EmptyWhole DEF Settings, Packed
    <3>2. Settings # NoTree
      BY <2>1 DEF PublishBackup, verify_archive, NoTree, Tree
    <3>3. Packed(t)
      <4>1. t.files = Settings.files \ {"lock"}  BY <3>1 DEF Trees
      <4> QED  BY <3>1, <3>2, <4>1 DEF Packed, WholeTree, Documents
    <3>4. archive' = [archive EXCEPT ![where] = a] /\ a.settings = t
      BY <2>1 DEF PublishBackup
    <3> HIDE DEF t, a
    <3> QED  BY <1>2, <3>3, <3>4 DEF IInv, StorageTypeOK
  <2>2. ASSUME NEW p \in Places, NEW q \in Places, Carry(p, q) PROVE \A r \in Places : Packed(archive'[r].settings)
    BY <1>2, <2>2 DEF Carry, IInv, StorageTypeOK
  <2>3. CASE archive' = [archive EXCEPT !.state = NoArchive]
    BY <1>2, <2>3, EmptyWhole DEF IInv, StorageTypeOK
  <2>4. CASE PowerLoss  BY <1>2, <2>4, EmptyWhole DEF PowerLoss, IInv, StorageTypeOK
  <2>5. CASE UNCHANGED archive  BY <1>2, <2>5
  <2> QED
    BY <2>1, <2>2, <2>3, <2>4, <2>5, ZenonT(30) DEF StorageNext, Boot, Mount, MountTmpfs, ReadJournal, Mkfs, RemovePath, Removed,
       MachineId, VarLib, Bootstrap, resetDevice, Use, Backup, Reformat, Restore, Umount, Erase, Format,
       RestoreRole, Conflict, Sync, Refuse, CommandFails, Dropped
<1>8. Packed(source'.settings)
  <2>1. source' \in {source, NoArchive} \cup {archive[p] : p \in Places}
    <3>1. CASE Format  BY <3>1 DEF Format, IInv, StorageTypeOK
    <3>2. ASSUME NEW p \in Places, Restore(p) PROVE source' \in {source, NoArchive} \cup {archive[q] : q \in Places}
      BY <3>2 DEF Restore
    <3> QED
      BY <3>1, <3>2 DEF StorageNext, Boot, Mount, MountTmpfs, ReadJournal, Mkfs, RemovePath, Removed, MachineId,
         VarLib, Bootstrap, resetDevice, Use, Backup, Reformat, Carry, PublishBackup, Umount, Erase,
         RestoreRole, Conflict, Sync, Refuse, CommandFails, PowerLoss, Ends
  <2> QED  BY <1>2, <2>1, EmptyWhole
<1> QED  BY <1>5, <1>6, <1>7, <1>8 DEF UncutSettings

LEMMA UncutProductStep == ASSUME IInv, Restoring, UncutProduct, StorageNext PROVE UncutProduct'
<1>1. CASE Refuse \/ CommandFails \/ PowerLoss  BY <1>1, CutStep, HalfOf DEF UncutProduct
<1>2. CASE Erase  BY <1>2 DEF Erase, Blank, Disk, UncutProduct
<1>3. CASE ~Erase /\ disk'.product \in {disk.product, "whole"}
  BY <1>3, CutStep DEF UncutProduct
<1>4. CASE RemovePath \/ (\E v \in Versions : Use(v)) \/ \E p \in Places : Backup(p)
  <2>1. disk'.product = disk.product  BY <1>4 DEF RemovePath, Use, Backup, IInv, StorageTypeOK, Disks
  <2>2. ~Erase  BY <1>4 DEF Erase, RemovePath, Use, Backup
  <2> QED  BY <1>3, <2>1, <2>2
<1>5. CASE RestoreRole
  <2>1. source.product = "whole" /\ ~Erase  BY <1>5 DEF RestoreRole, Restoring, verify_archive, Erase
  <2>2. disk'.product \in {disk.product, source.product}
    BY <1>5 DEF RestoreRole, Copied, IInv, StorageTypeOK, Disks
  <2> QED  BY <1>3, <2>1, <2>2
<1> QED  BY <1>1, <1>2, <1>3, <1>4, <1>5, CopiesKept

LEMMA RefusedCutStep ==
  ASSUME IInv, Restoring, UncutSettings, UncutProduct, RefusedCut, StorageNext
  PROVE  RefusedCut'
<1>1. CASE Conflict
  <2>1. /\ step = "restore" /\ ~Absent /\ ~Same /\ cut' = cut
        /\ refused' = (role = "state" => disk.settings.version = source.settings.version /\ "lock" \notin disk.settings.files)
    BY <1>1 DEF Conflict, Placeable
  <2>2. disk.settings \in Trees /\ source.settings \in Trees /\ disk.product \in {"none", "torn", "whole"}
    BY DEF IInv, StorageTypeOK, Disks, Archives
  <2>3. source.settings # NoTree /\ source.product = "whole"
    BY <2>1 DEF Restoring, verify_archive, NoTree, Tree
  <2>4. CASE role = "state" /\ refused' /\ "settings" \notin cut
    BY <2>1, <2>2, <2>3, <2>4, PackedSame DEF Absent, Same, Packed, UncutSettings
  <2>5. CASE role # "state"
    BY <2>1, <2>2, <2>3, <2>5 DEF Absent, Same, UncutProduct, RefusedCut
  <2> QED  BY <2>1, <2>4, <2>5 DEF RefusedCut
<1>2. CASE Erase  BY <1>2 DEF Erase, RefusedCut
<1>3. CASE ~Conflict /\ ~Erase
  <2>1. refused' \in {refused, FALSE}
    BY <1>3 DEF StorageNext, Boot, Mount, MountTmpfs, ReadJournal, Mkfs, RemovePath, Removed, MachineId, VarLib,
       Bootstrap, resetDevice, Use, Backup, Reformat, Restore, Carry, PublishBackup, Umount, Format,
       RestoreRole, Sync, Refuse, CommandFails, PowerLoss
  <2> QED  BY <1>3, <2>1, CutStep DEF RefusedCut
<1> QED  BY <1>1, <1>2, <1>3

LEMMA UncutVarLibStep == ASSUME IInv, Phases, UncutVarLib, StorageNext PROVE UncutVarLib'
<1> SUFFICES ASSUME "varlib" \notin cut' PROVE UncutVarLib'  BY DEF UncutVarLib
<1>1. Refuse \/ CommandFails \/ PowerLoss => disk'.varlib # "torn"  BY CutStep, HalfOf
<1>2. ~Erase =>
        /\ disk.varlib = "torn" => step = "fill"
        /\ (step = "bootstrap" \/ services) /\ mounted["state"] = "disk" => disk.varlib \in {"cached", "whole"}
  BY CutStep DEF UncutVarLib
<1>3. disk'.varlib = "torn" => step' = "fill"
  <2>1. CASE VarLib  BY <1>2, <2>1 DEF VarLib, Erase, IInv, StorageTypeOK, Disks
  <2>2. CASE Erase  BY <2>2 DEF Erase, Blank, Disk
  <2>3. CASE ~Erase /\ step # "fill" /\ disk'.varlib = disk.varlib  BY <1>2, <2>3
  <2>4. CASE step = "fill"
    BY <1>1, <2>1, <2>4 DEF StorageNext, Boot, Mount, MountTmpfs, ReadJournal, Mkfs, RemovePath, Removed, MachineId,
       Bootstrap, resetDevice, Use, Backup, Reformat, Restore, Carry, PublishBackup, Umount, Erase, Format,
       RestoreRole, Conflict, Sync, CommandFails
  <2> QED  BY <1>1, <2>1, <2>2, <2>3, <2>4, VarLibKept
<1>4. (step' = "bootstrap" \/ services') /\ mounted'["state"] = "disk" => disk'.varlib \in {"cached", "whole"}
  <2>1. CASE VarLib
    <3>1. CASE step = "fill" /\ disk' = [disk EXCEPT !.varlib = "cached"]
      BY <3>1 DEF IInv, StorageTypeOK, Disks
    <3>2. CASE step = "varlib" /\ ~(mounted["state"] = "disk" /\ disk.varlib = "none") /\ UNCHANGED <<disk, mounted>>
      BY <1>2, <3>2 DEF Erase, IInv, StorageTypeOK, Disks
    <3>3. CASE step' = "fill" /\ UNCHANGED services
      BY <2>1, <3>3 DEF VarLib, Phases
    <3> QED  BY <2>1, <3>1, <3>2, <3>3 DEF VarLib
  <2>2. CASE /\ (step' = "bootstrap" \/ services') => (step = "bootstrap" \/ services) /\ mounted' = mounted
             /\ ~Erase /\ disk'.varlib = disk.varlib
    BY <1>2, <2>2
  <2>3. CASE ~services' /\ step' # "bootstrap"  BY <2>3
  <2>4. CASE Bootstrap \/ resetDevice \/ \E v \in Versions : Use(v)
    <3>1. (step = "bootstrap" \/ services) /\ UNCHANGED mounted /\ ~Erase /\ disk'.varlib = disk.varlib
      BY <2>4 DEF Erase, Bootstrap, resetDevice, Use, IInv, StorageTypeOK, Disks
    <3> QED  BY <2>2, <3>1
  <2>5. CASE ~VarLib /\ ~Bootstrap /\ ~resetDevice /\ ~\E v \in Versions : Use(v)
    <3>1. CASE \E p \in Places, q \in Places : Carry(p, q)
      BY <2>2, <3>1 DEF Carry, Erase
    <3>2. CASE ~\E p \in Places, q \in Places : Carry(p, q)
      <4>1. ~services'
        BY <2>5, <3>2 DEF Phases, StorageNext, Boot, Mount, MountTmpfs, ReadJournal, Mkfs, RemovePath, Removed,
           MachineId, Backup, Reformat, Restore, PublishBackup, Umount, Erase, Format, RestoreRole, Conflict, Sync,
           Refuse, CommandFails, PowerLoss
      <4>2. step' # "bootstrap"
        BY <2>5, <3>2 DEF StorageNext, Boot, Mount, MountTmpfs, NextRole, ReadJournal, Mkfs, RemovePath, Removed,
           MachineId, Backup, Reformat, Restore, PublishBackup, Umount, Erase, Format, RestoreRole, Conflict, Sync,
           Refuse, CommandFails, PowerLoss, Ends, IInv, StorageTypeOK
      <4> QED  BY <4>1, <4>2
    <3> QED  BY <3>1, <3>2
  <2> QED  BY <2>1, <2>4, <2>5
<1> QED  BY <1>3, <1>4 DEF UncutVarLib

LEMMA StutterCopies == ASSUME CopiesInv, UNCHANGED storageVars PROVE CopiesInv'
<1>1. UNCHANGED <<disk, step, role, mounted, temporary, archive, found, resetting, services, source, restored, refused, cut>>
  BY DEF storageVars
<1> QED
  BY <1>1 DEF CopiesInv, Phases, Restoring, Restored, UncutSettings, UncutProduct, UncutVarLib, RefusedCut, WholeTree,
     Packed, verify_archive

\* What restore() and prepare() copy is there whole, but for what an interruption
\* has left in part: for any settings and any number of boots, failures and power
\* losses.
THEOREM CopiesWholeAlways == StorageSpec => []CopiesWhole
<1>1. IInv /\ CopiesInv /\ [StorageNext]_storageVars => CopiesInv'
  BY PhasesStep, RestoringStep, RestoredStep, UncutSettingsStep, UncutProductStep, UncutVarLibStep, RefusedCutStep,
     StutterCopies DEF CopiesInv
<1>2. CopiesInv => CopiesWhole
  BY DEF CopiesInv, Restored, UncutVarLib, RefusedCut, CopiesWhole
<1> QED  BY <1>1, <1>2, InitCopies, IInvAlways, PTL DEF StorageSpec

-----------------------------------------------------------------------------
(* NetworkApply: after a successful network() the links have the settings  *)
(* asked for, and the preferred default route wins.                        *)

\* The settings in hand were validated.
Validated == last \in {"running", "ok"} => validateNetwork(want)

\* Where a call of network() can be.
Phase ==
  /\ pc = "write" => last = "running" /\ (boot => ~up)
  /\ pc = "idle" => last # "running"

\* Files are written in the order of the settings, and stay.
PrefixWritten ==
  pc = "write" => \A k \in 1..(at - 1) : files[want[k].interface] = File(want, k)
AllWritten ==
  last = "ok" \/ (last = "running" /\ pc # "write") =>
    \A k \in DOMAIN want : want[k].interface \in Managed => files[want[k].interface] = File(want, k)

\* networkd has read them, and has configured the links already asked for.
AllLoaded == pc = "links" \/ (last = "ok" /\ up) => loaded = files
PrefixLinked ==
  up => \A k \in DOMAIN want :
    /\ last = "ok" \/ (pc = "links" /\ k < at)
    /\ want[k].interface \in present
    => link[want[k].interface] = loaded[want[k].interface]

ApplyInv == NetworkTypeOK /\ Validated /\ Phase /\ PrefixWritten /\ AllWritten /\ AllLoaded /\ PrefixLinked

-----------------------------------------------------------------------------
\* What renderNetwork() makes is a file of networkd.
LEMMA FileType ==
  ASSUME NEW p \in Seq(Setting), NEW k \in DOMAIN p
  PROVE  File(p, k) \in Rendered
<1>1. p[k] \in Setting
  OBVIOUS
<1>2. metric(p[k], hasPreferred(p)) \in Nat
  BY DEF metric
<1> QED
  BY <1>1, <1>2 DEF File, renderNetwork, Rendered, Setting

LEMMA NothingType == Nothing \in Rendered
BY DEF Nothing, Rendered

\* The type invariant is inductive by itself.
LEMMA TypeInit == NetworkInit => NetworkTypeOK
<1> SUFFICES ASSUME NetworkInit PROVE NetworkTypeOK
  OBVIOUS
<1>1. files \in [Managed -> Rendered] /\ loaded = files /\ link = files
  BY NothingType DEF NetworkInit
<1>2. want \in Seq(Setting)
  BY DEF NetworkInit
<1>3. present \subseteq Managed /\ identity \in [Managed -> Identities]
  BY DEF NetworkInit, Identities
<1>4. up \in BOOLEAN /\ boot \in BOOLEAN
  BY Zenon DEF NetworkInit
<1>5. pc = "idle" /\ at = 1 /\ last = "none"
  BY DEF NetworkInit
<1> QED
  BY <1>1, <1>2, <1>3, <1>4, <1>5 DEF NetworkTypeOK

LEMMA TypeStep == NetworkTypeOK /\ [NetworkNext]_networkVars => NetworkTypeOK'
<1> SUFFICES ASSUME NetworkTypeOK, [NetworkNext]_networkVars PROVE NetworkTypeOK'
  OBVIOUS
<1> USE DEF NetworkTypeOK
<1>1. ASSUME NEW p \in Proposals, NEW b \in BOOLEAN, Network(p, b) PROVE NetworkTypeOK'
  <2>1. p \in Seq(Setting) /\ Len(p) >= 1
    BY NetworkAssumption
  <2> QED
    BY <1>1, <2>1 DEF Network, world
<1>2. ASSUME ReloadNetwork PROVE NetworkTypeOK'
  BY <1>2 DEF ReloadNetwork, world
<1>3. ASSUME WriteFile PROVE NetworkTypeOK'
  <2>1. at \in DOMAIN want /\ File(want, at) \in Rendered
    BY <1>3, FileType DEF WriteFile
  <2>2. files' \in [Managed -> Rendered]
    BY <1>3, <2>1 DEF WriteFile
  <2> QED
    BY <1>3, <2>1, <2>2 DEF WriteFile, Return, Outcome
<1>4. ASSUME Reload PROVE NetworkTypeOK'
  BY <1>4 DEF Reload
<1>5. ASSUME ReconfigureLink PROVE NetworkTypeOK'
  BY <1>5 DEF ReconfigureLink, LastLink, Return, Outcome
<1>6. ASSUME Fail PROVE NetworkTypeOK'
  BY <1>6 DEF Fail, Return, Outcome, world
<1>7. ASSUME StartNetworkd PROVE NetworkTypeOK'
  BY <1>7, NothingType DEF StartNetworkd, Configured, Call
<1>8. ASSUME StopNetworkd PROVE NetworkTypeOK'
  BY <1>8 DEF StopNetworkd, Call
<1>9. ASSUME NEW i \in Managed, NEW h \in Identities, Plug(i, h) PROVE NetworkTypeOK'
  BY <1>9, NothingType DEF Plug, Call
<1>10. ASSUME NEW i \in Managed, Unplug(i) PROVE NetworkTypeOK'
  BY <1>10, NothingType DEF Unplug, Call, Identities
<1>11. ASSUME UNCHANGED networkVars PROVE NetworkTypeOK'
  BY <1>11 DEF networkVars, world
<1> QED
  BY <1>1, <1>2, <1>3, <1>4, <1>5, <1>6, <1>7, <1>8, <1>9, <1>10, <1>11 DEF NetworkNext
-----------------------------------------------------------------------------
(* The other conjuncts, action by action.                                    *)

LEMMA ApplyInvInit == NetworkInit => ApplyInv
<1> SUFFICES ASSUME NetworkInit PROVE ApplyInv
  OBVIOUS
<1>1. DOMAIN want = {}
  BY DEF NetworkInit
<1> QED
  BY <1>1, TypeInit DEF NetworkInit, ApplyInv, Validated, Phase, PrefixWritten, AllWritten, AllLoaded, PrefixLinked

Stages == Validated /\ Phase /\ PrefixWritten /\ AllWritten /\ AllLoaded /\ PrefixLinked

LEMMA InCall ==
  ASSUME ApplyInv, pc # "idle"
  PROVE  at \in Nat /\ 1 <= at /\ at <= Len(want) /\ Len(want) \in Nat /\ DOMAIN want = 1..Len(want) /\ at \in DOMAIN want
<1>1. want \in Seq(Setting) /\ at \in Nat \ {0} /\ at <= Len(want)
  BY DEF ApplyInv, NetworkTypeOK
<1>2. Len(want) \in Nat /\ DOMAIN want = 1..Len(want)
  BY <1>1
<1> QED BY <1>1, <1>2

LEMMA Tables == ApplyInv => DOMAIN files = Managed /\ DOMAIN link = Managed /\ present \subseteq Managed
BY DEF ApplyInv, NetworkTypeOK

LEMMA NetworkStep ==
  ASSUME ApplyInv, NEW p \in Proposals, NEW b \in BOOLEAN, Network(p, b)
  PROVE  Stages'
<1>1. /\ pc' = "write" /\ want' = p /\ at' = 1 /\ last' = "running" /\ boot' = b /\ validateNetwork(p) /\ (b => ~up)
      /\ UNCHANGED <<files, loaded, link, present, up>>
  BY DEF Network, world
<1>2. Validated' /\ Phase'
  BY <1>1 DEF Validated, Phase
<1>3. PrefixWritten' /\ AllWritten' /\ AllLoaded' /\ PrefixLinked'
  BY <1>1 DEF PrefixWritten, AllWritten, AllLoaded, PrefixLinked
<1> QED BY <1>2, <1>3 DEF Stages

LEMMA ReloadNetworkStep ==
  ASSUME ApplyInv, ReloadNetwork
  PROVE  Stages'
BY DEF ApplyInv, NetworkTypeOK, Stages, ReloadNetwork, world, Validated, Phase, PrefixWritten, AllWritten, AllLoaded, PrefixLinked

LEMMA WriteFileStep ==
  ASSUME ApplyInv, WriteFile
  PROVE  Stages'
<1>a. PICK i : i = want[at].interface
  OBVIOUS
<1>b. /\ pc = "write" /\ i \in Managed /\ files' = [files EXCEPT ![i] = File(want, at)]
      /\ UNCHANGED <<loaded, link, present, up>>
  BY <1>a DEF WriteFile, interfacePolicy
<1>c. want' = want /\ boot' = boot
  BY Zenon DEF WriteFile, Return
<1>d. last = "running" /\ (boot => ~up)
  BY <1>b DEF ApplyInv, Phase
<1>e. at \in Nat /\ 1 <= at /\ at <= Len(want) /\ Len(want) \in Nat /\ DOMAIN want = 1..Len(want) /\ at \in DOMAIN want
  BY <1>b, InCall
<1>f. \A k \in 1..(at - 1) : files[want[k].interface] = File(want, k)
  BY <1>b DEF ApplyInv, PrefixWritten
<1>g. validateNetwork(want) /\ \A j, k \in DOMAIN want : want[j].interface = want[k].interface => j = k
  BY <1>d DEF ApplyInv, Validated, validateNetwork
<1>h. DOMAIN files = Managed
  BY Tables
<1>i. at \in Nat /\ Len(want) \in Nat /\ at <= Len(want)
  BY <1>e
<1>1. \A k \in 1..at : files'[want[k].interface] = File(want, k)
  <2> SUFFICES ASSUME NEW k \in 1..at PROVE files'[want[k].interface] = File(want, k)
    OBVIOUS
  <2>1. CASE k = at
    <3>1. files'[i] = File(want, at)
      BY <1>b, <1>h
    <3> QED BY <1>a, <2>1, <3>1
  <2>2. CASE k # at
    <3>1. k \in 1..(at - 1) /\ k \in DOMAIN want
      BY <1>e, <2>2
    <3>2. want[k].interface # i
      BY <1>a, <1>e, <1>g, <2>2, <3>1
    <3>3. files'[want[k].interface] = files[want[k].interface]
      BY <1>b, <3>2
    <3> QED BY <1>f, <3>1, <3>3
  <2> QED BY <2>1, <2>2
<1>2. CASE at < Len(want)
  <2>1. pc' = "write" /\ at' = at + 1 /\ last' = "running"
    <3>1. at # Len(want)
      BY <1>2, <1>i
    <3> QED BY <1>b, <1>d, <3>1, Zenon DEF WriteFile
  <2>2. at' - 1 = at
    BY <1>e, <2>1
  <2>3. Validated' /\ Phase'
    BY <1>b, <1>c, <1>d, <1>g, <2>1 DEF Validated, Phase
  <2>4. PrefixWritten'
    BY <1>1, <1>c, <2>2 DEF PrefixWritten, File
  <2>5. AllWritten' /\ AllLoaded' /\ PrefixLinked'
    BY <2>1 DEF AllWritten, AllLoaded, PrefixLinked
  <2> QED BY <2>3, <2>4, <2>5 DEF Stages
<1>3. CASE at = Len(want)
  <2>1. \A k \in DOMAIN want : files'[want[k].interface] = File(want, k)
    BY <1>1, <1>3, <1>e
  <2>2. ~(at < Len(want))
    BY <1>3, <1>i
  <2>3. AllWritten'
    BY <1>c, <2>1 DEF AllWritten, File
  <2>4. Validated'
    BY <1>c, <1>g DEF Validated
  <2>5. CASE ~boot
    <3>1. pc' = "reload" /\ last' = "running"
      BY <1>d, <2>2, <2>5, Zenon DEF WriteFile
    <3> QED
      BY <2>3, <2>4, <3>1 DEF Stages, Phase, PrefixWritten, AllLoaded, PrefixLinked
  <2>6. CASE boot
    <3>1. pc' = "idle" /\ last' = Outcome(TRUE) /\ ~up'
      <4>1. Return(TRUE)
        BY <2>2, <2>6, Zenon DEF WriteFile
      <4> QED BY <1>b, <1>d, <2>6, <4>1 DEF Return
    <3>2. last' = "ok"
      BY <1>d, <3>1 DEF Outcome
    <3> QED
      BY <2>3, <2>4, <3>1, <3>2 DEF Stages, Phase, PrefixWritten, AllLoaded, PrefixLinked
  <2> QED BY <2>5, <2>6
<1>4. at < Len(want) \/ at = Len(want)
  BY <1>i
<1> QED BY <1>2, <1>3, <1>4

LEMMA ReloadStep ==
  ASSUME ApplyInv, Reload
  PROVE  Stages'
<1>1. /\ pc = "reload" /\ pc' = "links" /\ at' = 1 /\ loaded' = files
      /\ UNCHANGED <<files, link, present, up, want, last>>
  BY DEF Reload
<1>2. Validated' /\ Phase' /\ PrefixWritten' /\ AllLoaded'
  BY <1>1 DEF ApplyInv, Validated, Phase, PrefixWritten, AllLoaded
<1>3. AllWritten'
  BY <1>1 DEF ApplyInv, AllWritten
<1>4. ASSUME up, NEW k \in DOMAIN want, last = "ok" \/ k < 1, want[k].interface \in present
      PROVE  link[want[k].interface] = files[want[k].interface]
  <2>1. k \in 1..Len(want)
    BY <1>1, InCall
  <2>2. last = "ok"
    BY <1>4, <2>1
  <2>3. loaded = files
    BY <1>4, <2>2 DEF ApplyInv, AllLoaded
  <2>4. link[want[k].interface] = loaded[want[k].interface]
    BY <1>4, <2>2 DEF ApplyInv, PrefixLinked
  <2> QED BY <2>3, <2>4
<1>5. PrefixLinked'
  BY <1>1, <1>4 DEF PrefixLinked
<1> QED BY <1>2, <1>3, <1>5 DEF Stages

LEMMA ReconfigureLinkStep ==
  ASSUME ApplyInv, ReconfigureLink
  PROVE  Stages'
<1>i. PICK i : i = want[at].interface
  OBVIOUS
<1>a. pc = "links" /\ up /\ up' = up /\ i \in present /\ want' = want
  BY <1>i, Zenon DEF ReconfigureLink, Return
<1>b. files' = files /\ loaded' = loaded /\ present' = present /\ link' = [link EXCEPT ![i] = loaded[i]]
  BY <1>i DEF ReconfigureLink
<1>c. at \in Nat /\ at <= Len(want) /\ Len(want) \in Nat /\ DOMAIN want = 1..Len(want) /\ at \in DOMAIN want
  BY <1>a, InCall
<1>d. loaded = files
  BY <1>a DEF ApplyInv, AllLoaded
<1>1. /\ pc = "links" /\ up /\ up' = up /\ loaded = files
      /\ want' = want /\ files' = files /\ loaded' = loaded /\ present' = present
  BY <1>a, <1>b, <1>d
<1>2. ASSUME NEW k \in DOMAIN want, last = "ok" \/ k < at \/ k = at, want[k].interface \in present
      PROVE  link'[want[k].interface] = loaded[want[k].interface]
  <2>1. CASE want[k].interface = i
    <3>1. i \in DOMAIN link
      BY <1>a, Tables
    <3> QED BY <1>b, <2>1, <3>1
  <2>2. CASE want[k].interface # i
    <3>1. link'[want[k].interface] = link[want[k].interface]
      BY <1>b, <2>2
    <3>2. k # at
      BY <1>i, <2>2
    <3>3. link[want[k].interface] = loaded[want[k].interface]
      BY <1>2, <1>a, <3>2 DEF ApplyInv, PrefixLinked
    <3> QED BY <3>1, <3>3
  <2> QED BY <2>1, <2>2
<1>3. CASE ~LastLink
  <2>1. pc' = "links" /\ at' = at + 1 /\ last' = last
    BY <1>1, <1>3 DEF ReconfigureLink
  <2>2. PrefixLinked'
    <3>1. \A k \in DOMAIN want : k < at + 1 => k < at \/ k = at
      BY <1>c
    <3> QED BY <1>1, <1>2, <2>1, <3>1 DEF PrefixLinked
  <2> QED
    BY <1>1, <2>1, <2>2 DEF ApplyInv, Stages, Validated, Phase, PrefixWritten, AllWritten, AllLoaded
<1>4. CASE LastLink
  <2>1. pc' = "idle" /\ (last' = "ok" => last \in {"running", "ok"}) /\ last' # "running"
    <3>1. Return(TRUE)
      BY <1>4, Zenon DEF ReconfigureLink
    <3> QED BY <3>1 DEF ApplyInv, NetworkTypeOK, Return, Outcome
  <2>2. \A k \in DOMAIN want : k < at \/ k = at
    BY <1>c, <1>4 DEF LastLink
  <2>3. PrefixLinked'
    BY <1>1, <1>2, <2>1, <2>2 DEF PrefixLinked
  <2> QED
    BY <1>1, <2>1, <2>3 DEF ApplyInv, Stages, Validated, Phase, PrefixWritten, AllWritten, AllLoaded
<1> QED
  BY <1>3, <1>4

LEMMA FailStep ==
  ASSUME ApplyInv, Fail
  PROVE  Stages'
<1>1. pc' = "idle" /\ last' # "running" /\ (last' = "ok" => last = "ok") /\ want' = want /\ UNCHANGED world
  BY DEF ApplyInv, NetworkTypeOK, Fail, Return, Outcome
<1> QED
  BY <1>1 DEF ApplyInv, Stages, world, Validated, Phase, PrefixWritten, AllWritten, AllLoaded, PrefixLinked

LEMMA WorldStep ==
  ASSUME ApplyInv, StartNetworkd \/ StopNetworkd \/ \E i \in Managed : Unplug(i) \/ \E h \in Identities : Plug(i, h)
  PROVE  Stages'
<1> USE DEF ApplyInv, Stages, Call, Validated, Phase
<1>1. ASSUME StartNetworkd PROVE Stages'
  BY <1>1 DEF StartNetworkd, Configured, NetworkTypeOK, PrefixWritten, AllWritten, AllLoaded, PrefixLinked
<1>2. ASSUME StopNetworkd PROVE Stages'
  BY <1>2 DEF StopNetworkd, PrefixWritten, AllWritten, AllLoaded, PrefixLinked
<1>3. ASSUME NEW i \in Managed, NEW h \in Identities, Plug(i, h) PROVE Stages'
  <2>1. PrefixLinked'
    BY <1>3 DEF Plug, NetworkTypeOK, PrefixLinked
  <2> QED
    BY <1>3, <2>1 DEF Plug, PrefixWritten, AllWritten, AllLoaded
<1>4. ASSUME NEW i \in Managed, Unplug(i) PROVE Stages'
  <2>1. PrefixLinked'
    BY <1>4 DEF Unplug, NetworkTypeOK, PrefixLinked
  <2> QED
    BY <1>4, <2>1 DEF Unplug, PrefixWritten, AllWritten, AllLoaded
<1> QED
  BY <1>1, <1>2, <1>3, <1>4

LEMMA ApplyInvStep == ApplyInv /\ [NetworkNext]_networkVars => ApplyInv'
<1> SUFFICES ASSUME ApplyInv, [NetworkNext]_networkVars PROVE ApplyInv'
  OBVIOUS
<1>1. NetworkTypeOK'
  BY TypeStep DEF ApplyInv
<1>2. Stages'
  <2>1. ASSUME UNCHANGED networkVars PROVE Stages'
    BY <2>1 DEF ApplyInv, Stages, networkVars, world, Validated, Phase, PrefixWritten, AllWritten, AllLoaded, PrefixLinked
  <2> QED
    BY <2>1, NetworkStep, ReloadNetworkStep, WriteFileStep, ReloadStep, ReconfigureLinkStep, FailStep,
       WorldStep DEF NetworkNext
<1> QED
  BY <1>1, <1>2 DEF ApplyInv, Stages

LEMMA ApplyInvAlways == NetworkSpec => []ApplyInv
BY ApplyInvInit, ApplyInvStep, PTL DEF NetworkSpec

-----------------------------------------------------------------------------
LEMMA RoutedNow == ApplyInv => Routed
<1> SUFFICES ASSUME ApplyInv, pc = "idle", last = "ok", up, NEW k \in DOMAIN want, want[k].interface \in present
    PROVE link[want[k].interface] = File(want, k)
  BY DEF Routed
<1>1. want[k].interface \in Managed
  BY DEF ApplyInv, NetworkTypeOK
<1> QED
  BY <1>1 DEF ApplyInv, AllWritten, AllLoaded, PrefixLinked

\* What the files of a valid proposal say of the routes.
LEMMA Weights ==
  ASSUME NEW p \in Seq(Setting), validateNetwork(p), NEW j \in DOMAIN p, NEW k \in DOMAIN p,
         p[j].preferred, j # k, DefaultRoute(File(p, k))
  PROVE  DefaultRoute(File(p, j)) /\ Weight(File(p, j)) < Weight(File(p, k))
<1>1. p[j] \in Setting /\ p[k] \in Setting /\ hasPreferred(p)
  BY DEF hasPreferred
<1>2. ~p[k].preferred /\ (p[j].static => p[j].gateway)
  BY <1>1 DEF validateNetwork, OnePreferred
<1>3. ~(p[j].static /\ ~p[j].gateway) /\ DefaultRoute(File(p, j))
  BY <1>1, <1>2 DEF File, renderNetwork, DefaultRoute
<1>4. ~(p[k].static /\ ~p[k].gateway)
  BY <1>1 DEF File, renderNetwork, DefaultRoute
<1>5. File(p, j).metric = 100 /\ File(p, k).metric = 600
  BY <1>1, <1>2, <1>3, <1>4 DEF File, renderNetwork, metric
<1>6. DefaultRoute(File(p, j)) /\ DefaultRoute(File(p, k))
  BY <1>3
<1> QED
  BY <1>5, <1>6 DEF Weight

LEMMA PreferredNow == ApplyInv => PreferredWins
<1> SUFFICES ASSUME ApplyInv, pc = "idle", last = "ok", up, NEW j \in DOMAIN want, NEW k \in DOMAIN want,
                    want[j].preferred, j # k, want[j].interface \in present, want[k].interface \in present,
                    DefaultRoute(link[want[k].interface])
    PROVE /\ DefaultRoute(link[want[j].interface])
          /\ Weight(link[want[j].interface]) < Weight(link[want[k].interface])
  BY DEF PreferredWins
<1>1. link[want[j].interface] = File(want, j) /\ link[want[k].interface] = File(want, k)
  BY RoutedNow DEF Routed
<1>2. want \in Seq(Setting) /\ validateNetwork(want)
  BY DEF ApplyInv, NetworkTypeOK, Validated
<1> QED
  BY <1>1, <1>2, Weights

\* After a successful network() every link that is there has the settings asked
\* for, for any number of interfaces and any sequence of calls, failures,
\* restarts of networkd and changes of hardware.
THEOREM RoutedAlways == NetworkSpec => []Routed
BY ApplyInvAlways, RoutedNow, PTL

\* After a successful network() the default route of the preferred interface has
\* the lowest metric, in the same generality.
THEOREM PreferredWinsAlways == NetworkSpec => []PreferredWins
BY ApplyInvAlways, PreferredNow, PTL
================================================================================
