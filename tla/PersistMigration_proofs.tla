---------------------- MODULE PersistMigration_proofs ----------------------
(***************************************************************************)
(* What convert_to_ext4.sh guarantees for every number of retries, boots   *)
(* and writes.  NoLossWithoutFault alone is not inductive: it does not say *)
(* which partition has the files, and so which one the next command may    *)
(* write.  Where says that for every point of the script, of whatever      *)
(* version the files are; it holds until a command fails half-way through  *)
(* mke2fs persist or the erasure of efs.  Newest adds that they are the    *)
(* newest; it holds until the system writes to persist between two runs of *)
(* an unfinished migration.                                                *)
(***************************************************************************)
EXTENDS PersistMigration, TLAPS

\* persist has not been converted.
OnlyPersist == persist.fs = "f2fs" /\ persist.files # {}

\* The files are in efs, and nothing takes persist for an unconverted one.
InEfs == efs.fs = "ext4" /\ efs.files # {} /\ persist.fs # "f2fs"

\* The migration is done, and no later run of the script copies efs again.
Migrated == persist.fs = "ext4" /\ persist.files # {} /\ efs.fs # "ext4"

\* Which partition holds files, by where the script is.
Where ==
  /\ pc \in {"boot", "mount_all", "up"} => OnlyPersist \/ InEfs \/ Migrated
  /\ pc = "try" => \/ PERSIST_FS = "f2fs" /\ OnlyPersist
                   \/ PERSIST_FS = "ext4" /\ InEfs
  /\ pc \in {"mke2fs_efs", "cp", "diff", "mke2fs_persist"} =>
       PERSIST_FS = "f2fs" /\ OnlyPersist
  /\ pc \in {"diff", "mke2fs_persist"} => efs.fs = "ext4"
  /\ pc \in {"dd", "md5sum", "erase"} => PERSIST_FS = "ext4" /\ InEfs

\* No others are in persist, nor in an efs that is to be copied there.
Newest ==
  /\ persist.files \subseteq {latest}
  /\ persist.fs # "f2fs" /\ efs.fs = "ext4" => efs.files \subseteq {latest}

\* What was compared was equal, and nothing has changed since.
Checked ==
  /\ pc = "mke2fs_persist" => efs.files = persist.files
  /\ pc = "erase" => persist = efs

NothingBroken == faults \cap {"format", "erase"} = {}
IInv == TypeOK /\ Checked /\ (NothingBroken => Where) /\ (faults = {} => Newest)

-----------------------------------------------------------------------------
(* Types *)

\* What an interrupted command leaves is again two partitions.
LEMMA UnfinishedType ==
  ASSUME persist \in Partitions, efs \in Partitions, NEW c, Unfinished(c)
  PROVE  persist' \in Partitions /\ efs' \in Partitions
<1>1. \A fs \in FileSystems : Empty(fs) \in Partitions
  BY DEF Empty, Partitions, Contents
<1>2. TornFormat(persist) \subseteq Partitions /\ TornFormat(efs) \subseteq Partitions
  BY <1>1 DEF TornFormat, FileSystems
<1>3. TornCopy \subseteq Partitions
  BY DEF TornCopy, Partitions, Contents
<1>4. efs.fs \in FileSystems
  BY DEF Partitions
<1>5. TornDd \subseteq Partitions /\ TornErase \subseteq Partitions
  BY <1>1, <1>4 DEF TornDd, TornErase, FileSystems
<1> QED
  BY <1>2, <1>3, <1>5 DEF Unfinished

\* The initial state has the types.
LEMMA TypeInit == Init => TypeOK
BY RetriesAssumption, BoundsAssumption
   DEF Init, TypeOK, Partitions, FileSystems, Contents, Versions, Empty

\* Every step keeps the types.
LEMMA TypeStep == TypeOK /\ [Next]_vars => TypeOK'
<1> SUFFICES ASSUME TypeOK, [Next]_vars PROVE TypeOK'
  OBVIOUS
<1> USE RetriesAssumption, BoundsAssumption
<1>e. \A fs \in FileSystems : Empty(fs) \in Partitions
  BY DEF Empty, Partitions, Contents
<1>1. CASE Start
  <2>1. boots' \in 0..MaxBoots
    BY <1>1 DEF TypeOK, Start
  <2>2. PERSIST_FS' \in {"f2fs", "ext4", "unknown"}
    BY <1>1 DEF Start, get_fs_type
  <2>3. tries' \in 0..Retries /\ pc' \in {"mount_all", "try"}
    BY <1>1 DEF TypeOK, Start
  <2> QED BY <1>1, <2>1, <2>2, <2>3 DEF TypeOK, Start
<1>2. CASE Try
  <2>1. tries' \in 0..Retries
    <3>1. tries \in 0..Retries
      BY DEF TypeOK
    <3>2. tries' = tries \/ (tries > 0 /\ tries' = tries - 1)
      BY <1>2 DEF Try, TriesLeft, OneTryLess
    <3> QED BY <3>1, <3>2
  <2>2. pc' \in {"mke2fs_efs", "dd", "mount_all"}
    BY <1>2 DEF Try
  <2> QED BY <1>2, <2>1, <2>2 DEF TypeOK, Try, Commands
<1>3. CASE FormatEfs
  BY <1>3, <1>e DEF TypeOK, FormatEfs, Then, Commands, FileSystems
<1>4. CASE Copy
  <2>1. TornCopy \subseteq Partitions
    BY DEF TornCopy, TypeOK, Partitions, Contents
  <2> QED BY <1>4, <2>1 DEF TypeOK, Copy, Then, Commands
<1>5. CASE Compare
  BY <1>5 DEF TypeOK, Compare, Then, Commands
<1>6. CASE FormatPersist
  BY <1>6, <1>e DEF TypeOK, FormatPersist, Then, Commands, FileSystems
<1>7. CASE CopyBack
  <2>1. efs.fs \in FileSystems
    BY DEF TypeOK, Partitions
  <2> QED BY <1>7, <2>1, <1>e DEF TypeOK, CopyBack, Then, Commands
<1>8. CASE Checksum
  BY <1>8 DEF TypeOK, Checksum, Then, Commands
<1>9. CASE Erase
  BY <1>9, <1>e DEF TypeOK, Erase, Then, Commands, FileSystems
<1>10. CASE Fail
  <2>1. persist' \in Partitions /\ efs' \in Partitions
    BY <1>10, UnfinishedType DEF Fail, TypeOK
  <2>2. faults' \in SUBSET {"format", "erase", "stale"}
    BY <1>10 DEF Fail, TypeOK
  <2> QED BY <1>10, <2>1, <2>2 DEF TypeOK, Fail, Then, Commands
<1>11. CASE PowerLoss
  <2>1. persist' \in Partitions /\ efs' \in Partitions
    BY <1>11, UnfinishedType DEF PowerLoss, TypeOK
  <2> QED BY <1>11, <2>1 DEF TypeOK, PowerLoss, Then, Commands
<1>12. CASE MountAll
  BY <1>12, <1>e DEF TypeOK, MountAll, Then, Commands, FileSystems
<1>13. CASE SystemWrites
  <2>1. latest' \in Versions
    BY <1>13 DEF SystemWrites, TypeOK, Versions
  <2>2. persist' \in Partitions
    BY <1>13, <2>1 DEF SystemWrites, TypeOK, Partitions, Contents
  <2>3. faults' \in SUBSET {"format", "erase", "stale"}
    BY <1>13 DEF SystemWrites, TypeOK
  <2> QED BY <1>13, <2>1, <2>2, <2>3 DEF TypeOK, SystemWrites
<1>14. CASE Reboot
  BY <1>14 DEF TypeOK, Reboot, Then, Commands
<1>15. CASE UNCHANGED vars
  BY <1>15 DEF TypeOK, vars
<1> QED
  BY <1>1, <1>2, <1>3, <1>4, <1>5, <1>6, <1>7, <1>8, <1>9, <1>10, <1>11, <1>12,
     <1>13, <1>14, <1>15 DEF Next, Script

\* Type correctness.
THEOREM TypeCorrect == Spec => []TypeOK
<1> QED BY TypeInit, TypeStep, PTL DEF Spec

-----------------------------------------------------------------------------
(* Where the files are *)

\* A step into the erasure comes from equal checksums, one into mke2fs persist
\* from equal files.
LEMMA CheckedStep == TypeOK /\ Checked /\ [Next]_vars => Checked'
BY DEF TypeOK, Checked, Next, Script, vars, Start, Try, FormatEfs, Copy, Compare, SameFiles,
       FormatPersist, CopyBack, Checksum, SameChecksum, Erase, Fail, PowerLoss, MountAll,
       SystemWrites, Reboot, Then, Commands

\* No action takes a fault back.
LEMMA FaultsStay == TypeOK /\ [Next]_vars => faults \subseteq faults'
BY DEF TypeOK, Next, Script, vars, Start, Try, FormatEfs, Copy, Compare, FormatPersist,
       CopyBack, Checksum, Erase, Fail, PowerLoss, MountAll, SystemWrites, Reboot

LEMMA EmptyIs == \A fs : Empty(fs).fs = fs /\ Empty(fs).files = {}
BY DEF Empty

\* A step that breaks nothing leads from a place where files are safe to one
\* where they are.
LEMMA WhereStep ==
  ASSUME TypeOK, Checked, Where, [Next]_vars, NothingBroken'
  PROVE  Where'
<1> USE DEF Where
<1>1. CASE Start
  BY <1>1 DEF Start, AlreadyMigrated, get_fs_type, OnlyPersist, InEfs, Migrated
<1>2. CASE Try
  BY <1>2 DEF Try, OnlyPersist, InEfs, Migrated
<1>3. CASE FormatEfs
  BY <1>3 DEF FormatEfs, Then, OnlyPersist
<1>4. CASE Copy
  <2>1. \A e \in TornCopy : e.fs = efs.fs
    BY DEF TornCopy, TypeOK, Partitions
  <2> QED BY <1>4, <2>1 DEF Copy, Then, OnlyPersist
<1>5. CASE Compare
  BY <1>5 DEF Compare, SameFiles, Then, OnlyPersist
<1>6. CASE FormatPersist
  BY <1>6 DEF FormatPersist, Then, Checked, OnlyPersist, InEfs, Empty
<1>7. CASE CopyBack
  BY <1>7 DEF CopyBack, Then, InEfs, Empty
<1>8. CASE Checksum
  BY <1>8 DEF Checksum, Then, InEfs
<1>9. CASE Erase
  BY <1>9 DEF Erase, Checked, Then, InEfs, Migrated, Empty
<1>10. CASE Fail
  <2>1. PERSIST_FS' = PERSIST_FS /\ pc' = "try"
    BY <1>10 DEF Fail, Then
  <2>2. CASE pc \in {"mke2fs_efs", "cp"}
    BY <1>10, <2>1, <2>2 DEF Fail, Unfinished, OnlyPersist
  <2>3. CASE pc \in {"diff", "md5sum"}
    BY <1>10, <2>1, <2>3 DEF Fail, Unfinished, OnlyPersist, InEfs
  <2>4. CASE pc = "mke2fs_persist"
    BY <1>10, <2>1, <2>4 DEF Fail, Unfinished, OnlyPersist, NothingBroken
  <2>5. CASE pc = "dd"
    BY <1>10, <2>1, <2>5 DEF Fail, Unfinished, TornDd, Empty, InEfs
  <2>6. CASE pc = "erase"
    BY <1>10, <2>1, <2>6 DEF Fail, Unfinished, InEfs, NothingBroken
  <2> QED BY <1>10, <2>2, <2>3, <2>4, <2>5, <2>6 DEF Fail, Commands
<1>11. CASE PowerLoss
  <2>1. pc' = "boot"
    BY <1>11 DEF PowerLoss, Then
  <2>2. CASE pc \in {"mke2fs_efs", "cp"}
    BY <1>11, <2>1, <2>2 DEF PowerLoss, Unfinished, OnlyPersist
  <2>3. CASE pc \in {"diff", "md5sum", "try", "mount_all"}
    <3>1. persist' = persist /\ efs' = efs
      BY <1>11, <2>3 DEF PowerLoss, Unfinished
    <3> QED BY <2>1, <2>3, <3>1 DEF OnlyPersist, InEfs, Migrated
  <2>4. CASE pc = "mke2fs_persist"
    <3>1. efs' = efs /\ persist' \in TornFormat(persist)
      BY <1>11, <2>4 DEF PowerLoss, Unfinished
    <3>2. persist' = persist \/ persist'.fs \in {"damaged", "wiped", "ext4"}
      BY <3>1, EmptyIs DEF TornFormat
    <3>3. efs.files # {}
      BY <2>4 DEF Checked, OnlyPersist
    <3>4. OnlyPersist' \/ InEfs'
      BY <2>4, <3>1, <3>2, <3>3 DEF OnlyPersist, InEfs
    <3> QED BY <2>1, <3>4
  <2>5. CASE pc = "dd"
    BY <1>11, <2>1, <2>5 DEF PowerLoss, Unfinished, TornDd, Empty, InEfs
  <2>6. CASE pc = "erase"
    BY <1>11, <2>1, <2>6 DEF PowerLoss, Unfinished, TornErase, Checked, Empty, InEfs, Migrated
  <2> QED BY <1>11, <2>2, <2>3, <2>4, <2>5, <2>6 DEF PowerLoss, Commands
<1>12. CASE MountAll
  BY <1>12 DEF MountAll, Empty, Then, OnlyPersist, InEfs, Migrated
<1>13. CASE SystemWrites
  <2>1. persist'.fs = persist.fs /\ persist'.files # {} /\ efs' = efs
    BY <1>13 DEF SystemWrites, TypeOK, Partitions
  <2> QED BY <1>13, <2>1 DEF SystemWrites, OnlyPersist, InEfs, Migrated
<1>14. CASE Reboot
  BY <1>14 DEF Reboot, Then, OnlyPersist, InEfs, Migrated
<1>15. CASE UNCHANGED vars
  BY <1>15 DEF vars, OnlyPersist, InEfs, Migrated
<1> QED
  BY <1>1, <1>2, <1>3, <1>4, <1>5, <1>6, <1>7, <1>8, <1>9, <1>10, <1>11, <1>12,
     <1>13, <1>14, <1>15 DEF Next, Script

-----------------------------------------------------------------------------
(* How the files move *)

\* What a step that is not the system's does to the files: some are lost, or
\* one partition gets those of the other.
Fewer ==
  /\ persist'.files \in {persist.files, {}}
  /\ efs'.files \in {efs.files, {}}
Copied ==
  \/ persist'.files = efs.files /\ efs' = efs /\ pc = "dd"
  \/ efs'.files = persist.files /\ persist' = persist

\* What is left by a command that did not finish.
LEMMA UnfinishedFiles ==
  ASSUME TypeOK, pc \in Commands \cup {"try", "mount_all"}, Unfinished(pc)
  PROVE  /\ Fewer \/ Copied
         /\ pc = "mke2fs_persist" => efs' = efs
         /\ pc = "erase" => persist' = persist
<1> USE DEF Unfinished, Fewer, Copied
<1>1. CASE pc = "mke2fs_efs"
  <2>1. persist' = persist /\ efs' \in TornFormat(efs)
    BY <1>1
  <2> QED BY <1>1, <2>1, EmptyIs DEF TornFormat
<1>2. CASE pc = "cp"
  <2>1. persist' = persist /\ efs' \in TornCopy
    BY <1>2
  <2>2. efs'.files \in {{}, persist.files}
    BY <2>1 DEF TornCopy, TypeOK, Partitions
  <2> QED BY <1>2, <2>1, <2>2
<1>3. CASE pc = "mke2fs_persist"
  <2>1. efs' = efs /\ persist' \in TornFormat(persist)
    BY <1>3
  <2> QED BY <1>3, <2>1, EmptyIs DEF TornFormat
<1>4. CASE pc = "dd"
  <2>1. efs' = efs /\ persist' \in TornDd
    BY <1>4
  <2> QED BY <1>4, <2>1, EmptyIs DEF TornDd
<1>5. CASE pc = "erase"
  <2>1. persist' = persist /\ efs' \in TornErase
    BY <1>5
  <2> QED BY <1>5, <2>1, EmptyIs DEF TornErase
<1>6. CASE pc \in {"diff", "md5sum", "try", "mount_all"}
  BY <1>6
<1> QED BY <1>1, <1>2, <1>3, <1>4, <1>5, <1>6 DEF Commands

\* Only the system changes files; all other steps lose or copy some.
LEMMA FilesMove ==
  ASSUME TypeOK, Next, ~SystemWrites
  PROVE  latest' = latest /\ (Fewer \/ Copied) /\ ("stale" \in faults' <=> "stale" \in faults)
<1>1. CASE Start \/ Try \/ Compare \/ Checksum \/ Reboot
  BY <1>1 DEF Start, Try, Compare, Checksum, Reboot, Then, Fewer
<1>2. CASE FormatEfs
  BY <1>2, EmptyIs DEF FormatEfs, Then, Fewer
<1>3. CASE Copy
  <2>1. efs'.files \in {{}, persist.files}
    BY <1>3 DEF Copy, TornCopy, TypeOK, Partitions
  <2> QED BY <1>3, <2>1 DEF Copy, Then, Fewer, Copied
<1>4. CASE FormatPersist
  BY <1>4, EmptyIs DEF FormatPersist, Then, Fewer
<1>5. CASE CopyBack
  BY <1>5, EmptyIs DEF CopyBack, Then, Fewer, Copied
<1>6. CASE Erase
  BY <1>6, EmptyIs DEF Erase, Then, Fewer
<1>7. CASE Fail
  <2>1. pc \in Commands /\ Unfinished(pc) /\ latest' = latest
    BY <1>7 DEF Fail, Then
  <2>2. "stale" \in faults' <=> "stale" \in faults
    BY <1>7 DEF Fail, TypeOK
  <2> QED BY <2>1, <2>2, UnfinishedFiles
<1>8. CASE PowerLoss
  <2>1. /\ pc \in Commands \cup {"try", "mount_all"} /\ Unfinished(pc)
        /\ latest' = latest /\ faults' = faults
    BY <1>8 DEF PowerLoss, Then
  <2> QED BY <2>1, UnfinishedFiles
<1>9. CASE MountAll
  BY <1>9, EmptyIs DEF MountAll, Then, Fewer
<1> QED
  BY <1>1, <1>2, <1>3, <1>4, <1>5, <1>6, <1>7, <1>8, <1>9 DEF Next, Script

LEMMA WritesFiles ==
  ASSUME TypeOK, SystemWrites
  PROVE  /\ latest' = latest + 1 /\ persist'.files = {latest'} /\ persist'.fs = persist.fs
         /\ efs' = efs
         /\ "stale" \in faults' <=> "stale" \in faults \/ (persist.fs = "ext4" /\ efs.fs = "ext4")
         /\ NothingBroken' <=> NothingBroken
BY DEF SystemWrites, TypeOK, Partitions, NothingBroken

\* An unconverted persist is only written by the commands that convert it, and
\* an efs that becomes ext4 is empty.
LEMMA FileSystemsStay ==
  ASSUME TypeOK, Next, ~SystemWrites
  PROVE  /\ persist.fs = "f2fs" /\ pc \notin {"mke2fs_persist", "dd"} => persist'.fs = "f2fs"
         /\ efs'.fs = "ext4" => efs.fs = "ext4" \/ efs'.files = {}
<1>1. CASE Start \/ Try \/ Compare \/ Checksum \/ Reboot
  BY <1>1 DEF Start, Try, Compare, Checksum, Reboot, Then
<1>2. CASE FormatEfs \/ Erase
  BY <1>2, EmptyIs DEF FormatEfs, Erase, Then
<1>3. CASE Copy
  BY <1>3 DEF Copy, Then
<1>4. CASE FormatPersist \/ CopyBack
  BY <1>4 DEF FormatPersist, CopyBack, Then
<1>5. CASE Fail \/ PowerLoss
  <2>1. pc \in Commands \cup {"try", "mount_all"} /\ Unfinished(pc)
    BY <1>5 DEF Fail, PowerLoss
  <2>2. CASE pc = "mke2fs_efs"
    <3>1. persist' = persist /\ efs' \in TornFormat(efs)
      BY <2>1, <2>2 DEF Unfinished
    <3> QED BY <3>1, EmptyIs DEF TornFormat
  <2>3. CASE pc = "cp"
    <3>1. persist' = persist /\ efs'.fs = efs.fs
      BY <2>1, <2>3 DEF Unfinished, TornCopy, TypeOK, Partitions
    <3> QED BY <3>1
  <2>4. CASE pc = "erase"
    <3>1. persist' = persist /\ efs' \in TornErase
      BY <2>1, <2>4 DEF Unfinished
    <3> QED BY <3>1, EmptyIs DEF TornErase
  <2>5. CASE pc \in {"diff", "md5sum", "mke2fs_persist", "dd", "try", "mount_all"}
    BY <2>1, <2>5 DEF Unfinished
  <2> QED BY <2>1, <2>2, <2>3, <2>4, <2>5 DEF Commands
<1>6. CASE MountAll
  BY <1>6, EmptyIs DEF MountAll, Then
<1> QED BY <1>1, <1>2, <1>3, <1>4, <1>5, <1>6 DEF Next, Script

\* What is copied back to persist is the newest.
LEMMA NewestStep ==
  ASSUME TypeOK, Checked, Where, Newest, [Next]_vars, faults' = {}
  PROVE  Newest'
<1> USE DEF Newest
<1>1. CASE SystemWrites
  <2>1. persist.fs \in {"ext4", "f2fs"}
    BY <1>1 DEF SystemWrites
  <2> QED BY <1>1, <2>1, WritesFiles
<1>2. CASE UNCHANGED vars
  BY <1>2 DEF vars
<1>3. CASE Next /\ ~SystemWrites
  <2>1. latest' = latest /\ (Fewer \/ Copied)
    BY <1>3, FilesMove
  <2>2. persist'.files \subseteq {latest}
    BY <2>1 DEF Fewer, Copied, Where, InEfs
  <2>3. CASE efs'.files \subseteq {latest}
    BY <2>1, <2>2, <2>3
  <2>4. CASE ~(efs'.files \subseteq {latest})
    <3>1. efs'.files = efs.files /\ efs'.files # {}
      BY <2>1, <2>4 DEF Fewer, Copied
    <3>2. pc \notin {"mke2fs_persist", "dd"}
      BY <2>4, <3>1 DEF Checked, Where, InEfs
    <3>3. ~(persist'.fs # "f2fs" /\ efs'.fs = "ext4")
      BY <1>3, <2>4, <3>1, <3>2, FileSystemsStay
    <3> QED BY <2>1, <2>2, <3>3
  <2> QED BY <2>3, <2>4
<1> QED BY <1>1, <1>2, <1>3

\* The inductive invariant.
THEOREM Invariant == Spec => []IInv
<1>1. Init => IInv
  <2> SUFFICES ASSUME Init PROVE IInv
    OBVIOUS
  <2>1. Where /\ Checked
    BY DEF Init, Checked, Where, OnlyPersist
  <2>2. Newest
    BY DEF Init, Newest
  <2> QED BY <2>1, <2>2, TypeInit DEF IInv
<1>2. IInv /\ [Next]_vars => IInv'
  <2> SUFFICES ASSUME IInv, [Next]_vars PROVE IInv'
    OBVIOUS
  <2>1. TypeOK' /\ Checked' /\ faults \subseteq faults'
    BY TypeStep, CheckedStep, FaultsStay DEF IInv
  <2>2. NothingBroken' => Where'
    BY <2>1, WhereStep DEF IInv, NothingBroken
  <2>3. faults' = {} => Newest'
    BY <2>1, NewestStep DEF IInv, NothingBroken
  <2> QED BY <2>1, <2>2, <2>3 DEF IInv
<1> QED BY <1>1, <1>2, PTL DEF Spec

-----------------------------------------------------------------------------
(* What follows *)

LEMMA NewestAreKept ==
  ASSUME IInv, faults = {}
  PROVE  NoLossWithoutFault
<1>1. /\ Where /\ Newest /\ Checked
      /\ pc \in Commands \cup {"boot", "try", "mount_all", "up"}
  BY DEF IInv, TypeOK, NothingBroken
<1>2. OnlyPersist \/ InEfs \/ Migrated
  BY <1>1 DEF Where, Commands
<1>3. FilesExist
  BY <1>1, <1>2 DEF FilesExist, OnlyPersist, InEfs, Migrated, Newest
<1>4. pc \in {"dd", "md5sum", "erase"} => latest \in efs.files
  BY <1>1 DEF Where, InEfs, Newest
<1>5. pc = "mke2fs_persist" => latest \in efs.files
  BY <1>1, <1>3 DEF Checked, FilesExist
<1> QED BY <1>1, <1>3, <1>4, <1>5 DEF NoLossWithoutFault, Newest

\* However often the power is lost and whichever commands fail, the newest
\* files are whole on one of the partitions, and on efs while persist's are
\* given up, and no older ones come back to persist, unless one of the three
\* faults happened (convert_to_ext4.sh:63-178).
THEOREM NewestFilesSurvive == Spec => []NoLossWithoutFault
<1>1. IInv => NoLossWithoutFault
  BY NewestAreKept DEF NoLossWithoutFault
<1> QED BY <1>1, Invariant, PTL

\* efs is written at the end of a run only if persist is the same as it,
\* whatever has failed before (convert_to_ext4.sh:162-170).
THEOREM OnlyACopyIsErased == Spec => EraseOnlyACopy
<1>1. IInv /\ [Next]_vars => [pc = "erase" /\ efs' # efs => persist = efs]_vars
  BY DEF IInv, Checked
<1> QED BY <1>1, Invariant, PTL DEF Spec, EraseOnlyACopy

-----------------------------------------------------------------------------
(* KeptFiles is implemented *)

\* A step leaves files on a partition unless something was broken before,
\* even if it breaks something itself.
LEMMA StepKeepsSome ==
  ASSUME IInv, Next, ~SystemWrites, NothingBroken
  PROVE  persist'.files \cup efs'.files # {}
<1>1. TypeOK /\ Checked /\ Where /\ TypeOK'
  BY TypeStep DEF IInv
<1>2. CASE NothingBroken'
  <2>1. Where' /\ pc' \in Commands \cup {"boot", "try", "mount_all", "up"}
    BY <1>1, <1>2, WhereStep DEF TypeOK
  <2>2. OnlyPersist' \/ InEfs' \/ Migrated'
    BY <2>1 DEF Where, Commands
  <2> QED BY <2>2 DEF OnlyPersist, InEfs, Migrated
<1>3. CASE ~NothingBroken'
  <2>1. Fail
    BY <1>3 DEF NothingBroken, Next, Script, Start, Try, FormatEfs, Copy, Compare, FormatPersist,
                CopyBack, Checksum, Erase, PowerLoss, MountAll, Reboot
  <2>2. pc \in {"mke2fs_persist", "erase"} /\ Unfinished(pc)
    BY <1>3, <2>1 DEF Fail, Then, NothingBroken
  <2>3. CASE pc = "mke2fs_persist"
    BY <1>1, <2>2, <2>3, UnfinishedFiles DEF Where, Checked, OnlyPersist, Commands
  <2>4. CASE pc = "erase"
    BY <1>1, <2>2, <2>4, UnfinishedFiles DEF Where, Checked, InEfs, Commands
  <2> QED BY <2>2, <2>3, <2>4
<1> QED BY <1>2, <1>3

\* And the newest, unless there was a fault before.
LEMMA StepKeepsNewest ==
  ASSUME IInv, Next, ~SystemWrites, faults = {}
  PROVE  latest' \in persist'.files \cup efs'.files /\ persist'.files \subseteq {latest'}
<1>1. TypeOK /\ Checked /\ Where /\ Newest
  BY DEF IInv, NothingBroken
<1>2. CASE faults' = {}
  <2>1. IInv'
    BY <1>1, <1>2, TypeStep, CheckedStep, WhereStep, NewestStep DEF IInv, NothingBroken
  <2>2. (IInv /\ faults = {} => NoLossWithoutFault)'
    BY NewestAreKept, PTL
  <2> QED BY <1>2, <2>1, <2>2 DEF NoLossWithoutFault, FilesExist
<1>3. CASE faults' # {}
  <2>1. Fail
    BY <1>3 DEF Next, Script, Start, Try, FormatEfs, Copy, Compare, FormatPersist, CopyBack,
                Checksum, Erase, PowerLoss, MountAll, Reboot
  <2>2. pc \in {"mke2fs_persist", "erase"} /\ Unfinished(pc) /\ latest' = latest
    BY <1>3, <2>1 DEF Fail, Then
  <2>3. persist'.files \cup efs'.files # {} /\ (Fewer \/ Copied)
    BY <1>1, <2>2, StepKeepsSome, FilesMove DEF NothingBroken
  <2>4. CASE pc = "mke2fs_persist"
    BY <1>1, <2>2, <2>3, <2>4, UnfinishedFiles DEF Newest, Checked, Fewer, Copied, Commands
  <2>5. CASE pc = "erase"
    BY <1>1, <2>2, <2>3, <2>5, UnfinishedFiles DEF Newest, Checked, Fewer, Copied, Commands
  <2> QED BY <2>2, <2>4, <2>5
<1> QED BY <1>2, <1>3

\* A step of the system is a change.
LEMMA WriteIsChange ==
  ASSUME IInv, SystemWrites
  PROVE  Store!Change
<1>1. /\ latest' = latest + 1 /\ persist'.files = {latest'} /\ efs' = efs
      /\ NothingBroken' <=> NothingBroken
      /\ "stale" \in faults' <=> "stale" \in faults \/ (persist.fs = "ext4" /\ efs.fs = "ext4")
  BY WritesFiles DEF IInv
<1>2. ("stale" \in faults)' \in {"stale" \in faults, TRUE}
  <2>1. CASE "stale" \in faults'
    <3>1. ("stale" \in faults') = TRUE
      BY <2>1
    <3> QED BY <3>1
  <2>2. CASE "stale" \notin faults'
    <3>1. ("stale" \in faults') = ("stale" \in faults)
      BY <1>1, <2>2
    <3> QED BY <3>1
  <2> QED BY <2>1, <2>2
<1>3. (latest \notin persist.files /\ NothingBroken) => "stale" \in faults'
  <2> SUFFICES ASSUME latest \notin persist.files, NothingBroken, "stale" \notin faults
               PROVE  persist.fs = "ext4" /\ efs.fs = "ext4"
    BY <1>1
  <2>1. faults = {}
    BY DEF NothingBroken, IInv, TypeOK
  <2>2. Where /\ Newest /\ pc = "up" /\ persist.fs \in {"ext4", "f2fs"}
    BY <2>1 DEF IInv, SystemWrites
  <2> QED BY <2>2 DEF Where, Newest, OnlyPersist, InEfs, Migrated
<1> QED BY <1>1, <1>2, <1>3 DEF Store!Change, NothingBroken

\* Every other step moves files or gives some up.
LEMMA MoveIsAllowed ==
  ASSUME IInv, Next, ~SystemWrites
  PROVE  Store!Move
<1>1. /\ latest' = latest /\ (Fewer \/ Copied)
      /\ "stale" \in faults' <=> "stale" \in faults
  BY FilesMove DEF IInv
<1>2. faults \subseteq faults'
  BY FaultsStay DEF IInv
<1>3. Store!GiveUp \/ Store!Copy
  BY <1>1 DEF Fewer, Copied, Store!GiveUp, Store!Copy
<1>4. NothingBroken => persist'.files \cup efs'.files # {}
  BY StepKeepsSome
<1>5. NothingBroken /\ "stale" \notin faults
        => latest \in persist'.files \cup efs'.files /\ persist'.files \subseteq {latest}
  <2>1. NothingBroken /\ "stale" \notin faults => faults = {}
    BY DEF NothingBroken, IInv, TypeOK
  <2> QED BY <1>1, <2>1, StepKeepsNewest
<1>6. (~NothingBroken)' \in {~NothingBroken, TRUE}
  BY <1>2 DEF NothingBroken
<1>7. ("stale" \in faults)' = ("stale" \in faults)
  BY <1>1
<1> QED BY <1>1, <1>3, <1>4, <1>5, <1>6, <1>7 DEF Store!Move, NothingBroken

\* The two partitions keep the files as KeptFiles promises, however often the
\* power is lost and whichever commands fail: the newest while no fault has
\* happened, some whole version when the system has written between two runs
\* of an unfinished migration, and no fault loses the last one by itself
\* (convert_to_ext4.sh:42-178).
THEOREM MigrationKeepsFiles == Spec => KeepsNewest
<1>1. Init => Store!Init
  <2> SUFFICES ASSUME Init PROVE Store!Init
    OBVIOUS
  <2>1. latest = 0 /\ persist.files = {0} /\ efs.files = {} /\ faults = {}
    BY EmptyIs DEF Init
  <2> QED BY <2>1 DEF Store!Init
<1>2. IInv /\ [Next]_vars => [Store!Next]_(Store!vars)
  <2> SUFFICES ASSUME IInv, [Next]_vars
               PROVE  Store!Next \/ UNCHANGED Store!vars
    OBVIOUS
  <2>1. CASE Next /\ ~SystemWrites
    BY <2>1, MoveIsAllowed DEF Store!Next
  <2>2. CASE SystemWrites
    BY <2>2, WriteIsChange DEF Store!Next
  <2>3. CASE UNCHANGED vars
    BY <2>3 DEF vars, Store!vars
  <2> QED BY <2>1, <2>2, <2>3
<1> QED BY <1>1, <1>2, Invariant, PTL DEF Spec, KeepsNewest, Store!Spec

-----------------------------------------------------------------------------
(* A run of the script comes to its end *)

\* How many steps a run has left at most: a try is seven commands, of which the
\* later ones are left when the earlier ones are done.
StepsOfTry(command) ==
  CASE command = "mke2fs_efs" -> 9 [] command = "cp" -> 8 [] command = "diff" -> 7
    [] command = "mke2fs_persist" -> 6 [] command = "dd" -> 5 [] command = "md5sum" -> 4
    [] command = "erase" -> 3 [] OTHER -> 1
StepsLeft == IF pc \in Commands \cup {"try"} THEN 10 * tries + StepsOfTry(pc) ELSE 0

\* Retries and failures included, a run has a bounded number of steps.
RunIsBounded == StepsLeft \in 0..(10 * Retries + 9)

\* Every step of a run brings it nearer to its end, and none from outside takes
\* it further away.
RunGoesOn ==
  /\ Script => StepsLeft' < StepsLeft
  /\ StepsLeft' <= StepsLeft

LEMMA StepsOfCommands ==
  /\ StepsOfTry("mke2fs_efs") = 9 /\ StepsOfTry("cp") = 8 /\ StepsOfTry("diff") = 7
  /\ StepsOfTry("mke2fs_persist") = 6 /\ StepsOfTry("dd") = 5 /\ StepsOfTry("md5sum") = 4
  /\ StepsOfTry("erase") = 3 /\ StepsOfTry("try") = 1
BY DEF StepsOfTry

LEMMA StepsInRange ==
  /\ \A c \in Commands : StepsOfTry(c) \in 3..9
  /\ \A c \in Commands \cup {"try"} : StepsOfTry(c) \in 1..9
BY StepsOfCommands DEF Commands

LEMMA BoundOfRun == TypeOK => RunIsBounded
<1> SUFFICES ASSUME TypeOK PROVE StepsLeft \in 0..(10 * Retries + 9)
  BY DEF RunIsBounded
<1>1. tries \in 0..Retries
  BY DEF TypeOK
<1>2. CASE pc \in Commands \cup {"try"}
  <2>1. StepsLeft = 10 * tries + StepsOfTry(pc) /\ StepsOfTry(pc) \in 1..9
    BY <1>2, StepsInRange DEF StepsLeft
  <2> QED BY <1>1, <2>1, RetriesAssumption
<1>3. CASE pc \notin Commands \cup {"try"}
  BY <1>3, RetriesAssumption DEF StepsLeft
<1> QED BY <1>2, <1>3

\* On to a later command of the try, or back to the next try.
LEMMA StepOfTry ==
  ASSUME tries \in Nat, tries' = tries,
         pc \in Commands, pc' \in Commands \cup {"try"},
         StepsOfTry(pc') < StepsOfTry(pc)
  PROVE  StepsLeft' < StepsLeft
<1>1. /\ StepsLeft = 10 * tries + StepsOfTry(pc)
      /\ StepsLeft' = 10 * tries' + StepsOfTry(pc')
  BY DEF StepsLeft
<1>2. StepsOfTry(pc) \in 1..9 /\ StepsOfTry(pc') \in 1..9
  BY StepsInRange
<1> QED BY <1>1, <1>2

\* The script itself: a step to a later command, to another try or to the end.
LEMMA StepOfScript ==
  ASSUME TypeOK, Script, pc # "boot"
  PROVE  StepsLeft' < StepsLeft
<1>1. tries \in Nat
  BY RetriesAssumption DEF TypeOK
<1>2. CASE Try
  <2>1. StepsLeft = 10 * tries + 1
    BY <1>2, StepsOfCommands DEF Try, StepsLeft
  <2>2. CASE TriesLeft
    <3>1. tries' = tries - 1 /\ pc' \in Commands
      BY <1>2, <2>2 DEF Try, OneTryLess, Commands
    <3>2. StepsLeft' = 10 * tries' + StepsOfTry(pc') /\ StepsOfTry(pc') \in 1..9
      BY <3>1, StepsInRange DEF StepsLeft
    <3> QED BY <1>1, <2>1, <3>1, <3>2
  <2>3. CASE ~TriesLeft
    <3>1. StepsLeft' = 0
      BY <1>2, <2>3 DEF Try, StepsLeft, Commands
    <3> QED BY <1>1, <2>1, <3>1
  <2> QED BY <2>2, <2>3
<1>3. CASE Fail
  <2>1. pc \in Commands /\ pc' = "try" /\ tries' = tries
    BY <1>3 DEF Fail, Then
  <2>2. StepsOfTry(pc') < StepsOfTry(pc)
    BY <2>1, StepsOfCommands, StepsInRange
  <2> QED BY <1>1, <2>1, <2>2, StepOfTry
<1>4. CASE Erase
  <2>1. StepsLeft' = 0
    BY <1>4 DEF Erase, Then, StepsLeft, Commands
  <2>2. StepsLeft = 10 * tries + 3
    BY <1>4, StepsOfCommands DEF Erase, Then, StepsLeft, Commands
  <2> QED BY <1>1, <2>1, <2>2
<1>5. CASE FormatEfs \/ Copy \/ Compare \/ FormatPersist \/ CopyBack \/ Checksum
  <2>1. /\ tries' = tries
        /\ <<pc, pc'>> \in {<<"mke2fs_efs", "cp">>, <<"cp", "diff">>, <<"diff", "mke2fs_persist">>,
                            <<"diff", "try">>, <<"mke2fs_persist", "dd">>, <<"dd", "md5sum">>,
                            <<"md5sum", "erase">>, <<"md5sum", "try">>}
    BY <1>5 DEF FormatEfs, Copy, Compare, FormatPersist, CopyBack, Checksum, Then
  <2>2. pc \in Commands /\ pc' \in Commands \cup {"try"}
    BY <2>1 DEF Commands
  <2>3. StepsOfTry(pc') < StepsOfTry(pc)
    BY <2>1, StepsOfCommands
  <2> QED BY <1>1, <2>1, <2>2, <2>3, StepOfTry
<1> QED BY <1>2, <1>3, <1>4, <1>5 DEF Script, Start

LEMMA StepOfRun ==
  ASSUME TypeOK, [Next]_vars, pc # "boot"
  PROVE  [RunGoesOn]_vars
<1> SUFFICES ASSUME Next PROVE RunGoesOn
  BY DEF vars
<1>1. StepsLeft \in Nat
  BY BoundOfRun, RetriesAssumption DEF RunIsBounded
<1>2. CASE Script
  <2>1. StepsLeft' < StepsLeft
    BY <1>2, StepOfScript
  <2>2. TypeOK' => RunIsBounded'
    BY BoundOfRun, PTL
  <2>3. StepsLeft' \in Nat
    BY <2>2, TypeStep, RetriesAssumption DEF RunIsBounded
  <2> QED BY <1>1, <2>1, <2>3 DEF RunGoesOn
<1>3. CASE ~Script /\ (PowerLoss \/ MountAll \/ SystemWrites \/ Reboot)
  <2>1. pc' \in {"boot", "up"}
    BY <1>3 DEF PowerLoss, MountAll, SystemWrites, Reboot, Then
  <2>2. StepsLeft' = 0
    BY <2>1 DEF StepsLeft, Commands
  <2> QED BY <1>1, <1>3, <2>2 DEF RunGoesOn
<1> QED BY <1>2, <1>3 DEF Next

\* For any number of tries: a run of the script has at most ten steps a try and
\* nine more, and each step it takes, whatever fails, leaves fewer
\* (convert_to_ext4.sh:63-178).
THEOREM RunsAreBounded ==
  Spec => [](RunIsBounded) /\ [][pc # "boot" => RunGoesOn]_vars
<1>1. TypeOK /\ [Next]_vars => [pc # "boot" => RunGoesOn]_vars
  BY StepOfRun
<1> QED BY <1>1, BoundOfRun, TypeCorrect, PTL DEF Spec
=============================================================================
