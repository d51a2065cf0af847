-------------------------- MODULE PersistMigration --------------------------
(***************************************************************************)
(* convert_to_ext4.sh: on every early-init of a debuggable build it moves  *)
(* the files of the persist partition from f2fs to ext4, with the efs      *)
(* partition as the place to keep them meanwhile.  It may be interrupted   *)
(* by a power loss at any point, any of its commands may fail, and it      *)
(* gives a run RETRIES tries; whatever it has left behind, the boot goes   *)
(* on (init.gs201.rc:5-8) and the system reads and writes persist.         *)
(*                                                                         *)
(* A partition is the file system its magic numbers show and the set of    *)
(* versions of persist's files it holds whole: {} or {v}.  Files that are  *)
(* damaged or only partly there count as {}.                               *)
(***************************************************************************)
EXTENDS Integers

CONSTANTS
  Retries,    \* RETRIES, 10 in the script
  MaxBoots,   \* bound: starts of the script
  MaxWrites   \* bound: times the system changes persist's files

ASSUME RetriesAssumption == Retries \in Nat
ASSUME BoundsAssumption == MaxBoots \in Nat /\ MaxWrites \in Nat

VARIABLES
  persist, efs,   \* the two partitions
  PERSIST_FS,     \* the script's variable
  tries,          \* $RETRIES
  pc,             \* the next command of the script, or what follows it
  latest,         \* the newest version of the files
  boots,
  faults          \* what has gone wrong that the script does not survive:
                  \* "format": mke2fs failed after damaging persist
                  \* "erase":  dd failed after damaging efs
                  \* "stale":  persist changed while efs was to be copied to it

vars == <<persist, efs, PERSIST_FS, tries, pc, latest, boots, faults>>

\* An unmountable partition is "wiped" if it starts with zeros: only then does
\* mount_all format it.
FileSystems == {"f2fs", "ext4", "damaged", "wiped"}
Versions == 0..MaxWrites
Contents == {{}} \cup {{v} : v \in Versions}
Partitions == [fs : FileSystems, files : Contents]
Empty(fs) == [fs |-> fs, files |-> {}]

get_fs_type(p) == IF p.fs \in {"ext4", "f2fs"} THEN p.fs ELSE "unknown"

Commands == {"mke2fs_efs", "cp", "diff", "mke2fs_persist", "dd", "md5sum", "erase"}

Init ==
  /\ persist = [fs |-> "f2fs", files |-> {0}]
  /\ efs \in {Empty("f2fs"), Empty("wiped")}
  /\ PERSIST_FS = "unknown" /\ tries = 0
  /\ pc = "boot" /\ boots = 0
  /\ latest = 0 /\ faults = {}

-----------------------------------------------------------------------------
(* The script *)

\* What an interrupted or failed command can leave of the partition it writes.
TornFormat(p) == {p, Empty("damaged"), Empty("wiped"), Empty("ext4")}
TornCopy == {[efs EXCEPT !.files = c] : c \in {{}, persist.files}}
TornDd == {persist, Empty(efs.fs)}
TornErase == {efs, Empty("wiped")}

AlreadyMigrated == get_fs_type(persist) = "ext4" /\ get_fs_type(efs) # "ext4"

Start ==
  /\ pc = "boot" /\ boots < MaxBoots
  /\ boots' = boots + 1
  /\ PERSIST_FS' = get_fs_type(persist)
  /\ IF AlreadyMigrated \/ get_fs_type(persist) = "unknown"
     THEN pc' = "mount_all" /\ UNCHANGED tries
     ELSE pc' = "try" /\ tries' = Retries
  /\ UNCHANGED <<persist, efs, latest, faults>>

SameTries == tries
OneTryLess == tries - 1

TriesLeft == tries > 0

\* RETRIES is tested, then counted down.
Try ==
  /\ pc = "try"
  /\ IF TriesLeft
     THEN /\ tries' = OneTryLess
          /\ pc' = IF PERSIST_FS = "f2fs" THEN "mke2fs_efs" ELSE "dd"
     ELSE pc' = "mount_all" /\ UNCHANGED tries
  /\ UNCHANGED <<persist, efs, PERSIST_FS, latest, boots, faults>>

\* A command is done; another is next.
Then(command, next) ==
  /\ pc = command
  /\ pc' = next
  /\ UNCHANGED <<tries, latest, boots>>

FormatEfs ==
  /\ Then("mke2fs_efs", "cp")
  /\ efs' = Empty("ext4")
  /\ UNCHANGED <<persist, PERSIST_FS, faults>>

\* mkdir, the two mounts and cp.  The first cp is not checked, so files may be
\* missing although the second one succeeds.
Copy ==
  /\ Then("cp", "diff")
  /\ persist.fs = "f2fs" /\ efs.fs = "ext4"
  /\ efs' \in TornCopy
  /\ UNCHANGED <<persist, PERSIST_FS, faults>>

DiffSkipped == TRUE
SameFiles == efs.files = persist.files

Compare ==
  /\ Then("diff", IF SameFiles THEN "mke2fs_persist" ELSE "try")
  /\ UNCHANGED <<persist, efs, PERSIST_FS, faults>>

FormatPersist ==
  /\ Then("mke2fs_persist", "dd")
  /\ persist' = Empty("ext4")
  /\ PERSIST_FS' = "ext4"
  /\ UNCHANGED <<efs, faults>>

\* dd and sync; the copy may have gone wrong unnoticed.
CopyBack ==
  /\ Then("dd", "md5sum")
  /\ persist' \in {efs, Empty(efs.fs)}
  /\ UNCHANGED <<efs, PERSIST_FS, faults>>

ChecksumSkipped == TRUE
SameChecksum == persist = efs

Checksum ==
  /\ Then("md5sum", IF SameChecksum THEN "erase" ELSE "try")
  /\ UNCHANGED <<persist, efs, PERSIST_FS, faults>>

Erase ==
  /\ Then("erase", "mount_all")
  /\ efs' = Empty("wiped")
  /\ UNCHANGED <<persist, PERSIST_FS, faults>>

\* What a command that did not finish leaves of the two partitions.
Unfinished(command) ==
  /\ efs' \in CASE command = "mke2fs_efs" -> TornFormat(efs)
                [] command = "cp" -> TornCopy
                [] command = "erase" -> TornErase
                [] OTHER -> {efs}
  /\ persist' \in CASE command = "mke2fs_persist" -> TornFormat(persist)
                    [] command = "dd" -> TornDd
                    [] OTHER -> {persist}

\* A command fails: continue with the next try, PERSIST_FS as it was.
Fail ==
  /\ pc \in Commands
  /\ Then(pc, "try")
  /\ Unfinished(pc)
  /\ faults' = faults \cup (IF pc = "mke2fs_persist" /\ persist' # persist THEN {"format"}
                            ELSE IF pc = "erase" /\ efs' # efs THEN {"erase"} ELSE {})
  /\ UNCHANGED PERSIST_FS

-----------------------------------------------------------------------------
(* Outside the script *)

PowerLoss ==
  /\ pc \in Commands \cup {"try", "mount_all"}
  /\ Then(pc, "boot")
  /\ Unfinished(pc)
  /\ UNCHANGED <<PERSIST_FS, faults>>

\* fstab.persist and fstab.modem: wiped partitions are formatted.
MountAll ==
  /\ Then("mount_all", "up")
  /\ persist' = IF persist.fs = "wiped" THEN Empty("ext4") ELSE persist
  /\ efs' = IF efs.fs = "wiped" THEN Empty("f2fs") ELSE efs
  /\ UNCHANGED <<PERSIST_FS, faults>>

\* The system changes the files it finds in persist, be they new, old or none.
SystemWrites ==
  /\ pc = "up" /\ latest < MaxWrites
  /\ persist.fs \in {"ext4", "f2fs"}
  /\ latest' = latest + 1
  /\ persist' = [persist EXCEPT !.files = {latest + 1}]
  /\ faults' = faults \cup (IF persist.fs = "ext4" /\ efs.fs = "ext4" THEN {"stale"} ELSE {})
  /\ UNCHANGED <<efs, PERSIST_FS, tries, pc, boots>>

Reboot ==
  /\ Then("up", "boot")
  /\ UNCHANGED <<persist, efs, PERSIST_FS, faults>>

-----------------------------------------------------------------------------
Script == \/ Start \/ Try \/ FormatEfs \/ Copy \/ Compare \/ FormatPersist
          \/ CopyBack \/ Checksum \/ Erase \/ Fail

Next == Script \/ PowerLoss \/ MountAll \/ SystemWrites \/ Reboot

Spec == Init /\ [][Next]_vars

\* A shell that is not interrupted goes on to its next command.
FairSpec == Spec /\ WF_vars(Script)

-----------------------------------------------------------------------------
(* Properties *)

\* Every variable has its type; $RETRIES, in particular, never goes below 0.
TypeOK ==
  /\ persist \in Partitions /\ efs \in Partitions
  /\ PERSIST_FS \in {"f2fs", "ext4", "unknown"}
  /\ tries \in 0..Retries /\ boots \in 0..MaxBoots /\ latest \in Versions
  /\ pc \in Commands \cup {"boot", "try", "mount_all", "up"}
  /\ faults \in SUBSET {"format", "erase", "stale"}

FilesExist == latest \in persist.files \cup efs.files

\* However often the power is lost and whichever commands fail, the newest files
\* are whole on one of the partitions, and no older ones ever come back to
\* persist, unless one of the three faults happened; from the moment persist's
\* files are given up until efs is erased, efs has them (lines 63-178).
NoLossWithoutFault ==
  faults = {} =>
    /\ FilesExist
    /\ persist.files \subseteq {latest}
    /\ pc \in {"mke2fs_persist", "dd", "md5sum", "erase"} => latest \in efs.files

\* efs is erased only when persist is the same as it (lines 162-170).
EraseOnlyACopy == [][pc = "erase" /\ efs' # efs => persist = efs]_vars

\* The partitions keep the files as KeptFiles promises: the newest ones while
\* no fault has happened; some whole version, not always the newest, when the
\* system has written between two runs of an unfinished migration; and a
\* command that fails half-way loses nothing by itself (lines 42-178).
Store == INSTANCE KeptFiles
           WITH home <- persist.files, spare <- efs.files,
                stale <- "stale" \in faults, broken <- faults \cap {"format", "erase"} # {}
KeepsNewest == Store!Spec

\* A run of the script ends, whatever fails (lines 63-67), if its power stays on.
ScriptEnds == pc = "try" ~> pc \in {"mount_all", "boot"}

(* What the script's comments and messages say, which does not hold *)

\* Line 69 "If persist is still f2fs, we need to copy to efs": efs is formatted
\* only while persist is f2fs.
FormatsEfsForF2fs == [][FormatEfs => persist.fs = "f2fs"]_vars

\* Line 59 "persist partition hasn't been initialized": when the script stops
\* because persist is neither f2fs nor ext4, there are no files to migrate.
UnknownMeansNew ==
  (pc = "mount_all" /\ PERSIST_FS = "unknown") => efs.files = {}

=============================================================================
