------------------------------- MODULE GptUpdate -------------------------------
(***************************************************************************)
(* update_choosable (src/src/installer.rs) on a disk that is already a     *)
(* Choosable disk, write by write: boot code and stage 2 are replaced, the *)
(* active flags of an MBR or the attributes in a GPT are put right, and    *)
(* BOOTX64.EFI is replaced.  A call may fail or the process be killed      *)
(* between any two writes, power may be lost, and the update be run again. *)
(*                                                                         *)
(* `disk' is what a reader sees; `stable' what is on the medium, to which  *)
(* the kernel writes dirty regions back when it likes and sync all.        *)
(***************************************************************************)
EXTENDS Naturals

CONSTANTS
  Styles,         \* subset of {"mbr", "gpt"}
  MaxRuns,        \* bound: the update is started at most MaxRuns times
  MaxStops,       \* bound: failed or killed at most MaxStops times
  MaxLosses       \* bound: power is lost at most MaxLosses times

ASSUME GptUpdateAssumption ==
  /\ Styles \subseteq {"mbr", "gpt"}
  /\ MaxRuns \in Nat /\ MaxStops \in Nat /\ MaxLosses \in Nat

VARIABLES
  style,          \* how the disk is partitioned
  disk, stable,   \* region -> contents
  saved,          \* the disk UUID the process has read
  pc, result,
  runs, stops, losses

vars == <<style, disk, stable, saved, pc, result, runs, stops, losses>>

(***************************************************************************)
(* boot : sector 0.  code is the boot code, uuid the disk UUID in the hole *)
(*        of the code ("hole": what the image has there), active the set   *)
(*        of active MBR entries, pmbr whether the protective entry is      *)
(*        whole or has a sector count of zero.                             *)
(* hdr, tab, bhdr, btab : the GPT header, the sector of its entries that   *)
(*        holds partition 2, and their backups.  "old" has the attributes  *)
(*        as found and "new" GPT_ATTR_CZBLEFI; a header fits the entries   *)
(*        of the same age, by its CRC.                                     *)
(* core, esp : the stage-2 image and BOOTX64.EFI; "torn" is part of one.   *)
(***************************************************************************)
Regions == {"boot", "hdr", "tab", "bhdr", "btab", "core", "esp"}
Ages == {"old", "new"}
Images == {"old", "new", "torn"}

DiskType == [boot : [code : Ages, uuid : {"kept", "hole"}, active : SUBSET {1, 2},
                     pmbr : {"whole", "zero"}],
             hdr : Ages, tab : Ages, bhdr : Ages, btab : Ages,
             core : Images, esp : Images]

FoundDisk(age, active, pmbr) ==
  [boot |-> [code |-> "old", uuid |-> "kept", active |-> active, pmbr |-> pmbr],
   hdr |-> age, tab |-> age, bhdr |-> age, btab |-> age, core |-> "old", esp |-> "old"]

Init ==
  /\ style \in Styles
  /\ disk \in {FoundDisk(age, active, pmbr) :
                 age \in Ages, active \in {{1}, {2}}, pmbr \in {"whole", "zero"}}
  /\ stable = disk
  /\ saved = "none"
  /\ pc = "idle" /\ result = "none"
  /\ runs = 0 /\ stops = 0 /\ losses = 0

-----------------------------------------------------------------------------
Return(r) == pc' = "idle" /\ result' = r

\* One write, or one step without a write, of the process.
Step(from, to) == /\ pc = from
                  /\ pc' = to
                  /\ UNCHANGED <<style, stable, result, runs, stops, losses>>

\* Unmounting may fail and the prompt be declined.  detect_choosable reads no
\* CRC and finds a Choosable disk in every state of the regions above.
Start ==
  /\ pc = "idle" /\ runs < MaxRuns
  /\ runs' = runs + 1
  /\ saved' = "none"
  /\ \/ Return("mounted") \/ Return("aborted")
     \/ /\ result' = "none"
        /\ pc' = IF style = "mbr" /\ disk.boot.active = {2} THEN "activate" ELSE "core"
  /\ UNCHANGED <<style, disk, stable, stops, losses>>

\* Mutant: the flags are swapped in the other order.
ActivatePart1Last ==
  /\ Step("activate", "deactivate")
  /\ disk' = [disk EXCEPT !.boot.active = @ \ {2}]
  /\ UNCHANGED saved

ActivatePart1 ==
  /\ Step("activate", "deactivate")
  /\ disk' = [disk EXCEPT !.boot.active = @ \cup {1}]
  /\ UNCHANGED saved

DeactivatePart2 ==
  /\ Step("deactivate", "core")
  /\ disk' = [disk EXCEPT !.boot.active = @ \ {2}]
  /\ UNCHANGED saved

WriteCore ==
  /\ Step("core", IF style = "gpt" THEN "fix" ELSE "read")
  /\ disk' = [disk EXCEPT !.core = "new"]
  /\ UNCHANGED saved

-----------------------------------------------------------------------------
(* fix_gpt_attributes and GptInfo::write_to_disk.                          *)

\* Mutant: only the protective entry is looked at.
RewriteForPmbr == disk.boot.pmbr = "zero"

\* The primary entries decide, whatever the headers' CRCs say.
NeedsRewrite == disk.tab = "old" \/ disk.boot.pmbr = "zero"

FixGptAttributes ==
  /\ Step("fix", IF NeedsRewrite THEN "pmbr" ELSE "read")
  /\ UNCHANGED <<disk, saved>>

\* The sector is written as it was read but for the protective entry.
WriteProtectiveMbr ==
  /\ Step("pmbr", "hdr")
  /\ disk' = [disk EXCEPT !.boot.pmbr = "whole"]
  /\ UNCHANGED saved

\* Mutant: both headers first, then both tables.
WriteBothHeaders ==
  /\ Step("hdr", "tab")
  /\ disk' = [disk EXCEPT !.hdr = "new", !.bhdr = "new"]
  /\ UNCHANGED saved

WriteHeader ==
  /\ Step("hdr", "tab")
  /\ disk' = [disk EXCEPT !.hdr = "new"]
  /\ UNCHANGED saved

WriteEntries ==
  /\ Step("tab", "bhdr")
  /\ disk' = [disk EXCEPT !.tab = "new"]
  /\ UNCHANGED saved

WriteBackupHeader ==
  /\ Step("bhdr", "btab")
  /\ disk' = [disk EXCEPT !.bhdr = "new"]
  /\ UNCHANGED saved

\* ... and the 446 bytes of boot code once more, unchanged.
WriteBackupEntries ==
  /\ Step("btab", "read")
  /\ disk' = [disk EXCEPT !.btab = "new"]
  /\ UNCHANGED saved

-----------------------------------------------------------------------------
ReadUuid ==
  /\ Step("read", IF style = "gpt" THEN "sector" ELSE "code")
  /\ saved' = disk.boot.uuid
  /\ UNCHANGED disk

\* GPT: code and UUID in one write of the sector.
WriteBootSector ==
  /\ Step("sector", "sync")
  /\ disk' = [disk EXCEPT !.boot.code = "new", !.boot.uuid = saved]
  /\ UNCHANGED saved

\* MBR: the whole code, with the hole of the image, then the UUID.
WriteBootCode ==
  /\ Step("code", "uuid")
  /\ disk' = [disk EXCEPT !.boot.code = "new", !.boot.uuid = "hole"]
  /\ UNCHANGED saved

WriteUuid ==
  /\ Step("uuid", "sync")
  /\ disk' = [disk EXCEPT !.boot.uuid = saved]
  /\ UNCHANGED saved

Sync ==
  /\ pc = "sync" /\ pc' = "esp"
  /\ stable' = disk
  /\ UNCHANGED <<style, disk, saved, result, runs, stops, losses>>

\* create_file opens the file that is there and writes over it.
WriteEfiBootloader ==
  /\ Step("esp", "settle")
  /\ disk' = [disk EXCEPT !.esp = "new"]
  /\ UNCHANGED saved

SyncAndSettle ==
  /\ pc = "settle"
  /\ stable' = disk
  /\ Return("ok")
  /\ UNCHANGED <<style, disk, saved, runs, stops, losses>>

-----------------------------------------------------------------------------
\* A call fails or the process is killed; nothing is undone, and an image
\* that was being written stays as far as it came.
Stop == \E torn \in BOOLEAN :
  /\ pc # "idle" /\ stops < MaxStops
  /\ stops' = stops + 1
  /\ torn => pc \in {"core", "esp"}
  /\ disk' = IF torn THEN [disk EXCEPT ![pc] = "torn"] ELSE disk
  /\ Return("stopped")
  /\ UNCHANGED <<style, stable, saved, runs, losses>>

\* External: the kernel writes a dirty region back (worth a step of its own
\* only as long as power may still be lost).
WriteBack == \E r \in Regions :
  /\ losses < MaxLosses
  /\ stable[r] # disk[r]
  /\ stable' = [stable EXCEPT ![r] = disk[r]]
  /\ UNCHANGED <<style, disk, saved, pc, result, runs, stops, losses>>

\* External: power is lost and the machine boots again; an image that was
\* being written back may be torn.
PowerLoss == \E torn \in {r \in {"core", "esp"} : stable[r] # disk[r]} \cup {"none"} :
  /\ losses < MaxLosses
  /\ losses' = losses + 1
  /\ disk' = IF torn = "none" THEN stable ELSE [stable EXCEPT ![torn] = "torn"]
  /\ stable' = disk'
  /\ Return("stopped")
  /\ UNCHANGED <<style, saved, runs, stops>>

Next ==
  \/ Start \/ ActivatePart1 \/ DeactivatePart2 \/ WriteCore \/ FixGptAttributes
  \/ WriteProtectiveMbr \/ WriteHeader \/ WriteEntries \/ WriteBackupHeader
  \/ WriteBackupEntries \/ ReadUuid \/ WriteBootSector \/ WriteBootCode \/ WriteUuid
  \/ Sync \/ WriteEfiBootloader \/ SyncAndSettle \/ Stop \/ WriteBack \/ PowerLoss

Spec == Init /\ [][Next]_vars

-----------------------------------------------------------------------------
(* Properties.                                                             *)

Writing == {"activate", "deactivate", "core", "fix", "pmbr", "hdr", "tab", "bhdr", "btab",
            "read", "sector", "code", "uuid", "sync", "esp", "settle"}

\* Every variable has the type the comments above give it; the UUID that is
\* written back was read from the disk.
TypeOK ==
  /\ style \in Styles
  /\ disk \in DiskType /\ stable \in DiskType
  /\ saved \in {"none", "kept", "hole"}
  /\ pc \in {"idle"} \cup Writing
  /\ result \in {"none", "mounted", "aborted", "stopped", "ok"}
  /\ runs \in 0..MaxRuns /\ stops \in 0..MaxStops /\ losses \in 0..MaxLosses

\* What a reader of the GPT finds: the primary copy if its CRC is right, the
\* backup if only that one's is.
Visible(d) == CASE d.hdr = d.tab                      -> d.tab
                [] d.hdr # d.tab /\ d.bhdr = d.btab   -> d.btab
                [] OTHER                              -> "none"

\* However often the update fails, is killed and is run again, one copy of
\* the GPT has a right CRC (a power loss excepted: the writes are not ordered).
TableReadable == losses = 0 => Visible(disk) # "none"

\* Rewriting the GPT in place looks like one switch from the old to the new.
Seen == IF losses = 0 THEN Visible(disk) ELSE "anything"

Switching == INSTANCE TableSwitch WITH seen <- Seen

TableSwitches == Switching!Spec

\* A partition of an MBR disk is active at every moment, on the medium too.
ActiveAlways == /\ disk.boot.active # {}
                /\ stable.boot.active # {}

\* A successful update has replaced everything, durably: code, stage 2 and
\* loader are whole and new, the attributes and the protective entry are
\* right, partition 1 is active, and the disk still has its UUID unless an
\* earlier update of an MBR disk was cut short.
OkMeansUpdated ==
  result = "ok" =>
    /\ disk.boot.code = "new" /\ disk.core = "new" /\ disk.esp = "new"
    /\ style = "gpt" => disk.tab = "new" /\ disk.boot.pmbr = "whole"
    /\ style = "mbr" => 1 \in disk.boot.active
    /\ style = "gpt" \/ stops + losses = 0 => disk.boot.uuid = "kept"
    /\ stable = disk
=============================================================================
