---------------------------- MODULE GptUpdateProofs ----------------------------
(***************************************************************************)
(* For any number of runs, failures, kills and power losses of the update: *)
(* one copy of the GPT is readable, rewriting it is one switch, and a      *)
(* successful update has updated everything.                               *)
(***************************************************************************)
EXTENDS GptUpdate, TLAPS

-----------------------------------------------------------------------------
(* The inductive invariant, in named parts.                                *)

GptOnly == {"fix", "pmbr", "hdr", "tab", "bhdr", "btab", "sector"}
MbrOnly == {"activate", "deactivate", "code", "uuid"}

\* Each kind of disk takes its own path, and a run has no result yet.
OnPath == /\ style = "gpt" => pc \notin MbrOnly
          /\ style = "mbr" => pc \notin GptOnly
          /\ pc # "idle" => result = "none"

\* The four parts of the GPT are rewritten in a fixed order, also by a run
\* that starts over; what a step relies on has been written before it.
Ordered == /\ disk.tab = "new" => disk.hdr = "new"
           /\ disk.bhdr = "new" => disk.tab = "new"
           /\ disk.btab = "new" => disk.bhdr = "new"
           /\ pc = "tab" => disk.hdr = "new"
           /\ pc \in {"bhdr", "btab"} => disk.tab = "new"
           /\ pc = "btab" => disk.bhdr = "new"

OrderedUnlessLost == losses = 0 => Ordered

Switched(d) == d.tab = "new" /\ d.boot.pmbr = "whole"

\* What the steps behind the current one have achieved.
Progress ==
  /\ pc \in Writing \ {"activate", "deactivate", "core"} => disk.core = "new"
  /\ pc \in {"hdr", "tab", "bhdr", "btab"} => disk.boot.pmbr = "whole"
  /\ pc \in {"bhdr", "btab"} => disk.tab = "new"
  /\ style = "gpt" /\ pc \in {"read", "sector", "sync", "esp", "settle"} => Switched(disk)
  /\ pc \in {"uuid", "sync", "esp", "settle"} => disk.boot.code = "new"
  /\ style = "mbr" /\ pc \in Writing \ {"activate"} => 1 \in disk.boot.active
  /\ pc = "settle" => disk.esp = "new"

\* The UUID is on the disk, or has been read from it and comes back next.
UuidSafe ==
  /\ style = "gpt" \/ stops + losses = 0 =>
       /\ pc = "uuid" \/ disk.boot.uuid = "kept"
       /\ pc \in {"sector", "code", "uuid"} => saved = "kept"
  /\ style = "gpt" => stable.boot.uuid = "kept"

\* What is written back has been read.
SavedRead == pc \in {"sector", "code", "uuid"} => saved \in {"kept", "hole"}

TypeInv == TypeOK /\ SavedRead

IInv == TypeInv /\ OnPath /\ ActiveAlways /\ Progress /\ UuidSafe /\ OkMeansUpdated

-----------------------------------------------------------------------------
\* What a torn image means for the disk.
Torn(d) == {d, [d EXCEPT !.core = "torn"], [d EXCEPT !.esp = "torn"]}

LEMMA StopTears == Stop => disk' \in Torn(disk)
<1> SUFFICES ASSUME Stop PROVE disk' \in Torn(disk)
  OBVIOUS
<1> PICK torn \in BOOLEAN : /\ torn => pc \in {"core", "esp"}
                            /\ disk' = IF torn THEN [disk EXCEPT ![pc] = "torn"] ELSE disk
  BY Zenon DEF Stop
<1>1. CASE torn = FALSE
  BY <1>1 DEF Torn
<1>2. CASE torn = TRUE /\ pc = "core"
  BY <1>2, Zenon DEF Torn
<1>3. CASE torn = TRUE /\ pc = "esp"
  BY <1>3, Zenon DEF Torn
<1>. QED
  BY <1>1, <1>2, <1>3

LEMMA PowerLossTears == PowerLoss => disk' \in Torn(stable)
<1> SUFFICES ASSUME PowerLoss PROVE disk' \in Torn(stable)
  OBVIOUS
<1> PICK torn \in {r \in {"core", "esp"} : stable[r] # disk[r]} \cup {"none"} :
       disk' = IF torn = "none" THEN stable ELSE [stable EXCEPT ![torn] = "torn"]
  BY Zenon DEF PowerLoss
<1>1. CASE torn = "none"
  BY <1>1, Zenon DEF Torn
<1>2. CASE torn = "core"
  BY <1>2, Zenon DEF Torn
<1>3. CASE torn = "esp"
  BY <1>3, Zenon DEF Torn
<1>. QED
  BY <1>1, <1>2, <1>3

\* The UUID written back is one.
LEMMA SavedIsUuid == TypeInv /\ pc \in {"sector", "code", "uuid"} => saved \in {"kept", "hole"}
  BY DEF TypeInv, SavedRead

LEMMA TypeInit == Init => TypeInv
  BY GptUpdateAssumption DEF Init, TypeInv, SavedRead, TypeOK, FoundDisk, DiskType, Ages, Images

LEMMA TypeStep == TypeInv /\ [Next]_vars => TypeInv'
<1> SUFFICES ASSUME TypeInv, [Next]_vars PROVE TypeInv'
  OBVIOUS
<1> USE GptUpdateAssumption DEF TypeInv, SavedRead, TypeOK, DiskType, Ages, Images, Writing
<1>1. CASE Start
  BY <1>1 DEF Start, Return
<1>2. CASE ActivatePart1
  BY <1>2 DEF ActivatePart1, Step
<1>3. CASE DeactivatePart2
  BY <1>3 DEF DeactivatePart2, Step
<1>4. CASE WriteCore
  BY <1>4 DEF WriteCore, Step
<1>5. CASE FixGptAttributes
  BY <1>5 DEF FixGptAttributes, Step
<1>6. CASE WriteProtectiveMbr
  BY <1>6 DEF WriteProtectiveMbr, Step
<1>7. CASE WriteHeader
  BY <1>7 DEF WriteHeader, Step
<1>8. CASE WriteEntries
  BY <1>8 DEF WriteEntries, Step
<1>9. CASE WriteBackupHeader
  BY <1>9 DEF WriteBackupHeader, Step
<1>10. CASE WriteBackupEntries
  BY <1>10 DEF WriteBackupEntries, Step
<1>11. CASE ReadUuid
  BY <1>11 DEF ReadUuid, Step
<1>12. CASE WriteBootSector
  <2>1. disk' \in DiskType
    BY <1>12, SavedIsUuid DEF WriteBootSector, Step
  <2>. QED
    BY <1>12, <2>1 DEF WriteBootSector, Step
<1>13. CASE WriteBootCode
  <2>1. disk' \in DiskType
    BY <1>13, SavedIsUuid DEF WriteBootCode, Step
  <2>. QED
    BY <1>13, <2>1 DEF WriteBootCode, Step
<1>14. CASE WriteUuid
  <2>1. disk' \in DiskType
    BY <1>14, SavedIsUuid DEF WriteUuid, Step
  <2>. QED
    BY <1>14, <2>1 DEF WriteUuid, Step
<1>15. CASE Sync
  BY <1>15 DEF Sync
<1>16. CASE WriteEfiBootloader
  BY <1>16 DEF WriteEfiBootloader, Step
<1>17. CASE SyncAndSettle
  BY <1>17 DEF SyncAndSettle, Return
<1>18. CASE Stop
  <2>1. disk' \in DiskType
    BY <1>18, StopTears DEF Torn
  <2>. QED
    BY <1>18, <2>1 DEF Stop, Return
<1>19. CASE WriteBack
  <2> PICK r \in Regions : stable' = [stable EXCEPT ![r] = disk[r]]
    BY <1>19 DEF WriteBack
  <2>1. stable' \in DiskType
    BY DEF Regions
  <2>. QED
    BY <1>19, <2>1 DEF WriteBack
<1>20. CASE PowerLoss
  <2>1. disk' \in DiskType
    BY <1>20, PowerLossTears DEF Torn
  <2>. QED
    BY <1>20, <2>1 DEF PowerLoss, Return
<1>21. CASE UNCHANGED vars
  BY <1>21 DEF vars
<1>. QED
  BY <1>1, <1>2, <1>3, <1>4, <1>5, <1>6, <1>7, <1>8, <1>9, <1>10, <1>11, <1>12, <1>13, <1>14, <1>15, <1>16, <1>17, <1>18, <1>19, <1>20, <1>21 DEF Next

\* Every variable keeps its type, whatever the constants.
THEOREM TypeCorrect == Spec => []TypeOK
<1>1. Init => TypeInv
  BY TypeInit
<1>2. TypeInv /\ [Next]_vars => TypeInv'
  BY TypeStep
<1>3. TypeInv => TypeOK
  BY DEF TypeInv
<1>. QED
  BY <1>1, <1>2, <1>3, PTL DEF Spec
-----------------------------------------------------------------------------
(* The GPT.                                                                *)

TableInv == TypeInv /\ OrderedUnlessLost

LEMMA TableInit == Init => TableInv
  BY TypeInit DEF Init, FoundDisk, TableInv, OrderedUnlessLost, Ordered, Ages

LEMMA TableStep == TableInv /\ [Next]_vars => TableInv'
<1> SUFFICES ASSUME TableInv, [Next]_vars PROVE OrderedUnlessLost'
  BY TypeStep DEF TableInv
<1> USE GptUpdateAssumption DEF TableInv, OrderedUnlessLost, Ordered, TypeInv, TypeOK, DiskType, Ages
<1>1. CASE Start
  BY <1>1 DEF Start, Return
<1>2. CASE ActivatePart1
  BY <1>2 DEF ActivatePart1, Step
<1>3. CASE DeactivatePart2
  BY <1>3 DEF DeactivatePart2, Step
<1>4. CASE WriteCore
  BY <1>4 DEF WriteCore, Step
<1>5. CASE FixGptAttributes
  BY <1>5 DEF FixGptAttributes, Step
<1>6. CASE WriteProtectiveMbr
  BY <1>6 DEF WriteProtectiveMbr, Step
<1>7. CASE WriteHeader
  BY <1>7 DEF WriteHeader, Step
<1>8. CASE WriteEntries
  BY <1>8 DEF WriteEntries, Step
<1>9. CASE WriteBackupHeader
  BY <1>9 DEF WriteBackupHeader, Step
<1>10. CASE WriteBackupEntries
  BY <1>10 DEF WriteBackupEntries, Step
<1>11. CASE ReadUuid
  BY <1>11 DEF ReadUuid, Step
<1>12. CASE WriteBootSector
  BY <1>12 DEF WriteBootSector, Step
<1>13. CASE WriteBootCode
  BY <1>13 DEF WriteBootCode, Step
<1>14. CASE WriteUuid
  BY <1>14 DEF WriteUuid, Step
<1>15. CASE Sync
  BY <1>15 DEF Sync
<1>16. CASE WriteEfiBootloader
  BY <1>16 DEF WriteEfiBootloader, Step
<1>17. CASE SyncAndSettle
  BY <1>17 DEF SyncAndSettle, Return
<1>18. CASE Stop
  <2>1. UNCHANGED <<disk.hdr, disk.tab, disk.bhdr, disk.btab>>
    BY <1>18, StopTears DEF Torn
  <2>. QED
    BY <1>18, <2>1 DEF Stop, Return
<1>19. CASE WriteBack
  BY <1>19 DEF WriteBack
<1>20. CASE PowerLoss
  BY <1>20 DEF PowerLoss
<1>21. CASE UNCHANGED vars
  BY <1>21 DEF vars
<1>. QED
  BY <1>1, <1>2, <1>3, <1>4, <1>5, <1>6, <1>7, <1>8, <1>9, <1>10, <1>11, <1>12, <1>13, <1>14, <1>15, <1>16, <1>17, <1>18, <1>19, <1>20, <1>21 DEF Next

LEMMA TableInvariant == Spec => []TableInv
<1>. QED
  BY TableInit, TableStep, PTL DEF Spec

\* In this order no reader ever finds both copies torn.
LEMMA OrderedIsReadable == TypeOK /\ Ordered => Visible(disk) \in Ages
  BY DEF TypeOK, DiskType, Ages, Ordered, Visible

\* One copy of the GPT is readable, however often the update is cut short.
THEOREM TableCorrect == Spec => []TableReadable
<1>1. TableInv => TableReadable
  BY OrderedIsReadable DEF TableInv, TypeInv, OrderedUnlessLost, TableReadable, Ages
<1>. QED
  BY <1>1, TableInvariant, PTL

\* What a step does to the table a reader sees.
LEMMA SeenStep == TableInv /\ TableInv' /\ [Next]_vars => [Switching!Next]_Seen
<1> SUFFICES ASSUME TableInv, TableInv', [Next]_vars
             PROVE  Switching!Switch \/ Switching!PowerLost \/ UNCHANGED Seen
  BY DEF Switching!Next
<1> USE DEF TableInv, TypeInv, TypeOK, DiskType, Ages
<1>a. ASSUME UNCHANGED <<losses, disk.hdr, disk.tab, disk.bhdr, disk.btab>> PROVE UNCHANGED Seen
  BY <1>a DEF Seen, Visible
<1>1. CASE Start
  BY <1>1, <1>a DEF Start
<1>2. CASE ActivatePart1
  BY <1>2, <1>a DEF ActivatePart1, Step
<1>3. CASE DeactivatePart2
  BY <1>3, <1>a DEF DeactivatePart2, Step
<1>4. CASE WriteCore
  BY <1>4, <1>a DEF WriteCore, Step
<1>5. CASE FixGptAttributes
  BY <1>5, <1>a DEF FixGptAttributes, Step
<1>6. CASE WriteProtectiveMbr
  BY <1>6, <1>a DEF WriteProtectiveMbr, Step
<1>7. CASE WriteHeader
  <2>1. CASE losses = 0
    BY <1>7, <2>1 DEF WriteHeader, Step, Seen, Visible, OrderedUnlessLost, Ordered, Switching!Switch
  <2>2. CASE losses # 0
    BY <1>7, <2>2 DEF WriteHeader, Step, Seen
  <2>. QED
    BY <2>1, <2>2
<1>8. CASE WriteEntries
  <2>1. CASE losses = 0
    BY <1>8, <2>1 DEF WriteEntries, Step, Seen, Visible, OrderedUnlessLost, Ordered, Switching!Switch
  <2>2. CASE losses # 0
    BY <1>8, <2>2 DEF WriteEntries, Step, Seen
  <2>. QED
    BY <2>1, <2>2
<1>9. CASE WriteBackupHeader
  <2>1. CASE losses = 0
    BY <1>9, <2>1 DEF WriteBackupHeader, Step, Seen, Visible, OrderedUnlessLost, Ordered, Switching!Switch
  <2>2. CASE losses # 0
    BY <1>9, <2>2 DEF WriteBackupHeader, Step, Seen
  <2>. QED
    BY <2>1, <2>2
<1>10. CASE WriteBackupEntries
  <2>1. CASE losses = 0
    BY <1>10, <2>1 DEF WriteBackupEntries, Step, Seen, Visible, OrderedUnlessLost, Ordered, Switching!Switch
  <2>2. CASE losses # 0
    BY <1>10, <2>2 DEF WriteBackupEntries, Step, Seen
  <2>. QED
    BY <2>1, <2>2
<1>11. CASE ReadUuid
  BY <1>11, <1>a DEF ReadUuid, Step
<1>12. CASE WriteBootSector
  BY <1>12, <1>a DEF WriteBootSector, Step
<1>13. CASE WriteBootCode
  BY <1>13, <1>a DEF WriteBootCode, Step
<1>14. CASE WriteUuid
  BY <1>14, <1>a DEF WriteUuid, Step
<1>15. CASE Sync
  BY <1>15, <1>a DEF Sync
<1>16. CASE WriteEfiBootloader
  BY <1>16, <1>a DEF WriteEfiBootloader, Step
<1>17. CASE SyncAndSettle
  BY <1>17, <1>a DEF SyncAndSettle
<1>18. CASE Stop
  <2>1. UNCHANGED <<disk.hdr, disk.tab, disk.bhdr, disk.btab>>
    BY <1>18, StopTears DEF Torn
  <2>. QED
    BY <1>18, <1>a, <2>1 DEF Stop
<1>19. CASE WriteBack
  BY <1>19, <1>a DEF WriteBack
<1>20. CASE PowerLoss
  BY <1>20, GptUpdateAssumption DEF PowerLoss, Seen, Switching!PowerLost
<1>21. CASE UNCHANGED vars
  BY <1>21, <1>a DEF vars
<1>. QED
  BY <1>1, <1>2, <1>3, <1>4, <1>5, <1>6, <1>7, <1>8, <1>9, <1>10, <1>11, <1>12, <1>13, <1>14, <1>15, <1>16, <1>17, <1>18, <1>19, <1>20, <1>21 DEF Next

\* Rewriting the GPT implements the one switch of module TableSwitch.
THEOREM SwitchCorrect == Spec => TableSwitches
<1>1. Init => Switching!Init
  <2> SUFFICES ASSUME Init PROVE Switching!Init
    OBVIOUS
  <2>1. disk.hdr = disk.tab /\ disk.tab \in Ages /\ losses = 0
    BY DEF Init, FoundDisk
  <2>. QED
    BY <2>1 DEF Switching!Init, Seen, Visible, Ages
<1>. QED
  BY <1>1, SeenStep, TableInvariant, PTL DEF Spec, TableSwitches, Switching!Spec

-----------------------------------------------------------------------------
(* What success means.                                                     *)

LEMMA InvInit == Init => IInv
<1> SUFFICES ASSUME Init PROVE IInv
  OBVIOUS
<1>1. /\ disk.boot.uuid = "kept" /\ disk.boot.active # {} /\ stable = disk
      /\ pc = "idle" /\ result = "none"
  BY DEF Init, FoundDisk
<1>. QED
  BY <1>1, TypeInit DEF IInv, OnPath, ActiveAlways, Progress, UuidSafe, OkMeansUpdated,
     MbrOnly, GptOnly, Writing, Switched

LEMMA InvStep == IInv /\ [Next]_vars => IInv'
<1> SUFFICES ASSUME IInv, [Next]_vars
             PROVE  (OnPath /\ ActiveAlways /\ Progress /\ UuidSafe /\ OkMeansUpdated)'
  BY TypeStep DEF IInv
<1> USE GptUpdateAssumption DEF IInv, TypeInv, TypeOK, DiskType, Ages, OnPath, ActiveAlways,
    Progress, UuidSafe, OkMeansUpdated, MbrOnly, GptOnly, Writing, Switched
<1>1. CASE Start
  BY <1>1 DEF Start, Return
<1>2. CASE ActivatePart1
  BY <1>2 DEF ActivatePart1, Step
<1>3. CASE DeactivatePart2
  BY <1>3 DEF DeactivatePart2, Step
<1>4. CASE WriteCore
  BY <1>4 DEF WriteCore, Step
<1>5. CASE FixGptAttributes
  BY <1>5 DEF FixGptAttributes, NeedsRewrite, Step
<1>6. CASE WriteProtectiveMbr
  BY <1>6 DEF WriteProtectiveMbr, Step
<1>7. CASE WriteHeader
  BY <1>7 DEF WriteHeader, Step
<1>8. CASE WriteEntries
  BY <1>8 DEF WriteEntries, Step
<1>9. CASE WriteBackupHeader
  BY <1>9 DEF WriteBackupHeader, Step
<1>10. CASE WriteBackupEntries
  BY <1>10 DEF WriteBackupEntries, Step
<1>11. CASE ReadUuid
  BY <1>11 DEF ReadUuid, Step
<1>12. CASE WriteBootSector
  BY <1>12 DEF WriteBootSector, Step
<1>13. CASE WriteBootCode
  BY <1>13 DEF WriteBootCode, Step
<1>14. CASE WriteUuid
  BY <1>14 DEF WriteUuid, Step
<1>15. CASE Sync
  BY <1>15 DEF Sync
<1>16. CASE WriteEfiBootloader
  BY <1>16 DEF WriteEfiBootloader, Step
<1>17. CASE SyncAndSettle
  BY <1>17 DEF SyncAndSettle, Return
<1>18. CASE Stop
  <2>1. disk'.boot = disk.boot
    BY <1>18, StopTears DEF Torn
  <2>. QED
    BY <1>18, <2>1 DEF Stop, Return
<1>19. CASE WriteBack
  <2>1. stable'.boot \in {disk.boot, stable.boot} /\ disk' = disk /\ stable # disk
    BY <1>19 DEF WriteBack, Regions
  <2>. QED
    BY <1>19, <2>1 DEF WriteBack
<1>20. CASE PowerLoss
  <2>1. disk'.boot = stable.boot /\ stable' = disk'
    BY <1>20, PowerLossTears DEF PowerLoss, Torn
  <2>. QED
    BY <1>20, <2>1 DEF PowerLoss, Return
<1>21. CASE UNCHANGED vars
  BY <1>21 DEF vars
<1>. QED
  BY <1>1, <1>2, <1>3, <1>4, <1>5, <1>6, <1>7, <1>8, <1>9, <1>10, <1>11, <1>12, <1>13, <1>14, <1>15, <1>16, <1>17, <1>18, <1>19, <1>20, <1>21 DEF Next

LEMMA Invariant == Spec => []IInv
  BY InvInit, InvStep, PTL DEF Spec

\* A partition of an MBR disk is active at every moment.
THEOREM ActiveCorrect == Spec => []ActiveAlways
<1>1. IInv => ActiveAlways
  BY DEF IInv
<1>. QED
  BY <1>1, Invariant, PTL

\* A successful update has replaced everything, durably.
THEOREM UpdatedCorrect == Spec => []OkMeansUpdated
<1>1. IInv => OkMeansUpdated
  BY DEF IInv
<1>. QED
  BY <1>1, Invariant, PTL
=============================================================================
