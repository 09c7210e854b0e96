---------------------------------- MODULE Gui ----------------------------------
(***************************************************************************)
(* The graphical front end (src/src/gui.rs): a message loop on one thread, *)
(* and scans and operations as tasks on others, whose results come back as *)
(* messages.  `loading' is the only thing that keeps the buttons from      *)
(* being pressed, and it is one flag for all tasks.                        *)
(*                                                                         *)
(* A click is a message in the queue that carries, for the properties      *)
(* only, the disk and the force option the window showed at that moment.   *)
(***************************************************************************)
EXTENDS Sequences, FiniteSets, Naturals

CONSTANTS
  Paths,          \* the disks that may be attached
  MaxClicks,      \* bound: clicks of the user
  MaxReplugs      \* bound: changes of what is attached

ASSUME GuiAssumption == IsFiniteSet(Paths) /\ MaxClicks \in Nat /\ MaxReplugs \in Nat

VARIABLES
  patient,        \* TRUE: this user waits until the window has settled
  world,          \* the attached disks in the order enumerate_disks sorts them
  disks,          \* the list in the window
  selected,       \* index in it, 0 for none
  force, loading,
  inbox,          \* messages to `update', in order
  tasks,          \* running scans and operations
  clicks, replugs

guiVars == <<patient, world, disks, selected, force, loading, inbox, tasks, clicks, replugs>>

Nobody == "nobody"        \* no disk
Operations == {"install", "update", "list"}
Choices == Paths \cup {Nobody}

Lists == UNION {{s \in [1..n -> Paths] : \A i, j \in 1..n : s[i] = s[j] => i = j}
                  : n \in 0..Cardinality(Paths)}

Shown == IF selected = 0 THEN Nobody ELSE disks[selected]

Message(kind, path, list) ==
  [kind |-> kind, path |-> path, list |-> list, force |-> force, id |-> clicks]

GuiInit ==
  /\ patient \in BOOLEAN
  /\ world \in Lists
  /\ disks = <<>> /\ selected = 0
  /\ force = FALSE /\ loading = FALSE
  /\ inbox = <<>> /\ tasks = {}
  /\ clicks = 0 /\ replugs = 0

-----------------------------------------------------------------------------
(* The user.                                                               *)
Post(m) == /\ inbox' = Append(inbox, m)
           /\ clicks < MaxClicks
           /\ clicks' = clicks + 1
           /\ patient => inbox = <<>> /\ ~loading
           /\ UNCHANGED <<patient, world, disks, selected, force, loading, tasks, replugs>>

\* The Refresh button is always enabled.
PressRefresh == Post(Message("refresh", Nobody, <<>>))

\* The others are not while `loading', as the window was last drawn.
PressOperation == \E op \in Operations : ~loading /\ Post(Message(op, Shown, <<>>))

PickDisk == \E i \in DOMAIN disks : Post(Message("select", disks[i], <<>>))

PressForce == Post(Message("force", Nobody, <<>>))

-----------------------------------------------------------------------------
(* The message loop.                                                       *)
Take(kinds) == /\ inbox # <<>> /\ Head(inbox).kind \in kinds
               /\ inbox' = Tail(inbox)
               /\ UNCHANGED <<patient, world, clicks, replugs>>

Spawn(path, shown) ==
  tasks' = tasks \cup {[kind |-> Head(inbox).kind, id |-> Head(inbox).id, path |-> path,
                        force |-> force, shown |-> shown]}

RefreshDisks ==
  /\ Take({"refresh"})
  /\ loading' = TRUE
  /\ Spawn(Nobody, [path |-> Nobody, force |-> force])
  /\ UNCHANGED <<disks, selected, force>>

\* Mutant: the index is kept whatever the length of the new list.
KeepIndex(n) == IF selected # 0 THEN selected ELSE IF n > 0 THEN 1 ELSE 0

\* Only the index is kept, not the disk it stood for.
IndexAfter(n) == IF selected \in 1..n THEN selected ELSE IF n > 0 THEN 1 ELSE 0

DisksLoaded ==
  /\ Take({"loaded"})
  /\ disks' = Head(inbox).list
  /\ loading' = FALSE
  /\ selected' = IndexAfter(Len(disks'))
  /\ UNCHANGED <<force, tasks>>

SelectDisk ==
  /\ Take({"select"})
  /\ selected' = IF \E i \in DOMAIN disks : disks[i] = Head(inbox).path
                   THEN CHOOSE i \in DOMAIN disks : disks[i] = Head(inbox).path
                   ELSE 0
  /\ UNCHANGED <<disks, force, loading, tasks>>

\* One of the toggles and text fields that an operation reads.
ToggleForce ==
  /\ Take({"force"})
  /\ force' = ~force
  /\ UNCHANGED <<disks, selected, loading, tasks>>

\* Mutant: the first disk, not the selected one.
TargetFirst == disks[1]

Target == disks[selected]

\* Mutant: the buttons stay enabled.
BusyNot == loading

Busy == TRUE

\* InstallClicked, UpdateClicked, ListClicked.
OperationClicked ==
  /\ Take(Operations)
  /\ IF selected # 0
       THEN /\ loading' = Busy
            /\ Spawn(Target, [path |-> Head(inbox).path, force |-> Head(inbox).force])
       ELSE UNCHANGED <<loading, tasks>>
  /\ UNCHANGED <<disks, selected, force>>

\* Mutant: the message is shown and nothing else.
StatusWithoutLoading ==
  /\ Take({"status"})
  /\ UNCHANGED <<disks, selected, force, loading, tasks>>

StatusMessage ==
  /\ Take({"status"})
  /\ loading' = FALSE
  /\ UNCHANGED <<disks, selected, force, tasks>>

-----------------------------------------------------------------------------
(* The tasks, and the disks that come and go.                              *)
FinishTask == \E t \in tasks :
  /\ tasks' = tasks \ {t}
  /\ inbox' = Append(inbox, IF t.kind = "refresh" THEN Message("loaded", Nobody, world)
                                                  ELSE Message("status", Nobody, <<>>))
  /\ UNCHANGED <<patient, world, disks, selected, force, loading, clicks, replugs>>

Replug == \E w \in Lists \ {world} :
  /\ replugs < MaxReplugs
  /\ replugs' = replugs + 1
  /\ world' = w
  /\ UNCHANGED <<patient, disks, selected, force, loading, inbox, tasks, clicks>>

Update == \/ RefreshDisks \/ DisksLoaded \/ SelectDisk \/ ToggleForce
          \/ OperationClicked \/ StatusMessage

GuiNext == \/ PressRefresh \/ PressOperation \/ PickDisk \/ PressForce
           \/ Update \/ FinishTask \/ Replug

GuiSpec == GuiInit /\ [][GuiNext]_guiVars

\* The message loop runs, and scans and operations end.
GuiFairSpec == GuiSpec /\ WF_guiVars(Update) /\ WF_guiVars(FinishTask)

-----------------------------------------------------------------------------
(* Properties.                                                             *)

\* Whatever refreshes, selections and unplugged disks follow each other, the
\* index stays inside the list it indexes: disks[index] never panics.
IndexInRange == selected \in 0..Len(disks)

\* As long as the user waits for each thing to finish, no two scans or
\* operations run at once, and none runs with the buttons enabled.
OneAtATime == patient => /\ Cardinality(tasks) <= 1
                         /\ tasks # {} => loading

\* For that user an operation works on the disk, and with the options, that
\* the window showed when the button was pressed.
TargetWasShown ==
  patient => \A t \in tasks : t.kind \in Operations =>
               t.path = t.shown.path /\ t.force = t.shown.force

\* The window never stays busy, for any user.
LoadingEnds == loading ~> ~loading
=============================================================================
