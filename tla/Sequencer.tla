----------------------------- MODULE Sequencer ------------------------------
(***************************************************************************)
(* The running instrument: the system task, which owns the grid, and the   *)
(* menu task (menu.c), which shows one note and lets the user edit its     *)
(* velocity and duration. They share nothing but two queues of one item    *)
(* each, on which both send without waiting.                               *)
(***************************************************************************)
EXTENDS SystemTask

VARIABLES
  page,        \* "note_edit", or "other" for all the pages without a note
  item,        \* selected item of the note edit page
  editing,     \* the menu task is inside an edit loop
  velocity, duration, durationMax,  \* the menu's note parameters
  shown,       \* history: column of the note these came from
  editFor      \* history: shown when the edit in menuToSystem was sent

menuVars == <<page, item, editing, velocity, duration, durationMax, shown, editFor>>
vars     == <<systemVars, menuVars>>

Items == 0 .. 2  \* note number, velocity, duration

-----------------------------------------------------------------------------
(* The entry loop takes encoder events and announcements; the edit loops   *)
(* take encoder events only, so that announcements wait.                   *)

(* Mutant: the announced duration is not taken over.                       *)
ShowKeepsDuration ==
  /\ ~editing
  /\ TakeAnnouncement
  /\ LET m == Head(systemToMenu)
     IN /\ velocity' = m.vel
        /\ durationMax' = m.max
        /\ shown' = m.col
  /\ page' = "note_edit"
  /\ item' = 0
  /\ UNCHANGED <<editing, editFor, duration>>

Show ==
  /\ ~editing
  /\ TakeAnnouncement
  /\ LET m == Head(systemToMenu)
     IN /\ velocity' = m.vel
        /\ duration' = m.dur
        /\ durationMax' = m.max
        /\ shown' = m.col
  /\ page' = "note_edit"
  /\ item' = 0
  /\ UNCHANGED <<editing, editFor>>

(* Turning encoder 1 selects another item of the page.                     *)
MoveSelection ==
  /\ ~editing /\ fault = "" /\ page = "note_edit"
  /\ item' \in {item - 1, item + 1} \cap Items
  /\ UNCHANGED <<systemVars, page, editing, velocity, duration, durationMax, shown, editFor>>

(* Pressing encoder 0 leaves the page.                                     *)
PageBack ==
  /\ ~editing /\ fault = "" /\ page = "note_edit"
  /\ page' = "other"
  /\ item' = 0
  /\ UNCHANGED <<systemVars, editing, velocity, duration, durationMax, shown, editFor>>

(* Pressing encoder 1 on an item with a parameter enters its edit loop;    *)
(* the other pages have such items too.                                    *)
EnterEdit ==
  /\ ~editing /\ fault = ""
  /\ editing' = TRUE
  /\ UNCHANGED <<systemVars, page, item, velocity, duration, durationMax, shown, editFor>>

(* The velocity item keeps the limits 0 .. 0 of menuData.c, so it can only *)
(* be turned down; the duration item runs from 0 to the limit announced    *)
(* last. Turning the note number changes nothing but the display.          *)
TurnVelocity ==
  /\ editing /\ fault = "" /\ page = "note_edit" /\ item = 1
  /\ velocity > 0
  /\ velocity' = velocity - 1
  /\ UNCHANGED <<systemVars, page, item, editing, duration, durationMax, shown, editFor>>

(* Mutant: the limit is tested one step late.                              *)
TurnDurationPastLimit ==
  /\ editing /\ fault = "" /\ page = "note_edit" /\ item = 2
  /\ \/ duration <= durationMax /\ duration' = duration + 1
     \/ duration > 0 /\ duration' = duration - 1
  /\ UNCHANGED <<systemVars, page, item, editing, velocity, durationMax, shown, editFor>>

TurnDuration ==
  /\ editing /\ fault = "" /\ page = "note_edit" /\ item = 2
  /\ \/ duration < durationMax /\ duration' = duration + 1
     \/ duration > 0 /\ duration' = duration - 1
  /\ UNCHANGED <<systemVars, page, item, editing, velocity, durationMax, shown, editFor>>

(* Leaving the edit loop runs the item's callback, which sends the value   *)
(* whether or not it was turned.                                           *)
Confirmed == IF item = 1 THEN [op |-> 2, value |-> velocity]
                         ELSE [op |-> 3, value |-> duration]

ConfirmEdit ==
  /\ editing /\ fault = "" /\ page = "note_edit" /\ item \in {1, 2}
  /\ editing' = FALSE
  /\ SendEdit(Confirmed)
  /\ editFor' = IF menuToSystem = <<>> THEN shown ELSE editFor
  /\ UNCHANGED <<page, item, velocity, duration, durationMax, shown>>

(* The other items have no callback, or one that sends nothing.            *)
LeaveEdit ==
  /\ editing /\ fault = "" /\ (page = "note_edit" => item = 0)
  /\ editing' = FALSE
  /\ UNCHANGED <<systemVars, page, item, velocity, duration, durationMax, shown, editFor>>

Browse == MoveSelection \/ PageBack \/ TurnVelocity \/ TurnDuration \/ LeaveEdit

-----------------------------------------------------------------------------
Restart ==
  /\ PowerCycle
  /\ page' = "other" /\ item' = 0 /\ editing' = FALSE
  /\ velocity' = 0 /\ duration' = 0 /\ durationMax' = 0
  /\ shown' = NoColumn /\ editFor' = NoColumn

Init ==
  /\ SystemInit
  /\ page = "other" /\ item = 0 /\ editing = FALSE
  /\ velocity = 0 /\ duration = 0 /\ durationMax = 0
  /\ shown = NoColumn /\ editFor = NoColumn

Next ==
  \/ SystemStep /\ UNCHANGED menuVars
  \/ \E c \in Columns : Press(c) /\ UNCHANGED menuVars
  \/ Show \/ EnterEdit \/ Browse \/ ConfirmEdit
  \/ Restart

Spec == Init /\ [][Next]_vars

(* A user who waits: starts an edit or presses a switch only when no       *)
(* message is on its way and the menu is out of its edit loops, and never  *)
(* confirms a duration of zero.                                            *)
Settled == ~editing /\ queueVars = <<<<>>, <<>>, <<>>>> /\ pc # "notify"

CarefulNext ==
  \/ SystemStep /\ UNCHANGED menuVars
  \/ Settled /\ \E c \in Columns : Press(c) /\ UNCHANGED menuVars
  \/ Settled /\ EnterEdit
  \/ (item = 2 => duration > 0) /\ ConfirmEdit
  \/ Show \/ Browse

CarefulSpec == Init /\ [][CarefulNext]_vars

-----------------------------------------------------------------------------
TypeOK ==
  /\ SystemTypeOK
  /\ page \in {"note_edit", "other"}
  /\ item \in Items
  /\ editing \in BOOLEAN
  /\ velocity \in Velocities
  /\ duration \in 0 .. NoLimit
  /\ durationMax \in 0 .. NoLimit
  /\ {shown, editFor} \subseteq Columns \cup {NoColumn}

(* An edit names no note: the system task applies it to the note it last   *)
(* announced. That must be the one the menu was showing (system.c:198-199, *)
(* "We need to let the menu task know that a grid coordinate has been      *)
(* pressed and send the event params for that coord").                     *)
EditReachesShownNote ==
  (pc = "menu" /\ menuToSystem # <<>>) => params.col = editFor

(* The menu's copy of a note agrees with the grid once nothing is in       *)
(* flight and the user is not turning a value.                             *)
MenuShowsTheNote ==
  (Settled /\ page = "note_edit") =>
    LET q == Grid!NoteAt(List, shown)
    IN q.found /\ q.col = shown /\ q.dur = duration /\ q.vel = velocity

(* Edits made with care leave every row a run of notes in time order, and  *)
(* never fail an assertion: the limit announced with a note keeps it clear *)
(* of the next one.                                                        *)
CarefulEditsKeepRows == TypeOK /\ fault = "" /\ Grid!RowsWellFormed

(* The menu task only does what SystemTask lets a menu do, so that what    *)
(* holds for every menu there holds for this one.                          *)
ImplementsSystemTask == SystemSpec
=============================================================================
