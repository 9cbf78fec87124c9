----------------------------- MODULE SystemTask -----------------------------
(***************************************************************************)
(* The system task (system.c), which owns the grid. Switch presses arrive  *)
(* on one queue and edits of the current note on another; for each press   *)
(* the task announces the note under it to the menu on a third. Each queue *)
(* holds one item and every send drops its message when the queue is full. *)
(*                                                                         *)
(* An edit message carries an opcode and a value. Which note it is for is  *)
(* whatever midiEventParams last described.                                *)
(*                                                                         *)
(* Here the menu task is any task that takes announcements and sends edits *)
(* within the widest limits, at any time after the first press. Sequencer  *)
(* puts the real menu task in its place.                                   *)
(***************************************************************************)
EXTENDS Integers, Sequences, FiniteSets

CONSTANTS
  Rows, Columns, Durations, Velocities, PoolSize,  \* see GridManager
  Row,              \* the row of the switches that have a handler, + 0x34
  DefaultVelocity,  \* velocity of a new note, 127 in the code
  NoLimit           \* duration limit announced when no note follows, 128

(* The grid of the code has 8 columns, numbered below the rows of the      *)
(* switches, and a pool of 100 nodes: room for two notes per column.       *)
ASSUME SystemTaskAssumption ==
  /\ Row \in Rows \ Columns /\ IsFiniteSet(Rows)
  /\ Columns \subseteq Rows \cap 0 .. NoLimit
  /\ DefaultVelocity \in Nat /\ Velocities = 0 .. DefaultVelocity
  /\ NoLimit \in 1 .. 255 /\ Durations = 1 .. NoLimit
  /\ PoolSize \in Nat /\ 4 * Cardinality(Columns) < PoolSize

VARIABLES
  lists, nodes, totalGridColumns, fault,  \* the grid, see GridManager
  switchQueue,   \* g_SwitchMatrixQueueHandle: columns pressed
  menuToSystem,  \* g_MenuToSystemQueueHandle
  systemToMenu,  \* g_SystemToMenuQueueHandle
  pc,            \* where the task stands in its loop
  params         \* midiEventParams

UsedRows == {Row}

Grid == INSTANCE GridManager

gridVars   == <<lists, nodes, totalGridColumns, fault>>
queueVars  == <<switchQueue, menuToSystem, systemToMenu>>
systemVars == <<gridVars, queueVars, pc, params>>

List == lists[Row]

(* midiEventParams is an uninitialized local until the first press.        *)
NoColumn == -1
Unset == [col |-> NoColumn, dur |-> 0, vel |-> 0, steps |-> 0]

(* xQueueSend with no wait on a queue of one item.                         *)
SendOrDrop(queue, message) == IF queue = <<>> THEN <<message>> ELSE queue

-----------------------------------------------------------------------------
(* One pass of the task polls the menu queue, then the switch queue, then  *)
(* sleeps.                                                                 *)

(* Mutant: the next note of the row is ignored.                            *)
AnnouncementUnlimited(p) ==
  [col |-> p.col, vel |-> p.vel, dur |-> p.dur, max |-> NoLimit]

(* The column is history: the menu is not told which note it shows.        *)
Announcement(p) ==
  [col |-> p.col, vel |-> p.vel, dur |-> p.dur,
   max |-> IF p.steps = 0 THEN NoLimit ELSE p.steps]

ReceiveEdit ==
  /\ pc = "menu" /\ fault = "" /\ menuToSystem # <<>>
  /\ LET edit == Head(menuToSystem)
         updated == IF edit.op = 2 THEN [params EXCEPT !.vel = edit.value]
                                   ELSE [params EXCEPT !.dur = edit.value]
     IN /\ params' = updated
        /\ Grid!UpdateNote(Row, params.col, updated.dur, updated.vel)
  /\ menuToSystem' = <<>>
  /\ pc' = "switch"
  /\ UNCHANGED <<switchQueue, systemToMenu>>

NoEdit ==
  /\ pc = "menu" /\ fault = "" /\ menuToSystem = <<>>
  /\ pc' = "switch"
  /\ UNCHANGED <<gridVars, queueVars, params>>

(* Mutant: the message is built before the query's answer is stored.       *)
PressOnNoteStale ==
  /\ pc = "switch" /\ fault = "" /\ switchQueue # <<>>
  /\ LET c == Head(switchQueue)
         q == Grid!NoteAt(List, c)
     IN /\ q.found
        /\ params' = [col |-> q.col, dur |-> q.dur, vel |-> q.vel, steps |-> q.steps]
        /\ systemToMenu' = SendOrDrop(systemToMenu, Announcement(params))
        /\ UNCHANGED gridVars
  /\ switchQueue' = <<>>
  /\ pc' = "menu"
  /\ UNCHANGED menuToSystem

(* The press falls on a note, which is announced at once: the task has     *)
(* raised its priority above the menu task's.                              *)
PressOnNote ==
  /\ pc = "switch" /\ fault = "" /\ switchQueue # <<>>
  /\ LET c == Head(switchQueue)
         q == Grid!NoteAt(List, c)
         note == [col |-> q.col, dur |-> q.dur, vel |-> q.vel, steps |-> q.steps]
     IN /\ q.found
        /\ IF Grid!QueryFault(List, c)
             THEN /\ Grid!FailAssertion("query")
                  /\ UNCHANGED <<params, systemToMenu>>
             ELSE /\ params' = note
                  /\ systemToMenu' = SendOrDrop(systemToMenu, Announcement(note))
                  /\ UNCHANGED gridVars
  /\ switchQueue' = <<>>
  /\ pc' = "menu"
  /\ UNCHANGED menuToSystem

(* Mutant: the new note is entered one step after the press.               *)
PressOnEmptyLate ==
  /\ pc = "switch" /\ fault = "" /\ switchQueue # <<>>
  /\ LET c == Head(switchQueue)
         q == Grid!NoteAt(List, c)
     IN /\ ~q.found
        /\ params' = [col |-> c, dur |-> 1, vel |-> DefaultVelocity, steps |-> q.steps]
        /\ IF Grid!QueryFault(List, c)
             THEN Grid!FailAssertion("query")
             ELSE Grid!AddNote(Row, c + 1, 1, DefaultVelocity)
  /\ switchQueue' = <<>>
  /\ pc' = "notify"
  /\ UNCHANGED <<menuToSystem, systemToMenu>>

(* The press falls on an empty step: a note of one step is added there.    *)
(* The LED update that follows sleeps, and the menu task runs before the   *)
(* note is announced.                                                      *)
PressOnEmpty ==
  /\ pc = "switch" /\ fault = "" /\ switchQueue # <<>>
  /\ LET c == Head(switchQueue)
         q == Grid!NoteAt(List, c)
     IN /\ ~q.found
        /\ params' = [col |-> c, dur |-> 1, vel |-> DefaultVelocity, steps |-> q.steps]
        /\ IF Grid!QueryFault(List, c)
             THEN Grid!FailAssertion("query")
             ELSE Grid!AddNote(Row, c, 1, DefaultVelocity)
  /\ switchQueue' = <<>>
  /\ pc' = "notify"
  /\ UNCHANGED <<menuToSystem, systemToMenu>>

Notify ==
  /\ pc = "notify" /\ fault = ""
  /\ systemToMenu' = SendOrDrop(systemToMenu, Announcement(params))
  /\ pc' = "menu"
  /\ UNCHANGED <<gridVars, switchQueue, menuToSystem, params>>

NoPress ==
  /\ pc = "switch" /\ fault = "" /\ switchQueue = <<>>
  /\ pc' = "menu"
  /\ UNCHANGED <<gridVars, queueVars, params>>

SystemStep ==
  ReceiveEdit \/ NoEdit \/ PressOnNote \/ PressOnEmpty \/ Notify \/ NoPress

-----------------------------------------------------------------------------
(* A switch event from the switch matrix task.                             *)
Press(c) ==
  /\ fault = ""
  /\ switchQueue' = SendOrDrop(switchQueue, c)
  /\ UNCHANGED <<gridVars, menuToSystem, systemToMenu, pc, params>>

TakeAnnouncement ==
  /\ fault = "" /\ systemToMenu # <<>>
  /\ systemToMenu' = <<>>
  /\ UNCHANGED <<gridVars, switchQueue, menuToSystem, pc, params>>

Edits == [op : {2}, value : Velocities] \cup [op : {3}, value : 0 .. NoLimit]

SendEdit(e) ==
  /\ fault = "" /\ params # Unset
  /\ menuToSystem' = SendOrDrop(menuToSystem, e)
  /\ UNCHANGED <<gridVars, switchQueue, systemToMenu, pc, params>>

PowerCycle ==
  /\ Grid!PowerCycle
  /\ switchQueue' = <<>> /\ menuToSystem' = <<>> /\ systemToMenu' = <<>>
  /\ pc' = "menu" /\ params' = Unset

SystemInit ==
  /\ Grid!Init
  /\ switchQueue = <<>> /\ menuToSystem = <<>> /\ systemToMenu = <<>>
  /\ pc = "menu" /\ params = Unset

SystemNext ==
  \/ SystemStep
  \/ \E c \in Columns : Press(c)
  \/ TakeAnnouncement
  \/ \E e \in Edits : SendEdit(e)
  \/ PowerCycle

SystemSpec == SystemInit /\ [][SystemNext]_systemVars

-----------------------------------------------------------------------------
SystemTypeOK ==
  /\ Grid!TypeOK
  /\ pc \in {"menu", "switch", "notify"}
  /\ params \in [col : Columns \cup {NoColumn}, dur : 0 .. 255,
                  vel : Velocities, steps : 0 .. 255]
  /\ switchQueue = <<>> \/ \E c \in Columns : switchQueue = <<c>>
  /\ menuToSystem = <<>> \/ \E e \in Edits : menuToSystem = <<e>>
  /\ Len(systemToMenu) <= 1

(* gridManager.c:286-288, 300-302, 329: note-ons and note-offs of a row    *)
(* come in pairs, even after edits that reached the wrong note, so none of *)
(* the assertions about missing partners fails.                            *)
RowsAlternate == \A r \in Rows : Grid!Alternates(lists[r])

(* The only assertion the user can bring to fail is the one of an edit     *)
(* whose note is not found. Presses never fail one, and the pool lasts.    *)
OnlyEditsFail == fault \in {"", "noEvent"}

(* A press taken off the queue leaves its column under a note, whatever    *)
(* state earlier edits have left the row in, unless the device halts.      *)
PressesMakeNotes ==
  [][(switchQueue # <<>> /\ switchQueue' = <<>> /\ fault' = fault)
       => Grid!NoteAt(List', Head(switchQueue)).found]_systemVars

(* gridManager.c:359, "Shouldnt be trying to update events that dont       *)
(* exist".                                                                 *)
EditsFindTheirNote == fault # "noEvent"

(* Whatever the menu sends, whenever it sends it.                          *)
RowsSurviveAnyMenu == SystemTypeOK /\ RowsAlternate /\ OnlyEditsFail
=============================================================================
