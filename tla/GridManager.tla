---------------------------- MODULE GridManager -----------------------------
(***************************************************************************)
(* The grid manager: one list of note events per midi note, cut from one   *)
(* pool of nodes, behind the public operations of gridManager.c. Each      *)
(* operation runs to completion in the system task, so it is one step. A   *)
(* failed assertion halts the device (fault names the assertion) until it  *)
(* is power cycled.                                                        *)
(*                                                                         *)
(* The operations trust their callers to have queried the grid first.      *)
(* CallerNext makes exactly the calls the comments allow; the module that  *)
(* composes the system task makes the calls the code makes.                *)
(***************************************************************************)
EXTENDS GridRow

CONSTANTS
  Rows,        \* 0 .. TOTAL_MIDI_NOTES - 1
  UsedRows,    \* the rows the callers work on
  Columns,     \* columns the callers work on
  Durations,   \* note durations in steps
  Velocities,  \* note velocities
  PoolSize     \* NUMBER_NODES_TOTAL

(* The columns and the durations fit the uint8_t they are kept in. The rows *)
(* of the switches (0x34 and up) are no columns: the duplicate check reads *)
(* the row numbered as the column.                                         *)
ASSUME GridAssumption ==
  /\ UsedRows \subseteq Rows
  /\ Columns \subseteq Rows \cap 0 .. 255
  /\ UsedRows \cap Columns = {}
  /\ Durations \subseteq 1 .. 255
  /\ IsFiniteSet(Rows)
  /\ PoolSize \in Nat \ {0}

VARIABLES
  lists,             \* the event list of each row
  nodes,             \* currNodeIdx, the pool nodes handed out
  totalGridColumns,  \* g_GridData.totalGridColumns
  fault              \* "" or the assertion that failed

vars == <<lists, nodes, totalGridColumns, fault>>

Init ==
  /\ lists = [r \in Rows |-> <<>>]
  /\ nodes = 0
  /\ totalGridColumns = 0
  /\ fault = ""

FailAssertion(what) ==
  /\ fault' = what
  /\ UNCHANGED <<lists, nodes, totalGridColumns>>

-----------------------------------------------------------------------------
(* gridManager_addNewMidiEventToGrid for a note-on of d > 0 steps.         *)

Inserts(list, c) == list # <<>> /\ c < list[Len(list)].col

(* The assertions in the order they are reached. The duplicate check       *)
(* passes the column as the row and the row as the column. The pool keeps  *)
(* its last node back.                                                     *)
AddFault(r, c) ==
  CASE NoteOnAt(lists[c], r) # 0 -> "duplicate"
    [] nodes >= PoolSize - 1     -> "outOfNodes"
    [] /\ Inserts(lists[r], c)
       /\ NoteAt(lists[r], c).found \/ QueryFault(lists[r], c) -> "overlap"
    [] nodes + 1 >= PoolSize - 1 -> "outOfNodes"
    [] OTHER -> ""

AddNote(r, c, d, v) ==
  LET list == lists[r]
      k == IF Inserts(list, c) THEN InsertionPoint(list, c) ELSE Len(list)
  IN /\ fault = ""
     /\ IF AddFault(r, c) # ""
          THEN FailAssertion(AddFault(r, c))
          ELSE /\ lists' = [lists EXCEPT ![r] = InsertPair(list, k, On(c, v), Off(c + d))]
               /\ nodes' = nodes + 2
               /\ totalGridColumns' = IF Inserts(list, c)
                                        THEN totalGridColumns
                                        ELSE Max({totalGridColumns, c, c + d})
               /\ UNCHANGED fault

(* gridManager_updateMidiEventParameters. totalGridColumns is not touched. *)
UpdateNote(r, c, d, v) ==
  LET i == NoteOnAt(lists[r], c)
  IN /\ fault = ""
     /\ IF i = 0 \/ NoteOffOf(lists[r], i) = 0
          THEN FailAssertion("noEvent")
          ELSE /\ lists' = [lists EXCEPT ![r] = UpdatePair(lists[r], i, d, v)]
               /\ UNCHANGED <<nodes, totalGridColumns, fault>>

(* gridManager_removeMidiEventFromGrid of a note-on.                       *)
RemoveNote(r, c) ==
  LET i == NoteOnAt(lists[r], c)
  IN /\ fault = ""
     /\ IF i = 0 \/ NoteOffOf(lists[r], i) = 0
          THEN FailAssertion("noEvent")
          ELSE /\ lists' = [lists EXCEPT ![r] = RemovePair(lists[r], i)]
               /\ nodes' = nodes - 2
               /\ UNCHANGED <<totalGridColumns, fault>>

(* gridManager_resetSequencerGrid: every row's list is freed, and freeing  *)
(* an empty list fails an assertion. totalGridColumns keeps its value.     *)
ResetGrid ==
  /\ fault = ""
  /\ IF totalGridColumns # 0 /\ \E r \in Rows : lists[r] = <<>>
       THEN FailAssertion("freeEmpty")
       ELSE /\ lists' = IF totalGridColumns # 0 THEN [r \in Rows |-> <<>>] ELSE lists
            /\ nodes' = IF totalGridColumns # 0 THEN 0 ELSE nodes
            /\ UNCHANGED <<totalGridColumns, fault>>

(* A failed assertion halts the device (CONFIG_ESP_SYSTEM_PANIC_PRINT_HALT *)
(* in sdkconfig); the grid lives in RAM, so a power cycle empties it.      *)
PowerCycle ==
  /\ fault # ""
  /\ lists' = [r \in Rows |-> <<>>]
  /\ nodes' = 0
  /\ totalGridColumns' = 0
  /\ fault' = ""

-----------------------------------------------------------------------------
(* The callers' side of the contract (gridManager.c:83-90 and 251-262):    *)
(* look before adding, and keep a note short of the next one.              *)

Fits(d, steps) == steps = 0 \/ d <= steps

MayAdd(r, c, d) ==
  LET q == NoteAt(lists[r], c) IN ~q.found /\ Fits(d, q.steps)

MayUpdate(r, c, d) ==
  LET q == NoteAt(lists[r], c) IN q.found /\ q.col = c /\ Fits(d, q.steps)

MayRemove(r, c) ==
  LET q == NoteAt(lists[r], c) IN q.found /\ q.col = c

CallerAdds ==
  \E r \in UsedRows, c \in Columns, d \in Durations, v \in Velocities :
    MayAdd(r, c, d) /\ AddNote(r, c, d, v)

CallerUpdates ==
  \E r \in UsedRows, c \in Columns, d \in Durations, v \in Velocities :
    MayUpdate(r, c, d) /\ UpdateNote(r, c, d, v)

CallerRemoves ==
  \E r \in UsedRows, c \in Columns : MayRemove(r, c) /\ RemoveNote(r, c)

CallerNext ==
  CallerAdds \/ CallerUpdates \/ CallerRemoves \/ ResetGrid \/ PowerCycle

CallerSpec == Init /\ [][CallerNext]_vars

-----------------------------------------------------------------------------
Event == [on : BOOLEAN, col : Nat, vel : Velocities \cup {127}]

TypeOK ==
  /\ lists \in [Rows -> Seq(Event)]
  /\ nodes \in Nat
  /\ totalGridColumns \in Nat
  /\ fault \in {"", "duplicate", "outOfNodes", "overlap", "noEvent", "query", "freeEmpty"}

(* Every row is a run of note-on/note-off pairs in time order, without     *)
(* overlap, whatever order the notes were added, stretched and removed in. *)
RowsWellFormed == \A r \in Rows : WellFormed(lists[r])

(* A caller that keeps to the contract never meets the assertions that     *)
(* guard it. What is left is the pool, and the reset that cannot free.     *)
ContractExcludesFaults == fault \in {"", "outOfNodes", "freeEmpty"}

(* The pool is charged for exactly the events on the grid, and never gives *)
(* out its last node.                                                      *)
PoolAccounted ==
  /\ nodes = MapThenSumSet(LAMBDA r : Len(lists[r]), Rows)
  /\ nodes < PoolSize

-----------------------------------------------------------------------------
(* The notes the lists stand for, and the abstract grid they implement.    *)

NotesOfRow(r) ==
  {[row |-> r, col |-> lists[r][i].col, vel |-> lists[r][i].vel,
    dur |-> lists[r][i + 1].col - lists[r][i].col] :
      i \in {j \in 1 .. Len(lists[r]) - 1 : lists[r][j].on}}

NotesOnGrid == UNION {NotesOfRow(r) : r \in Rows}

Abstract == INSTANCE NoteGrid WITH notes <- NotesOnGrid

(* The lists implement the abstract grid: every operation called within    *)
(* the contract adds, edits or removes exactly one note, and no note ever  *)
(* overlaps another.                                                       *)
ImplementsNoteGrid == Abstract!Spec

(* The query answers for the abstract grid: whether a note covers the      *)
(* coordinate, which one, and how far the next note of the row is.         *)
StepsAfter(r, c) ==
  LET later == {n.col : n \in {m \in NotesOfRow(r) : m.col > c}}
  IN IF later = {} THEN 0 ELSE Min(later) - c

QueryAnswersForNotes ==
  \A r \in Rows, c \in 0 .. totalGridColumns + 1 :
    LET q == NoteAt(lists[r], c)
        covering == {n \in NotesOfRow(r) : Abstract!Covers(n, r, c)}
    IN /\ ~QueryFault(lists[r], c)
       /\ q.found <=> covering # {}
       /\ \A n \in covering : q.col = n.col /\ q.dur = n.dur /\ q.vel = n.vel
       /\ q.steps = StepsAfter(r, IF q.found THEN q.col ELSE c)

(* What callers within the contract rely on, all at once: rows of notes, a  *)
(* pool that is charged for them, and no failed assertion.                 *)
GridSound == TypeOK /\ RowsWellFormed /\ PoolAccounted /\ ContractExcludesFaults
=============================================================================
