----------------------------- MODULE GridViews ------------------------------
(***************************************************************************)
(* What is derived from the grid: the LEDs of GridWindow, and the midi     *)
(* file it is saved to and loaded from.                                    *)
(***************************************************************************)
EXTENDS GridWindow, MidiFile

(* What the file can hold: the rows are numbered from 0 on, the columns of  *)
(* the events number rows without notes, and a delta time of so many       *)
(* columns fits four bytes.                                                *)
FileConditions ==
  /\ Rows = 0 .. Cardinality(Rows) - 1
  /\ \A c \in Columns, d \in Durations : c + d \in Rows \ UsedRows
  /\ TicksPerColumn \in Nat \ {0} /\ 510 * TicksPerColumn < 128 ^ 4

Miscounted(events) ==
  \E i \in DOMAIN events :
    DeltaTimeNumBytes(DeltaTime(events, i)) # VarLenBytes(DeltaTime(events, i))

(* Every row up to the recorded number of columns.                         *)
HoldsSavedRows(grid) ==
  \A r \in Rows :
    grid.lists[r] = SubSeq(lists[r], 1, InsertionPoint(lists[r], totalGridColumns))

(* The loop of gridManager_midiFileToGrid, given the track of a saved grid *)
(* and a grid in its reset state, never ends with another song, and ends   *)
(* with this one unless it miscounts the bytes of a delta time. That it    *)
(* does miscount, and that the code never reaches the loop, are properties *)
(* of their own below.                                                     *)
TrackRestoresGrid ==
  totalGridColumns > 0 =>
    LET events == SavedEvents(lists, totalGridColumns)
        read   == ReadTrack(Track(lists, totalGridColumns), Rows)
    IN /\ Miscounted(events) \/ read.fault = ""
       /\ read.fault = "" => HoldsSavedRows(read)

(* What the comments say of the whole function: it "converts an existing   *)
(* midi file to a grid compatable data structure" (gridManager.c:600), and *)
(* freeAllGridData, which it calls first, leaves the grid "in its reset    *)
(* state and ready for a new project to start" (gridManager.c:962-964).    *)
LoadRestoresGrid ==
  totalGridColumns > 0 /\ ~Miscounted(SavedEvents(lists, totalGridColumns)) =>
    LET loaded == Load(lists, Track(lists, totalGridColumns))
    IN loaded.fault = "" /\ HoldsSavedRows(loaded)

(* What midiHelper.c:58-61 says of getDeltaTimeVariableLengthNumBytes: "the *)
(* number of bytes required to represent it in", for the delta times of    *)
(* the grids the callers can make.                                         *)
DeltaTimeBytesCounted == ~Miscounted(SavedEvents(lists, totalGridColumns))
=============================================================================
