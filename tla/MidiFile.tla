------------------------------ MODULE MidiFile ------------------------------
(***************************************************************************)
(* The grid written as the track of a midi file and read back              *)
(* (gridManager.c, midiHelper.c). A track is a sequence of bytes: per      *)
(* event a delta time of one to four bytes, a status byte, the note and    *)
(* the velocity, and the end-of-track message. The header and the size     *)
(* field are the same for every grid and are left out. A file the          *)
(* sequencer wrote holds note events of channel 0 only.                    *)
(***************************************************************************)
EXTENDS GridRow, SequencesExt

CONSTANT TicksPerColumn   \* sequencerPPQN * 4 / projectQuantization

NoteOn     == 144
NoteOff    == 128
MetaMsg    == 255
EndOfTrack == <<0, 255, 47, 0>>

-----------------------------------------------------------------------------
(* Variable length quantities: seven bits per byte, the most significant   *)
(* byte first, bit 7 set in all but the last.                              *)

VarLenBytes(n) == First({k \in 1 .. 4 : n < 128 ^ k})

VarLen(n) ==
  LET k == VarLenBytes(n)
  IN [i \in 1 .. k |-> ((n \div 128 ^ (k - i)) % 128) + (IF i < k THEN 128 ELSE 0)]

(* processMidiFileDeltaTime: the value of the bytes from p on.             *)
DeltaTimeAt(bytes, p) ==
  LET last == First({i \in p .. Len(bytes) : bytes[i] < 128})
      Value[i \in p .. last] ==
        (bytes[i] % 128) + (IF i = p THEN 0 ELSE 128 * Value[i - 1])
  IN Value[last]

(* getDeltaTimeVariableLengthNumBytes: the length the reader steps over.   *)
(* It counts bytes of eight bits.                                          *)
DeltaTimeNumBytes(n) == First({k \in 1 .. 4 : k = 4 \/ n < 256 ^ k})

-----------------------------------------------------------------------------
(* gridManager_gridDataToMidiFile. For each column up to the recorded      *)
(* number, for each row: the run of events at that column that starts at   *)
(* the first event not before it.                                          *)

RunAt(list, c) ==
  LET i == First({k \in DOMAIN list : list[k].col >= c})
      j == Final({k \in DOMAIN list :
                    i # 0 /\ k >= i /\ \A m \in i .. k : list[m].col = c})
  IN IF j = 0 THEN <<>> ELSE SubSeq(list, i, j)

(* The saved events in file order, each with its row.                      *)
SavedEvents(lists, total) ==
  LET rows == Cardinality(DOMAIN lists)
      AtCell(r, c) ==
        LET run == RunAt(lists[r], c)
        IN [i \in DOMAIN run |-> [row |-> r, event |-> run[i]]]
  IN FlattenSeq([c \in 1 .. total + 1 |->
                   FlattenSeq([r \in 1 .. rows |-> AtCell(r - 1, c - 1)])])

(* Mutant: the time of the first event is left out.                        *)
DeltaTimeFromFirst(events, i) ==
  IF i = 1 THEN 0
           ELSE (events[i].event.col - events[i - 1].event.col) * TicksPerColumn

(* generateDeltaTimesForCurrentGrid.                                       *)
DeltaTime(events, i) ==
  LET previous == IF i = 1 THEN 0 ELSE events[i - 1].event.col
  IN (events[i].event.col - previous) * TicksPerColumn

EventBytes(events, i) ==
  VarLen(DeltaTime(events, i)) \o
    <<IF events[i].event.on THEN NoteOn ELSE NoteOff, events[i].row, events[i].event.vel>>

Track(lists, total) ==
  LET events == SavedEvents(lists, total)
  IN FlattenSeq([i \in DOMAIN events |-> EventBytes(events, i)]) \o EndOfTrack

-----------------------------------------------------------------------------
(* gridManager_midiFileToGrid frees the grid and then reads event after    *)
(* event. Every event is added on its own, by                              *)
(* gridManager_addNewMidiEventToGrid with a duration of zero.              *)

(* The reset state of the grid.                                            *)
Empty(rows) == [lists |-> [r \in rows |-> <<>>], total |-> 0, fault |-> ""]

(* freeAllGridData: the rows are freed one after another, and freeing an   *)
(* empty one fails an assertion (genericDLL.c:151).                        *)
FreeAllGridData(rowLists) ==
  IF \E r \in DOMAIN rowLists : rowLists[r] = <<>>
    THEN [lists |-> rowLists, total |-> 0, fault |-> "freeEmpty"]
    ELSE Empty(DOMAIN rowLists)

(* Mutant: events of one column are put in front of each other.            *)
AddEventInFront(grid, row, e) ==
  LET list == grid.lists[row]
      k == InsertionPoint(list, e.col - 1)
  IN [grid EXCEPT !.lists[row] = SubSeq(list, 1, k) \o <<e>> \o SubSeq(list, k + 1, Len(list))]

(* The columns of a file never decrease, so an event goes to the end. The  *)
(* duplicate check looks at the transposed coordinate, as for a note.      *)
AddEvent(grid, row, e) ==
  LET list == grid.lists[e.col]
      transposed == {i \in DOMAIN list :
                       /\ list[i].on = e.on /\ list[i].col = row
                       /\ \A j \in 1 .. i - 1 : list[j].col <= row}
  IN IF transposed # {} THEN [grid EXCEPT !.fault = "duplicate"]
     ELSE [lists |-> [grid.lists EXCEPT ![row] = Append(@, e)], total |-> grid.total, fault |-> ""]

(* The loop ends with the end of the track or with a failed assertion.     *)
Ended(grid) == grid.total # 0 \/ grid.fault # ""

(* One event of the file. A byte that is no status byte where one is       *)
(* expected means a corrupt file.                                          *)
ReadEvent(bytes, reader) ==
  LET delta  == DeltaTimeAt(bytes, reader.at)
      q      == reader.at + DeltaTimeNumBytes(delta)
      column == reader.column + delta \div TicksPerColumn
      event  == IF bytes[q] = NoteOn THEN On(column, bytes[q + 2])
                ELSE [Off(column) EXCEPT !.vel = bytes[q + 2]]
  IN IF Ended(reader.grid) THEN reader
     ELSE CASE bytes[q] = MetaMsg -> [reader EXCEPT !.grid.total = column + 1]
            [] bytes[q] \in {NoteOn, NoteOff} ->
                 [at     |-> q + 3,
                  column |-> column,
                  grid   |-> AddEvent(reader.grid, bytes[q + 1], event)]
            [] OTHER -> [reader EXCEPT !.grid.fault = "corrupt"]

(* The loop of the function, from the reset state.                         *)
ReadTrack(bytes, rows) ==
  LET Read[k \in 0 .. Len(bytes)] ==
        IF k = 0 THEN [at |-> 1, column |-> 0, grid |-> Empty(rows)]
        ELSE ReadEvent(bytes, Read[k - 1])
  IN Read[Len(bytes)].grid

(* The whole function, called with this on the grid.                       *)
Load(rowLists, bytes) ==
  LET freed == FreeAllGridData(rowLists)
  IN IF freed.fault # "" THEN freed ELSE ReadTrack(bytes, DOMAIN rowLists)
=============================================================================
