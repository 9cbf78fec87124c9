------------------------------ MODULE GridLeds ------------------------------
(***************************************************************************)
(* How the LEDs of the switch grid show a window of the virtual grid:      *)
(* gridManager_updateGridLEDs works out the lit columns of each row,       *)
(* ledDrivers.c writes the image into the PWM registers of four driver     *)
(* chips, one burst per column. A colour is lit (green) or off.            *)
(***************************************************************************)
EXTENDS GridRow

CONSTANT Width   \* NUM_SEQUENCER_PHYSICAL_COLUMNS

ASSUME WidthAssumption == Width \in 1 .. 8

PanelRows    == 0 .. 5          \* NUM_SEQUENCER_PHYSICAL_ROWS
PanelColumns == 0 .. Width - 1

-----------------------------------------------------------------------------
(* The walk along one row's list. An event inside the window lights the    *)
(* columns of its note: a note-on its whole duration, continuing behind    *)
(* its note-off, the first note-off what reaches in from the left. When    *)
(* the next event is beyond the window, the walk ends, and the whole row   *)
(* lights if the event just visited was a note-on.                         *)

Inside(e, offset) == e.col \in offset .. offset + Width - 1

LitByEvent(list, i, offset, once) ==
  LET e   == list[i]
      end == list[NoteOffOf(list, i)].col
  IN IF ~Inside(e, offset) THEN {}
     ELSE IF e.on THEN {c \in PanelColumns : e.col <= c + offset /\ c + offset < end}
     ELSE IF once THEN {c \in PanelColumns : c + offset < e.col}
     ELSE {}

(* Where the walk has been: at every event but the note-offs it continues  *)
(* behind, as far as the first that is beyond the window. It always looks  *)
(* at the head.                                                            *)
Behind(list, offset) ==
  {NoteOffOf(list, i) : i \in {j \in DOMAIN list : list[j].on /\ Inside(list[j], offset)}}

Visited(list, offset) ==
  {i \in DOMAIN list \ Behind(list, offset) :
     \A j \in 2 .. i : j \in Behind(list, offset) \/ list[j].col < offset + Width}

LitColumns(list, offset) ==
  LET n         == Len(list)
      visited   == Visited(list, offset)
      leftAlone == DOMAIN list \ (visited \cup Behind(list, offset))
      ended     == {j \in visited : ~list[j].on /\ Inside(list[j], offset)}
  IN IF n = 0 \/ list[n].col < offset THEN {}
     ELSE IF leftAlone # {} /\ list[Max(visited)].on THEN PanelColumns
     ELSE UNION {LitByEvent(list, i, offset, \A j \in ended : i <= j) : i \in visited}

(* A note-on inside the window without a note-off fails an assertion.      *)
LedFault(list, offset) ==
  /\ list # <<>> /\ list[Len(list)].col >= offset
  /\ \E i \in DOMAIN list :
       list[i].on /\ Inside(list[i], offset) /\ NoteOffOf(list, i) = 0

(* The image handed to the drivers, row by row.                            *)
Image(lists, rowOffset, columnOffset) ==
  [x \in PanelRows \X PanelColumns |->
     x[2] \in LitColumns(lists[x[1] + rowOffset], columnOffset)]

-----------------------------------------------------------------------------
(* The drivers. The LED of a row and column sits at the registers of       *)
(* ledDriverPwmAddrRGB, from its green one on: chip column / 2, line 1 for *)
(* even columns and 0 for odd ones, and a current sink that follows the    *)
(* routing of the board.                                                   *)

CurrentSink == <<0, 15, 6, 9, 12, 3>>

LineBase(column) == IF column % 2 = 0 THEN 18 ELSE 0

LedRegister(row, column) ==
  <<column \div 2, LineBase(column) + CurrentSink[row + 1]>>

(* Mutant: the rows of a column are sent in the order they are in.         *)
BurstOrderStraight(p) == p

(* ledDrivers_writeSingleGridColumn: one burst from the first register of  *)
(* the column's line, three registers per LED; position p of the burst     *)
(* carries this row's colour.                                              *)
BurstOrder(p) == <<0, 5, 2, 3, 4, 1>>[p + 1]

ColumnBurst(colours, column) ==
  [x \in {<<column \div 2, LineBase(column) + 3 * p>> : p \in PanelRows} |->
     colours[BurstOrder((x[2] - LineBase(column)) \div 3)]]

(* ledDrivers_writeEntireGrid: every column in turn; a register holds what *)
(* the last burst over it carried.                                         *)
Registers(image) ==
  LET burst == [c \in PanelColumns |->
                  ColumnBurst([r \in PanelRows |-> image[<<r, c>>]], c)]
      over(x) == {c \in PanelColumns : x \in DOMAIN burst[c]}
  IN [x \in UNION {DOMAIN burst[c] : c \in PanelColumns} |-> burst[Max(over(x))][x]]
=============================================================================
