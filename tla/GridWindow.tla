----------------------------- MODULE GridWindow -----------------------------
(***************************************************************************)
(* The LEDs that show a window of the grid, from the lists the grid        *)
(* manager keeps, whatever order its operations were called in.            *)
(***************************************************************************)
EXTENDS GridManager, GridLeds

RowOffsets    == {n \in Rows \cap Nat : n .. n + 5 \subseteq Rows}
ColumnOffsets == 0 .. totalGridColumns + 1

Covered(r, c) == \E n \in NotesOfRow(r) : Abstract!Covers(n, r, c)

(* Every LED of every window is compared with a predicate on its row and   *)
(* column of the grid.                                                     *)
ForEachLed(P(_, _, _, _)) ==
  \A ro \in RowOffsets, co \in ColumnOffsets :
    LET panel == Registers(Image(lists, ro, co))
    IN \A r \in PanelRows, c \in PanelColumns :
         P(panel[LedRegister(r, c)], r + ro, c + co, co)

(* The note columns of a window are lit, wherever the notes start and end, *)
(* at the LED of their row and column, and working it out never fails      *)
(* (gridManager.c:808-815: the LEDs display "any events which fall within" *)
(* the window).                                                            *)
NotesAreLit ==
  /\ \A r \in Rows, co \in ColumnOffsets : ~LedFault(lists[r], co)
  /\ ForEachLed(LAMBDA lit, r, c, co : Covered(r, c) => lit)

(* An LED without a note is dark, except in the rows the code floods from  *)
(* edge to edge: a note starts beyond the window, and either another one   *)
(* starts inside it or none starts before that. The system only shows the  *)
(* window every press lies in, where no note starts beyond it.             *)
Flooded(r, co) ==
  LET starts == {n.col : n \in NotesOfRow(r)}
      early  == {c \in starts : c < co + Width}
  IN early # starts /\ (early = {} \/ Max(early) >= co)

DarkWithoutNote ==
  ForEachLed(LAMBDA lit, r, c, co : lit => Covered(r, c) \/ Flooded(r, co))

(* For every window, the LEDs are on where notes are and off elsewhere.    *)
WindowShowsNotes == NotesAreLit /\ DarkWithoutNote
=============================================================================
