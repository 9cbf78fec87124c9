------------------------------ MODULE NoteGrid ------------------------------
(***************************************************************************)
(* What the grid promises its callers: a set of notes, each covering some  *)
(* steps of one row, no two of which overlap. GridManager keeps the same   *)
(* information as lists of note-on and note-off events.                    *)
(***************************************************************************)
EXTENDS Integers

CONSTANTS
  Rows,        \* rows of the virtual grid, one per midi note number
  Columns,     \* columns at which a note may start
  Durations,   \* durations in steps
  Velocities   \* velocities of a note-on

VARIABLE notes

Note == [row : Rows, col : Columns, dur : Durations, vel : Velocities]

Covers(n, r, c) == n.row = r /\ n.col <= c /\ c < n.col + n.dur

Disjoint(m, n) ==
  m.row = n.row => (m.col + m.dur <= n.col \/ n.col + n.dur <= m.col)

-----------------------------------------------------------------------------
Init == notes = {}

AddNote(n) ==
  /\ \A m \in notes : Disjoint(m, n)
  /\ notes' = notes \cup {n}

(* Only velocity and duration of a note can be edited.                     *)
EditNote(n, d, v) ==
  LET edited == [n EXCEPT !.dur = d, !.vel = v] IN
    /\ n \in notes
    /\ \A m \in notes \ {n} : Disjoint(m, edited)
    /\ notes' = (notes \ {n}) \cup {edited}

RemoveNote(n) ==
  /\ n \in notes
  /\ notes' = notes \ {n}

(* The grid is emptied as a whole: a reset of the grid, or a power cycle.  *)
Clear == notes' = {}

Next ==
  \/ \E n \in Note : AddNote(n)
  \/ \E n \in Note, d \in Durations, v \in Velocities : EditNote(n, d, v)
  \/ \E n \in Note : RemoveNote(n)
  \/ Clear

Spec == Init /\ [][Next]_notes

-----------------------------------------------------------------------------
TypeOK == notes \subseteq Note

(* No step of a row belongs to two notes.                                  *)
NoOverlap == \A m, n \in notes : m # n => Disjoint(m, n)
=============================================================================
