-------------------------- MODULE SequencerProofs ---------------------------
(***************************************************************************)
(* The system task keeps its row in order and fails no assertion but the   *)
(* one of an edit whose note is gone, whatever a menu sends; the real menu *)
(* is such a menu; and a user who waits for the screen edits the note that *)
(* is shown. The rules of the grid are those of GridManagerProofs, whose   *)
(* lemmas are about rows and hold for every caller.                        *)
(***************************************************************************)
EXTENDS Sequencer, FiniteSetTheorems, TLAPS

Rules == INSTANCE GridManagerProofs WITH Width <- 8, TicksPerColumn <- 96

LEMMA ColumnsFinite == IsFiniteSet(Columns) /\ Cardinality(Columns) \in Nat
<1>1. 0 \in Int /\ NoLimit \in Int
  BY SystemTaskAssumption
<1>2. IsFiniteSet(0 .. NoLimit)
  BY <1>1, FS_Interval
<1>3. IsFiniteSet(Columns)
  BY <1>2, SystemTaskAssumption, FS_Subset
<1> QED
  BY <1>3, FS_CardinalityType

LEMMA Widths ==
  /\ NoLimit \in 0 .. 255 /\ NoLimit \in Nat
  /\ Columns \subseteq 0 .. NoLimit
  /\ Durations \cup {0} = 0 .. NoLimit /\ 1 \in Durations
  /\ Columns \subseteq Nat /\ NoColumn \notin Columns
  /\ DefaultVelocity \in Velocities
<1>1. NoLimit \in 1 .. 255 /\ Columns \subseteq 0 .. NoLimit /\ Durations = 1 .. NoLimit
  BY SystemTaskAssumption
<1>2. NoLimit \in Nat /\ NoLimit \in 0 .. 255 /\ 1 <= NoLimit
  BY <1>1
<1>3. Durations \cup {0} = 0 .. NoLimit /\ 1 \in Durations
  BY <1>1, <1>2
<1>4. \A c \in Columns : c \in Nat
  BY <1>1, <1>2
<1>5. DefaultVelocity \in Velocities
  BY SystemTaskAssumption
<1> QED
  BY <1>1, <1>2, <1>3, <1>4, <1>5 DEF NoColumn

LEMMA RulesApply == Rules!GridAssumption /\ Rules!WidthAssumption
<1>1. PoolSize \in Nat \ {0}
  BY ColumnsFinite, SystemTaskAssumption
<1>2. Columns \subseteq Rows \cap 0 .. 255
  BY Widths, SystemTaskAssumption
<1>3. Durations \subseteq 1 .. 255
  BY Widths, SystemTaskAssumption
<1>4. UsedRows \subseteq Rows /\ UsedRows \cap Columns = {}
  BY SystemTaskAssumption DEF UsedRows
<1>5. Rules!GridAssumption
  BY <1>1, <1>2, <1>3, <1>4, SystemTaskAssumption
     DEF Rules!GridAssumption, IsFiniteSet, Rules!IsFiniteSet
<1>6. Rules!WidthAssumption
  BY DEF Rules!WidthAssumption
<1> QED
  BY <1>5, <1>6

-----------------------------------------------------------------------------
(* The grid the system task calls is the one the rules are about.          *)
LEMMA SameQuery ==
  \A l, c : /\ Grid!NoteAt(l, c) = Rules!NoteAt(l, c)
            /\ Grid!QueryFault(l, c) = Rules!QueryFault(l, c)
BY DEF Grid!NoteAt, Rules!NoteAt, Grid!NoteOffOf, Rules!NoteOffOf, Grid!NextNoteOn,
   Rules!NextNoteOn, Grid!Final, Rules!Final, Grid!Scanned, Rules!Scanned, Grid!NoNote,
   Rules!NoNote, Grid!StepsToNextNoteOn, Rules!StepsToNextNoteOn, Grid!First, Rules!First,
   Grid!Max, Rules!Max, Grid!Min, Rules!Min, Grid!QueryFault, Rules!QueryFault,
   Grid!ScanFault, Rules!ScanFault

LEMMA SameSearch ==
  \A l, i, c : /\ Grid!NoteOnAt(l, c) = Rules!NoteOnAt(l, c)
               /\ Grid!NoteOffOf(l, i) = Rules!NoteOffOf(l, i)
               /\ Grid!InsertionPoint(l, c) = Rules!InsertionPoint(l, c)
               /\ Grid!Inserts(l, c) = Rules!Inserts(l, c)
BY DEF Grid!NoteOnAt, Rules!NoteOnAt, Grid!First, Rules!First, Grid!Min, Rules!Min,
   Grid!NoteOffOf, Rules!NoteOffOf, Grid!InsertionPoint, Rules!InsertionPoint,
   Grid!Final, Rules!Final, Grid!Max, Rules!Max, Grid!Inserts, Rules!Inserts

LEMMA SameUpdate ==
  ASSUME NEW r, NEW c, NEW d, NEW v
  PROVE  Grid!UpdateNote(r, c, d, v) <=> Rules!UpdateNote(r, c, d, v)
BY SameSearch DEF Grid!UpdateNote, Rules!UpdateNote, Grid!UpdatePair, Rules!UpdatePair,
   Grid!FailAssertion, Rules!FailAssertion

LEMMA SameFault ==
  ASSUME NEW r, NEW c
  PROVE  Grid!AddFault(r, c) = Rules!AddFault(r, c)
BY SameQuery, SameSearch DEF Grid!AddFault, Rules!AddFault

LEMMA SameAdd ==
  ASSUME NEW r, NEW c, NEW d, NEW v
  PROVE  Grid!AddNote(r, c, d, v) <=> Rules!AddNote(r, c, d, v)
<1>1. \A l, k, e, f : Grid!InsertPair(l, k, e, f) = Rules!InsertPair(l, k, e, f)
  BY DEF Grid!InsertPair, Rules!InsertPair
<1>2. \A S : Grid!Max(S) = Rules!Max(S)
  BY DEF Grid!Max, Rules!Max
<1>3. Grid!On(c, v) = Rules!On(c, v) /\ Grid!Off(c + d) = Rules!Off(c + d)
  BY DEF Grid!On, Rules!On, Grid!Off, Rules!Off
<1>4. \A w : Grid!FailAssertion(w) <=> Rules!FailAssertion(w)
  BY DEF Grid!FailAssertion, Rules!FailAssertion
<1> QED
  BY <1>1, <1>2, <1>3, <1>4, SameSearch, SameFault DEF Grid!AddNote, Rules!AddNote

LEMMA SameRows ==
  /\ Grid!TypeOK <=> Rules!TypeOK
  /\ \A l : /\ Grid!Alternates(l) <=> Rules!Alternates(l)
            /\ Grid!WellFormed(l) <=> Rules!WellFormed(l)
BY DEF Grid!TypeOK, Rules!TypeOK, Grid!Event, Rules!Event, Grid!Alternates, Rules!Alternates,
   Grid!WellFormed, Rules!WellFormed, Grid!Sorted, Rules!Sorted

LEMMA SameCardinality ==
  Rules!Cardinality(Columns) = Cardinality(Columns) /\ (Rules!IsFiniteSet(Columns) <=> IsFiniteSet(Columns))
BY DEF Cardinality, Rules!Cardinality, IsFiniteSet, Rules!IsFiniteSet

-----------------------------------------------------------------------------
(* What holds whatever a menu sends. The row is one of the rows presses    *)
(* and edits leave, the other rows are empty, and the pool is charged for  *)
(* the row; midiEventParams describes a step of the grid once a switch has *)
(* been pressed, which is when a menu may first send.                      *)

Lengths == 0 .. NoLimit

Params == [col : Columns \cup {NoColumn}, dur : Lengths, vel : Velocities, steps : Lengths]

Messages == [col : Columns, vel : Velocities, dur : Lengths, max : Lengths]

GridPart ==
  /\ Grid!TypeOK /\ fault \in {"", "noEvent"}
  /\ Rules!PressedRow(List)
  /\ \A r \in Rows : r # Row => lists[r] = <<>>
  /\ nodes = Len(List)

ParamsPart ==
  /\ pc \in {"menu", "switch", "notify"}
  /\ params \in Params
  /\ params = Unset \/ params.col \in Columns
  /\ pc = "notify" => params # Unset

QueuePart ==
  /\ switchQueue = <<>> \/ \E c \in Columns : switchQueue = <<c>>
  /\ menuToSystem = <<>> \/ \E e \in Edits : menuToSystem = <<e>>
  /\ menuToSystem # <<>> => params # Unset
  /\ systemToMenu = <<>> \/ \E m \in Messages : systemToMenu = <<m>>

SystemInv == GridPart /\ ParamsPart /\ QueuePart

LEMMA RowTypes ==
  ASSUME GridPart
  PROVE  /\ lists \in [Rows -> Seq(Rules!Event)] /\ List \in Seq(Rules!Event)
         /\ List = lists[Row] /\ Row \in Rows /\ nodes \in Nat /\ totalGridColumns \in Nat
         /\ Rules!TypeOK
<1>1. Rules!TypeOK
  BY SameRows DEF GridPart
<1>2. /\ lists \in [Rows -> Seq(Rules!Event)] /\ Row \in Rows /\ List = lists[Row]
      /\ nodes \in Nat /\ totalGridColumns \in Nat
  BY <1>1, SystemTaskAssumption DEF Rules!TypeOK, List
<1>3. List \in Seq(Rules!Event)
  BY <1>2
<1> QED
  BY <1>1, <1>2, <1>3

LEMMA QueryBounds ==
  ASSUME NEW l \in Seq(Rules!Event), Rules!PressedRow(l), NEW c \in Nat
  PROVE  /\ ~Rules!QueryFault(l, c)
         /\ Rules!NoteAt(l, c).found =>
              /\ Rules!NoteAt(l, c).col \in Columns /\ Rules!NoteAt(l, c).vel \in Velocities
              /\ Rules!NoteAt(l, c).dur \in Durations \cup {0}
         /\ Rules!NoteAt(l, c).steps \in 0 .. NoLimit
<1>1. NoLimit \in 0 .. 255 /\ Columns \subseteq 0 .. NoLimit /\ Durations \cup {0} \subseteq 0 .. NoLimit
  BY Widths
<1>2. ~Rules!QueryFault(l, c)
  BY <1>1, RulesApply, Rules!PressedQuery, ZenonT(90)
<1>3. Rules!NoteAt(l, c).steps \in 0 .. NoLimit
  BY <1>1, RulesApply, Rules!PressedQuery, ZenonT(90)
<1>4. Rules!NoteAt(l, c).found =>
              /\ Rules!NoteAt(l, c).col \in Columns /\ Rules!NoteAt(l, c).vel \in Velocities
              /\ Rules!NoteAt(l, c).dur \in Durations \cup {0}
  BY <1>1, RulesApply, Rules!PressedQuery, ZenonT(90)
<1> QED
  BY <1>2, <1>3, <1>4

LEMMA QueryTypes ==
  ASSUME GridPart, NEW c \in Nat
  PROVE  /\ ~Grid!QueryFault(List, c)
         /\ Grid!NoteAt(List, c).found =>
              /\ Grid!NoteAt(List, c).col \in Columns /\ Grid!NoteAt(List, c).vel \in Velocities
              /\ Grid!NoteAt(List, c).dur \in Lengths
         /\ Grid!NoteAt(List, c).steps \in Lengths
<1>1. /\ List \in Seq(Rules!Event) /\ Rules!PressedRow(List) /\ NoLimit \in 0 .. 255
      /\ Columns \subseteq 0 .. NoLimit /\ Durations \cup {0} \subseteq 0 .. NoLimit
  BY RowTypes, Widths DEF GridPart
<1>2. /\ ~Rules!QueryFault(List, c)
      /\ Rules!NoteAt(List, c).found =>
           /\ Rules!NoteAt(List, c).col \in Columns /\ Rules!NoteAt(List, c).vel \in Velocities
           /\ Rules!NoteAt(List, c).dur \in Durations \cup {0}
      /\ Rules!NoteAt(List, c).steps \in 0 .. NoLimit
  BY <1>1, QueryBounds
<1> QED
  BY <1>2, SameQuery, Widths DEF Lengths

(* The row changes and the rest of the grid stays.                         *)
LEMMA RowChanges ==
  ASSUME GridPart, NEW m \in Seq(Rules!Event), Rules!PressedRow(m),
         lists' = [lists EXCEPT ![Row] = m], nodes' = Len(m), totalGridColumns' \in Nat,
         fault' \in {"", "noEvent"}
  PROVE  GridPart' /\ List' = m
<1>1. lists \in [Rows -> Seq(Rules!Event)] /\ Row \in Rows
  BY RowTypes
<1>2. List' = m
  BY <1>1 DEF List
<1>3. lists' \in [Rows -> Seq(Rules!Event)] /\ \A r \in Rows : r # Row => lists'[r] = <<>>
  BY <1>1 DEF GridPart
<1>4. nodes' \in Nat
  BY Rules!EventsOfRow, RulesApply
<1>5. Grid!TypeOK'
  BY <1>3, <1>4 DEF Grid!TypeOK, Grid!Event, Rules!Event
<1> QED
  BY <1>2, <1>3, <1>5 DEF GridPart

LEMMA RowStays ==
  ASSUME GridPart, UNCHANGED <<lists, nodes, totalGridColumns>>, fault' \in {"", "noEvent"}
  PROVE  GridPart' /\ List' = List
<1>1. List' = List
  BY DEF List
<1>2. Grid!TypeOK'
  BY DEF GridPart, Grid!TypeOK
<1> QED
  BY <1>1, <1>2 DEF GridPart

(* A press on an empty step.                                               *)
LEMMA PressAdds ==
  ASSUME GridPart, NEW c \in Columns, ~Grid!NoteAt(List, c).found,
         Grid!AddNote(Row, c, 1, DefaultVelocity)
  PROVE  /\ GridPart' /\ fault' = fault
         /\ Rules!NoteAt(List', c) = [found |-> TRUE, col |-> c, vel |-> DefaultVelocity,
                                      dur |-> 1, steps |-> Rules!NoteAt(List, c).steps]
         /\ List' = Rules!InsertPair(List, Rules!AddPoint(List, c), Rules!On(c, DefaultVelocity),
                                     Rules!Off(c + 1))
<1> DEFINE m == Rules!InsertPair(List, Rules!AddPoint(List, c), Rules!On(c, DefaultVelocity),
                                 Rules!Off(c + 1))
<1>1. /\ List \in Seq(Rules!Event) /\ Rules!PressedRow(List) /\ ~Rules!NoteAt(List, c).found
      /\ 1 \in Durations /\ DefaultVelocity \in Velocities /\ Rules!TypeOK /\ nodes \in Nat
      /\ Row \in Rows /\ List = lists[Row]
  BY RowTypes, Widths, SameQuery DEF GridPart
<1>2. /\ m \in Seq(Rules!Event) /\ Len(m) = Len(List) + 2 /\ Rules!PressedRow(m)
      /\ Rules!NoteAt(m, c) = [found |-> TRUE, col |-> c, vel |-> DefaultVelocity,
                               dur |-> 1, steps |-> Rules!NoteAt(List, c).steps]
  BY <1>1, RulesApply, Rules!PressedAdd
<1>3. nodes + 2 < PoolSize
  <2>1. Len(m) <= 4 * Cardinality(Columns)
    BY <1>2, RulesApply, Rules!PressedLength, ColumnsFinite, SameCardinality
  <2>2. Len(m) = nodes + 2
    BY <1>2 DEF GridPart
  <2> HIDE DEF m
  <2> QED
    BY <1>1, <2>1, <2>2, ColumnsFinite, SystemTaskAssumption
<1>4. lists[c] = <<>>
  BY SystemTaskAssumption DEF GridPart
<1>5. /\ lists' = [lists EXCEPT ![Row] = m]
      /\ nodes' = nodes + 2 /\ fault' = fault /\ totalGridColumns' \in Nat
  <2>1. Rules!AddNote(Row, c, 1, DefaultVelocity)
    BY SameAdd
  <2> QED
    BY <1>1, <1>3, <1>4, <2>1, RulesApply, Rules!PressStep
<1> HIDE DEF m
<1>6. nodes' = Len(m) /\ fault' \in {"", "noEvent"}
  BY <1>2, <1>5 DEF GridPart
<1>7. GridPart' /\ List' = m
  BY <1>2, <1>5, <1>6, RowChanges
<1> QED
  BY <1>2, <1>5, <1>7 DEF m

(* An edit, wherever it is meant to go.                                    *)
LEMMA EditKeepsRow ==
  ASSUME GridPart, NEW c \in Columns, NEW d \in Lengths, NEW v \in Velocities,
         Grid!UpdateNote(Row, c, d, v)
  PROVE  /\ GridPart'
         /\ \/ /\ Rules!NoteOnAt(List, c) = 0 \/ Rules!NoteOffOf(List, Rules!NoteOnAt(List, c)) = 0
            \/ /\ fault' = ""
               /\ List' = Rules!UpdatePair(List, Rules!NoteOnAt(List, c), d, v)
<1> DEFINE k == Rules!NoteOnAt(List, c)
           m == Rules!UpdatePair(List, k, d, v)
<1>1. /\ List \in Seq(Rules!Event) /\ Rules!PressedRow(List) /\ d \in Durations \cup {0}
      /\ Row \in Rows /\ List = lists[Row] /\ totalGridColumns \in Nat
  BY RowTypes, Widths DEF GridPart, Lengths
<1>2. /\ UNCHANGED <<nodes, totalGridColumns>>
      /\ \/ /\ k = 0 \/ Rules!NoteOffOf(List, k) = 0
            /\ fault' = "noEvent" /\ lists' = lists
         \/ /\ k # 0 /\ fault' = "" /\ lists' = [lists EXCEPT ![Row] = m]
  <2>1. Rules!UpdateNote(Row, c, d, v)
    BY SameUpdate
  <2>2. /\ UNCHANGED <<nodes, totalGridColumns>>
        /\ \/ /\ Rules!NoteOnAt(lists[Row], c) = 0
                 \/ Rules!NoteOffOf(lists[Row], Rules!NoteOnAt(lists[Row], c)) = 0
              /\ fault' = "noEvent" /\ lists' = lists
           \/ /\ Rules!NoteOnAt(lists[Row], c) # 0 /\ fault' = ""
              /\ lists' = [lists EXCEPT ![Row] =
                   Rules!UpdatePair(lists[Row], Rules!NoteOnAt(lists[Row], c), d, v)]
    BY <1>1, <2>1, RulesApply, Rules!EditStep, ZenonT(60)
  <2> QED
    BY <2>2 DEF List
<1>3. CASE (k = 0 \/ Rules!NoteOffOf(List, k) = 0) /\ fault' = "noEvent" /\ lists' = lists
  BY <1>2, <1>3, RowStays
<1>4. CASE k # 0 /\ fault' = "" /\ lists' = [lists EXCEPT ![Row] = m]
  <2>1. m \in Seq(Rules!Event) /\ Len(m) = Len(List) /\ Rules!PressedRow(m)
    <3> DEFINE l == List
    <3>1. l \in Seq(Rules!Event) /\ Rules!PressedRow(l) /\ d \in Durations \cup {0}
          /\ Rules!NoteOnAt(l, c) # 0
      BY <1>1, <1>4
    <3> HIDE DEF l
    <3>2. /\ Rules!UpdatePair(l, Rules!NoteOnAt(l, c), d, v) \in Seq(Rules!Event)
          /\ Len(Rules!UpdatePair(l, Rules!NoteOnAt(l, c), d, v)) = Len(l)
          /\ Rules!PressedRow(Rules!UpdatePair(l, Rules!NoteOnAt(l, c), d, v))
      BY <3>1, RulesApply, Rules!PressedUpdate
    <3> QED
      BY <3>2 DEF l
  <2>2. nodes' = Len(m) /\ totalGridColumns' \in Nat
    BY <1>1, <1>2, <2>1 DEF GridPart
  <2>3. GridPart' /\ List' = m
    BY <1>4, <2>1, <2>2, RowChanges
  <2> QED
    BY <1>4, <2>3
<1> QED
  BY <1>2, <1>3, <1>4

-----------------------------------------------------------------------------
(* One lemma per action of the system task and of its surroundings.        *)
LEMMA PressedColumn ==
  ASSUME QueuePart, switchQueue # <<>>
  PROVE  Head(switchQueue) \in Columns /\ Head(switchQueue) \in Nat
<1>1. PICK c \in Columns : switchQueue = <<c>>
  BY DEF QueuePart
<1> QED
  BY <1>1, Widths

LEMMA EditUpdatesParams ==
  ASSUME NEW p \in Params, NEW e \in Edits
  PROVE  LET u == IF e.op = 2 THEN [p EXCEPT !.vel = e.value] ELSE [p EXCEPT !.dur = e.value]
         IN u \in Params /\ u.col = p.col
<1>1. e.op = 2 => e.value \in Velocities
  BY DEF Edits
<1>2. e.op # 2 => e.value \in Lengths
  BY DEF Edits, Lengths
<1> QED
  BY <1>1, <1>2 DEF Params

LEMMA ReceiveEditSafe == SystemInv /\ ReceiveEdit => SystemInv'
<1> SUFFICES ASSUME SystemInv, ReceiveEdit PROVE SystemInv'
  OBVIOUS
<1> DEFINE e == Head(menuToSystem)
           u == IF e.op = 2 THEN [params EXCEPT !.vel = e.value]
                            ELSE [params EXCEPT !.dur = e.value]
<1>1. /\ menuToSystem # <<>> /\ params' = u /\ Grid!UpdateNote(Row, params.col, u.dur, u.vel)
      /\ menuToSystem' = <<>> /\ pc' = "switch" /\ UNCHANGED <<switchQueue, systemToMenu>>
  BY DEF ReceiveEdit
<1>2. e \in Edits /\ params \in Params /\ params.col \in Columns
  <2>1. PICK x \in Edits : menuToSystem = <<x>>
    BY <1>1 DEF SystemInv, QueuePart
  <2>2. params # Unset
    BY <1>1 DEF SystemInv, QueuePart
  <2> QED
    BY <2>1, <2>2 DEF SystemInv, ParamsPart
<1>3. u \in Params /\ u.col = params.col
  BY <1>2, EditUpdatesParams
<1> HIDE DEF e, u
<1>4. u.dur \in Lengths /\ u.vel \in Velocities
  BY <1>3 DEF Params
<1>5. GridPart'
  BY <1>1, <1>2, <1>4, EditKeepsRow DEF SystemInv
<1>6. ParamsPart'
  BY <1>1, <1>2, <1>3 DEF ParamsPart
<1>7. QueuePart'
  BY <1>1 DEF SystemInv, QueuePart
<1> QED
  BY <1>5, <1>6, <1>7 DEF SystemInv

(* A message describes what the task last described.                       *)
LEMMA Announced ==
  ASSUME NEW p \in Params, p.col \in Columns
  PROVE  Announcement(p) \in Messages
<1>1. p.steps \in Lengths /\ NoLimit \in Lengths /\ p.dur \in Lengths /\ p.vel \in Velocities
  BY Widths DEF Params, Lengths
<1> QED
  BY <1>1 DEF Announcement, Messages

LEMMA AnnouncementSent ==
  ASSUME QueuePart, NEW p \in Params, p.col \in Columns,
         systemToMenu' = SendOrDrop(systemToMenu, Announcement(p))
  PROVE  systemToMenu' = <<>> \/ \E m \in Messages : systemToMenu' = <<m>>
BY Announced DEF QueuePart, SendOrDrop

LEMMA PressOnNoteSafe == SystemInv /\ PressOnNote => SystemInv' /\ fault' = fault
<1> SUFFICES ASSUME SystemInv, PressOnNote PROVE SystemInv' /\ fault' = fault
  OBVIOUS
<1> DEFINE c == Head(switchQueue)
           q == Grid!NoteAt(List, c)
           note == [col |-> q.col, dur |-> q.dur, vel |-> q.vel, steps |-> q.steps]
<1>1. c \in Columns /\ c \in Nat
  BY PressedColumn DEF PressOnNote, SystemInv
<1>2. q.found
  BY DEF PressOnNote
<1>3. ~Grid!QueryFault(List, c) /\ note \in Params /\ note.col \in Columns
  <2> HIDE DEF c
  <2>1. ~Grid!QueryFault(List, c) /\ q.col \in Columns /\ q.vel \in Velocities
        /\ q.dur \in Lengths /\ q.steps \in Lengths
    BY <1>1, <1>2, QueryTypes DEF SystemInv
  <2> HIDE DEF q
  <2> QED
    BY <2>1 DEF Params
<1>4. /\ params' = note /\ systemToMenu' = SendOrDrop(systemToMenu, Announcement(note))
      /\ UNCHANGED gridVars /\ switchQueue' = <<>> /\ pc' = "menu" /\ UNCHANGED menuToSystem
  BY <1>3 DEF PressOnNote
<1> HIDE DEF c, q, note
<1>5. GridPart' /\ fault' = fault
  BY <1>4, RowStays DEF SystemInv, GridPart, gridVars
<1>6. note # Unset
  BY <1>3, Widths DEF Unset
<1>7. ParamsPart'
  BY <1>3, <1>4 DEF ParamsPart
<1>8. systemToMenu' = <<>> \/ \E m \in Messages : systemToMenu' = <<m>>
  BY <1>3, <1>4, AnnouncementSent DEF SystemInv
<1>9. QueuePart'
  BY <1>4, <1>6, <1>8 DEF SystemInv, QueuePart
<1> QED
  BY <1>5, <1>7, <1>9 DEF SystemInv

LEMMA PressOnEmptySafe ==
  SystemInv /\ PressOnEmpty =>
    SystemInv' /\ fault' = fault /\ Rules!NoteAt(List', Head(switchQueue)).found
<1> SUFFICES ASSUME SystemInv, PressOnEmpty
             PROVE  SystemInv' /\ fault' = fault /\ Rules!NoteAt(List', Head(switchQueue)).found
  OBVIOUS
<1> DEFINE c == Head(switchQueue)
           q == Grid!NoteAt(List, c)
           note == [col |-> c, dur |-> 1, vel |-> DefaultVelocity, steps |-> q.steps]
<1>1. c \in Columns /\ c \in Nat
  BY PressedColumn DEF PressOnEmpty, SystemInv
<1>2. /\ ~q.found /\ params' = note /\ switchQueue' = <<>> /\ pc' = "notify"
      /\ UNCHANGED <<menuToSystem, systemToMenu>>
  BY DEF PressOnEmpty
<1>3. ~Grid!QueryFault(List, c) /\ note \in Params /\ note.col \in Columns
  <2> HIDE DEF c
  <2>1. ~Grid!QueryFault(List, c) /\ q.steps \in Lengths
    BY <1>1, QueryTypes DEF SystemInv
  <2>2. 1 \in Lengths /\ DefaultVelocity \in Velocities
    BY Widths DEF Lengths
  <2> HIDE DEF q
  <2> QED
    BY <1>1, <2>1, <2>2 DEF Params
<1>4. Grid!AddNote(Row, c, 1, DefaultVelocity)
  BY <1>3 DEF PressOnEmpty
<1> HIDE DEF c
<1>5. GridPart' /\ fault' = fault /\ Rules!NoteAt(List', c).found
  BY <1>1, <1>2, <1>4, PressAdds DEF SystemInv
<1>6. note # Unset
  BY <1>3, Widths DEF Unset
<1> HIDE DEF note
<1>7. ParamsPart'
  BY <1>2, <1>3, <1>6 DEF ParamsPart
<1>8. QueuePart'
  BY <1>2, <1>6 DEF SystemInv, QueuePart
<1> QED
  BY <1>5, <1>7, <1>8 DEF SystemInv, c

LEMMA NotifySafe == SystemInv /\ Notify => SystemInv'
<1> SUFFICES ASSUME SystemInv, Notify PROVE SystemInv'
  OBVIOUS
<1>1. /\ systemToMenu' = SendOrDrop(systemToMenu, Announcement(params)) /\ pc' = "menu"
      /\ UNCHANGED gridVars /\ UNCHANGED <<switchQueue, menuToSystem, params>>
      /\ pc = "notify"
  BY DEF Notify
<1>2. params \in Params /\ params.col \in Columns /\ params # Unset
  BY <1>1 DEF SystemInv, ParamsPart
<1>3. GridPart'
  BY <1>1, RowStays DEF SystemInv, GridPart, gridVars
<1>4. ParamsPart'
  BY <1>1, <1>2 DEF ParamsPart
<1>5. QueuePart'
  BY <1>1, <1>2, AnnouncementSent DEF SystemInv, QueuePart
<1> QED
  BY <1>3, <1>4, <1>5 DEF SystemInv

(* The steps that leave the grid alone.                                    *)
LEMMA OthersSafe ==
  SystemInv /\ (\/ NoEdit \/ NoPress \/ TakeAnnouncement
                \/ \E c \in Columns : Press(c)
                \/ \E e \in Edits : SendEdit(e)
                \/ UNCHANGED systemVars) => SystemInv'
<1> SUFFICES ASSUME SystemInv,
                    \/ NoEdit \/ NoPress \/ TakeAnnouncement
                    \/ \E c \in Columns : Press(c)
                    \/ \E e \in Edits : SendEdit(e)
                    \/ UNCHANGED systemVars
             PROVE  SystemInv'
  OBVIOUS
<1>1. UNCHANGED gridVars /\ UNCHANGED params
  BY DEF NoEdit, NoPress, TakeAnnouncement, Press, SendEdit, systemVars
<1>2. GridPart'
  BY <1>1, RowStays DEF SystemInv, GridPart, gridVars
<1>3. pc' = pc \/ pc' = "menu" \/ pc' = "switch"
  BY DEF NoEdit, NoPress, TakeAnnouncement, Press, SendEdit, systemVars
<1>4. ParamsPart'
  BY <1>1, <1>3 DEF SystemInv, ParamsPart
<1>5. switchQueue' = <<>> \/ \E c \in Columns : switchQueue' = <<c>>
  BY DEF SystemInv, QueuePart, NoEdit, NoPress, TakeAnnouncement, Press, SendEdit, systemVars,
         queueVars, SendOrDrop
<1>6. menuToSystem' = <<>> \/ \E e \in Edits : menuToSystem' = <<e>>
  BY DEF SystemInv, QueuePart, NoEdit, NoPress, TakeAnnouncement, Press, SendEdit, systemVars,
         queueVars, SendOrDrop
<1>7. menuToSystem' # <<>> => params # Unset
  BY DEF SystemInv, QueuePart, NoEdit, NoPress, TakeAnnouncement, Press, SendEdit, systemVars,
         queueVars
<1>8. systemToMenu' = <<>> \/ \E m \in Messages : systemToMenu' = <<m>>
  BY DEF SystemInv, QueuePart, NoEdit, NoPress, TakeAnnouncement, Press, SendEdit, systemVars,
         queueVars
<1>9. QueuePart'
  BY <1>1, <1>5, <1>6, <1>7, <1>8 DEF QueuePart
<1> QED
  BY <1>2, <1>4, <1>9 DEF SystemInv

-----------------------------------------------------------------------------
LEMMA EmptyPressed ==
  ASSUME NEW l, l = <<>>
  PROVE  l \in Seq(Rules!Event) /\ Rules!PressedRow(l) /\ Rules!RowOfNotes(l)
         /\ Len(l) = 0 /\ Rules!Alternates(l)
<1>1. l \in Seq(Rules!Event) /\ Len(l) = 0 /\ DOMAIN l = {}
  OBVIOUS
<1>2. Rules!Alternates(l) /\ Rules!Loose(l)
  BY <1>1 DEF Rules!Alternates, Rules!Loose
<1> QED
  BY <1>1, <1>2, RulesApply, Rules!EmptyRow DEF Rules!PressedRow

LEMMA EmptyGrid ==
  ASSUME lists = [r \in Rows |-> <<>>], nodes = 0, totalGridColumns = 0, fault = ""
  PROVE  GridPart
<1>1. Row \in Rows /\ List = <<>>
  BY SystemTaskAssumption DEF List
<1>2. Rules!PressedRow(List) /\ Len(List) = 0 /\ <<>> \in Seq(Rules!Event)
  BY <1>1, EmptyPressed
<1>3. lists \in [Rows -> Seq(Grid!Event)]
  BY <1>2 DEF Grid!Event, Rules!Event
<1>4. Grid!TypeOK
  BY <1>3 DEF Grid!TypeOK
<1> QED
  BY <1>1, <1>2, <1>4 DEF GridPart

LEMMA SystemInvInit == SystemInit => SystemInv
<1> SUFFICES ASSUME SystemInit PROVE SystemInv
  OBVIOUS
<1>1. GridPart
  BY EmptyGrid DEF SystemInit, Grid!Init
<1>2. Unset \in Params
  <2>1. 0 \in Lengths /\ 0 \in Velocities
    BY Widths, SystemTaskAssumption DEF Lengths
  <2> QED
    BY <2>1 DEF Unset, Params
<1>3. ParamsPart /\ QueuePart
  BY <1>2 DEF SystemInit, ParamsPart, QueuePart
<1> QED
  BY <1>1, <1>3 DEF SystemInv

LEMMA PowerCycleSafe == PowerCycle => SystemInv'
<1> SUFFICES ASSUME PowerCycle PROVE SystemInv'
  OBVIOUS
<1>1. /\ lists' = [r \in Rows |-> <<>>] /\ nodes' = 0 /\ totalGridColumns' = 0 /\ fault' = ""
  BY DEF PowerCycle, Grid!PowerCycle
<1>2. Row \in Rows /\ List' = <<>>
  BY <1>1, SystemTaskAssumption DEF List
<1>3. Rules!PressedRow(List') /\ Len(List') = 0 /\ <<>> \in Seq(Rules!Event)
  BY <1>2, EmptyPressed
<1>4. lists' \in [Rows -> Seq(Grid!Event)]
  BY <1>1, <1>3 DEF Grid!Event, Rules!Event
<1>5. Grid!TypeOK'
  BY <1>1, <1>4 DEF Grid!TypeOK
<1>6. GridPart'
  BY <1>1, <1>2, <1>3, <1>5 DEF GridPart
<1>7. Unset \in Params
  <2>1. 0 \in Lengths /\ 0 \in Velocities
    BY Widths, SystemTaskAssumption DEF Lengths
  <2> QED
    BY <2>1 DEF Unset, Params
<1>8. ParamsPart' /\ QueuePart'
  BY <1>7 DEF PowerCycle, ParamsPart, QueuePart
<1> QED
  BY <1>6, <1>8 DEF SystemInv

LEMMA SystemInvNext == SystemInv /\ [SystemNext]_systemVars => SystemInv'
<1> SUFFICES ASSUME SystemInv, [SystemNext]_systemVars PROVE SystemInv'
  OBVIOUS
<1>1. CASE ReceiveEdit
  BY <1>1, ReceiveEditSafe
<1>2. CASE PressOnNote
  BY <1>2, PressOnNoteSafe
<1>3. CASE PressOnEmpty
  BY <1>3, PressOnEmptySafe
<1>4. CASE Notify
  BY <1>4, NotifySafe
<1>5. CASE PowerCycle
  BY <1>5, PowerCycleSafe
<1>6. CASE \/ NoEdit \/ NoPress \/ TakeAnnouncement
           \/ \E c \in Columns : Press(c)
           \/ \E e \in Edits : SendEdit(e)
           \/ UNCHANGED systemVars
  BY <1>6, OthersSafe
<1> QED
  BY <1>1, <1>2, <1>3, <1>4, <1>5, <1>6 DEF SystemNext, SystemStep

(* SystemInv holds in every state of the system task, whatever menu it     *)
(* works with.                                                             *)
THEOREM SystemInvHolds == SystemSpec => []SystemInv
<1>1. SystemInit => SystemInv
  BY SystemInvInit
<1>2. SystemInv /\ [SystemNext]_systemVars => SystemInv'
  BY SystemInvNext
<1> QED
  BY <1>1, <1>2, PTL DEF SystemSpec

LEMMA SystemInvMeans == SystemInv => RowsSurviveAnyMenu
<1> SUFFICES ASSUME SystemInv PROVE RowsSurviveAnyMenu
  OBVIOUS
<1>1. params \in [col : Columns \cup {NoColumn}, dur : 0 .. 255, vel : Velocities, steps : 0 .. 255]
  <2>1. \A x \in Lengths : x \in 0 .. 255
    BY Widths DEF Lengths
  <2> QED
    BY <2>1 DEF SystemInv, ParamsPart, Params
<1>2. Len(systemToMenu) <= 1
  <2>1. CASE systemToMenu = <<>>
    BY <2>1
  <2>2. CASE systemToMenu # <<>>
    <3>1. PICK m \in Messages : systemToMenu = <<m>>
      BY <2>2 DEF SystemInv, QueuePart
    <3>2. Len(<<m>>) = 1
      OBVIOUS
    <3> QED
      BY <3>1, <3>2
  <2> QED
    BY <2>1, <2>2
<1>3. SystemTypeOK
  BY <1>1, <1>2 DEF SystemInv, GridPart, ParamsPart, QueuePart, SystemTypeOK
<1>4. RowsAlternate
  <2> SUFFICES ASSUME NEW r \in Rows PROVE Rules!Alternates(lists[r])
    BY SameRows DEF RowsAlternate
  <2>1. CASE r = Row
    BY <2>1 DEF SystemInv, GridPart, List, Rules!PressedRow, Rules!Loose
  <2>2. CASE r # Row
    BY <2>2, EmptyPressed DEF SystemInv, GridPart
  <2> QED
    BY <2>1, <2>2
<1> QED
  BY <1>3, <1>4 DEF RowsSurviveAnyMenu, OnlyEditsFail, SystemInv, GridPart

(* Whatever edits a menu sends, whenever it sends them, the row of the     *)
(* system task keeps its note-ons and note-offs in pairs, so that none of  *)
(* the assertions about missing partners, overlaps or a used-up pool can   *)
(* fail: only the one about an edit whose note is gone.                    *)
THEOREM RowsSurvive == SystemSpec => []RowsSurviveAnyMenu
<1>1. SystemInv => RowsSurviveAnyMenu
  BY SystemInvMeans
<1> QED
  BY <1>1, SystemInvHolds, PTL

(* A press that is taken off its queue leaves its column under a note,     *)
(* whatever state earlier edits left the row in.                           *)
THEOREM PressesAreHeard == SystemSpec => PressesMakeNotes
<1> DEFINE Heard == (switchQueue # <<>> /\ switchQueue' = <<>> /\ fault' = fault)
                      => Grid!NoteAt(List', Head(switchQueue)).found
<1>1. SystemInv /\ [SystemNext]_systemVars => [Heard]_systemVars
  <2> SUFFICES ASSUME SystemInv, SystemNext, switchQueue # <<>>, switchQueue' = <<>>,
                      fault' = fault
               PROVE  Grid!NoteAt(List', Head(switchQueue)).found
    OBVIOUS
  <2>1. CASE PressOnNote
    <3>1. List' = List
      BY <2>1, QueryTypes, PressedColumn DEF PressOnNote, SystemInv, gridVars, List
    <3> QED
      BY <2>1, <3>1 DEF PressOnNote
  <2>2. CASE PressOnEmpty
    BY <2>2, PressOnEmptySafe, SameQuery
  <2>3. CASE PowerCycle
    BY <2>3 DEF PowerCycle, Grid!PowerCycle
  <2>4. CASE ReceiveEdit \/ NoEdit \/ Notify \/ NoPress \/ TakeAnnouncement
             \/ (\E c \in Columns : Press(c)) \/ (\E e \in Edits : SendEdit(e))
    BY <2>4 DEF ReceiveEdit, NoEdit, Notify, NoPress, TakeAnnouncement, Press, SendEdit,
       queueVars, SendOrDrop
  <2> QED
    BY <2>1, <2>2, <2>3, <2>4 DEF SystemNext, SystemStep
<1> QED
  BY <1>1, SystemInvHolds, PTL DEF SystemSpec, PressesMakeNotes

-----------------------------------------------------------------------------
(* The real menu task is one of the menus SystemTask allows.               *)
MenuInv ==
  /\ page \in {"note_edit", "other"} /\ item \in Items /\ editing \in BOOLEAN
  /\ velocity \in Velocities /\ duration \in Lengths /\ durationMax \in Lengths
  /\ shown \in Columns \cup {NoColumn} /\ editFor \in Columns \cup {NoColumn}

LEMMA Zeros == 0 \in Velocities /\ 0 \in Lengths /\ 0 \in Items
BY SystemTaskAssumption DEF Lengths, Items

LEMMA MenuInvInit == Init => MenuInv
BY Zeros DEF Init, MenuInv

LEMMA ConfirmedIsEdit == MenuInv => Confirmed \in Edits
BY DEF MenuInv, Confirmed, Edits, Lengths

LEMMA MenuSteps == MenuInv /\ [Next]_vars => [SystemNext]_systemVars
<1> SUFFICES ASSUME MenuInv, [Next]_vars PROVE [SystemNext]_systemVars
  OBVIOUS
<1>1. CASE SystemStep
  BY <1>1 DEF SystemNext
<1>2. CASE \E c \in Columns : Press(c)
  BY <1>2 DEF SystemNext
<1>3. CASE Show
  BY <1>3 DEF Show, SystemNext
<1>4. CASE ConfirmEdit
  BY <1>4, ConfirmedIsEdit DEF ConfirmEdit, SystemNext
<1>5. CASE Restart
  BY <1>5 DEF Restart, SystemNext
<1>6. CASE EnterEdit \/ Browse \/ UNCHANGED vars
  BY <1>6 DEF EnterEdit, Browse, MoveSelection, PageBack, TurnVelocity, TurnDuration, LeaveEdit, vars
<1> QED
  BY <1>1, <1>2, <1>3, <1>4, <1>5, <1>6 DEF Next

LEMMA TurnedDown ==
  ASSUME NEW x \in Velocities, x > 0
  PROVE  x - 1 \in Velocities
BY SystemTaskAssumption

LEMMA TurnedDuration ==
  ASSUME NEW x \in Lengths, NEW b \in Lengths
  PROVE  /\ x > 0 => x - 1 \in Lengths
         /\ x < b => x + 1 \in Lengths /\ x + 1 <= b
BY Widths DEF Lengths

LEMMA MenuInvNext == SystemInv /\ MenuInv /\ [Next]_vars => MenuInv'
<1> SUFFICES ASSUME SystemInv, MenuInv, [Next]_vars PROVE MenuInv'
  OBVIOUS
<1>1. CASE UNCHANGED menuVars
  BY <1>1 DEF menuVars, MenuInv
<1>2. CASE Show
  <2> DEFINE m == Head(systemToMenu)
  <2>1. m \in Messages
    <3>1. PICK x \in Messages : systemToMenu = <<x>>
      BY <1>2 DEF Show, TakeAnnouncement, SystemInv, QueuePart
    <3> QED
      BY <3>1
  <2>2. velocity' = m.vel /\ duration' = m.dur /\ durationMax' = m.max /\ shown' = m.col
        /\ page' = "note_edit" /\ item' = 0 /\ UNCHANGED <<editing, editFor>>
    BY <1>2 DEF Show
  <2> HIDE DEF m
  <2> QED
    BY <2>1, <2>2, Zeros DEF MenuInv, Messages
<1>3. CASE TurnVelocity
  BY <1>3, TurnedDown DEF TurnVelocity, MenuInv
<1>4. CASE TurnDuration
  BY <1>4, TurnedDuration DEF TurnDuration, MenuInv
<1>5. CASE ConfirmEdit
  BY <1>5 DEF ConfirmEdit, MenuInv
<1>6. CASE MoveSelection \/ PageBack \/ EnterEdit \/ LeaveEdit
  <2>1. item' \in Items
    BY <1>6, Zeros DEF MoveSelection, PageBack, EnterEdit, LeaveEdit, MenuInv
  <2> QED
    BY <1>6, <2>1 DEF MoveSelection, PageBack, EnterEdit, LeaveEdit, MenuInv
<1>7. CASE Restart
  BY <1>7, Zeros DEF Restart, MenuInv
<1> QED
  BY <1>1, <1>2, <1>3, <1>4, <1>5, <1>6, <1>7 DEF Next, Browse, vars

LEMMA JointInv == Spec => [](SystemInv /\ MenuInv)
<1>1. Init => SystemInv /\ MenuInv
  BY SystemInvInit, MenuInvInit DEF Init
<1>2. SystemInv /\ MenuInv /\ [Next]_vars => (SystemInv /\ MenuInv)'
  BY MenuSteps, SystemInvNext, MenuInvNext
<1> QED
  BY <1>1, <1>2, PTL DEF Spec

(* The menu task only does what SystemTask lets a menu do: every edit it   *)
(* sends is within the widest limits, and it takes the announcements one   *)
(* by one.                                                                 *)
THEOREM MenuIsAllowed == Spec => ImplementsSystemTask
<1>1. Init => SystemInit
  BY DEF Init
<1>2. SystemInv /\ MenuInv /\ [Next]_vars => [SystemNext]_systemVars
  BY MenuSteps
<1> QED
  BY <1>1, <1>2, JointInv, PTL DEF Spec, SystemSpec, ImplementsSystemTask

-----------------------------------------------------------------------------
(* What holds while the user waits for the screen.                         *)
Busy == switchQueue # <<>> \/ pc = "notify" \/ systemToMenu # <<>>

(* The menu has taken in everything the task has announced.                *)
UpToDate == pc # "notify" /\ systemToMenu = <<>>

Turning(i) == editing /\ page = "note_edit" /\ item = i

Pending(op) == menuToSystem # <<>> /\ Head(menuToSystem).op = op

(* At most one thing is on its way at a time.                              *)
OneAtATime ==
  /\ fault = ""
  /\ editing => ~Busy /\ menuToSystem = <<>>
  /\ menuToSystem # <<>> => ~Busy
  /\ switchQueue # <<>> => pc # "notify" /\ systemToMenu = <<>>
  /\ pc = "notify" => systemToMenu = <<>>

(* midiEventParams is the note the grid has under its column, and fits in  *)
(* front of the next one; an announcement on its way is of it.             *)
ParamsAreTheNote ==
  /\ Rules!RowOfNotes(List)
  /\ params # Unset =>
       /\ Rules!NoteAt(List, params.col) = [found |-> TRUE, col |-> params.col, vel |-> params.vel,
                                            dur |-> params.dur, steps |-> params.steps]
       /\ params.dur \in Durations /\ Rules!Fits(params.dur, params.steps)
  /\ systemToMenu # <<>> => params # Unset /\ systemToMenu = <<Announcement(params)>>

(* The menu shows that note, but for the value the user is turning or has  *)
(* just sent.                                                              *)
MenuFollows ==
  /\ page = "note_edit" => params # Unset
  /\ UpToDate =>
       /\ shown = params.col
       /\ params # Unset =>
            /\ durationMax = Announcement(params).max /\ duration <= durationMax
            /\ velocity = params.vel \/ Turning(1) \/ Pending(2)
            /\ duration = params.dur \/ Turning(2) \/ Pending(3)
  /\ menuToSystem # <<>> => editFor = shown
  /\ Pending(2) => Head(menuToSystem).value = velocity
  /\ Pending(3) => Head(menuToSystem).value = duration /\ duration > 0

CareInv == OneAtATime /\ ParamsAreTheNote /\ MenuFollows

LEMMA CareInvInit == Init => CareInv
<1> SUFFICES ASSUME Init PROVE CareInv
  OBVIOUS
<1>1. List = <<>>
  BY SystemTaskAssumption DEF Init, SystemInit, Grid!Init, List
<1>2. Rules!RowOfNotes(List)
  BY <1>1, EmptyPressed
<1>3. OneAtATime
  BY DEF Init, SystemInit, Grid!Init, OneAtATime, Busy
<1>4. ParamsAreTheNote
  BY <1>2 DEF Init, SystemInit, ParamsAreTheNote
<1>5. MenuFollows
  BY DEF Init, SystemInit, MenuFollows, UpToDate, Pending, Unset
<1> QED
  BY <1>3, <1>4, <1>5 DEF CareInv

(* The parts that a step leaves alone.                                     *)
LEMMA NoteStays ==
  ASSUME ParamsAreTheNote, UNCHANGED <<lists, params>>,
         systemToMenu' = systemToMenu \/ systemToMenu' = <<>>
  PROVE  ParamsAreTheNote'
<1>1. List' = List
  BY DEF List
<1> QED
  BY <1>1 DEF ParamsAreTheNote, Announcement

LEMMA MenuFollowsOn ==
  ASSUME MenuFollows, UNCHANGED menuVars, UNCHANGED <<params, menuToSystem>>,
         UpToDate' => UpToDate
  PROVE  MenuFollows'
<1>1. /\ \A i : Turning(i)' <=> Turning(i)
      /\ \A i : Pending(i)' <=> Pending(i)
      /\ Announcement(params)' = Announcement(params)
  BY DEF Turning, Pending, menuVars, Announcement
<1> QED
  BY <1>1 DEF MenuFollows, menuVars

(* Every edit is of the note that is shown, and keeps clear of the next.   *)
LEMMA LimitFits ==
  ASSUME NEW p \in Params, NEW d \in Nat, d > 0, d <= Announcement(p).max
  PROVE  d \in Durations /\ Rules!Fits(d, p.steps)
<1>1. p.steps \in Nat /\ p.steps <= NoLimit /\ NoLimit \in Nat
  BY Widths DEF Params, Lengths
<1>2. Announcement(p).max = IF p.steps = 0 THEN NoLimit ELSE p.steps
  BY DEF Announcement
<1>3. d <= NoLimit /\ Rules!Fits(d, p.steps)
  BY <1>1, <1>2 DEF Rules!Fits
<1> QED
  BY <1>1, <1>3, SystemTaskAssumption

LEMMA CareReceive ==
  SystemInv /\ MenuInv /\ CareInv /\ ReceiveEdit /\ UNCHANGED menuVars => CareInv'
<1> SUFFICES ASSUME SystemInv, MenuInv, CareInv, ReceiveEdit, UNCHANGED menuVars
             PROVE  CareInv'
  OBVIOUS
<1> DEFINE e == Head(menuToSystem)
           u == IF e.op = 2 THEN [params EXCEPT !.vel = e.value]
                            ELSE [params EXCEPT !.dur = e.value]
<1>1. /\ menuToSystem # <<>> /\ params' = u /\ Grid!UpdateNote(Row, params.col, u.dur, u.vel)
      /\ menuToSystem' = <<>> /\ pc' = "switch" /\ UNCHANGED <<switchQueue, systemToMenu>>
  BY DEF ReceiveEdit
<1>2. e \in Edits /\ params \in Params /\ params.col \in Columns /\ params # Unset
  <2>1. PICK x \in Edits : menuToSystem = <<x>>
    BY <1>1 DEF SystemInv, QueuePart
  <2>2. params # Unset
    BY <1>1 DEF SystemInv, QueuePart
  <2> QED
    BY <2>1, <2>2 DEF SystemInv, ParamsPart
<1>3. u \in Params /\ u.col = params.col /\ u.steps = params.steps
      /\ (e.op = 2 => u.vel = e.value /\ u.dur = params.dur)
      /\ (e.op # 2 => u.dur = e.value /\ u.vel = params.vel)
  <2>1. u \in Params /\ u.col = params.col
    BY <1>2, EditUpdatesParams
  <2> QED
    BY <1>2, <2>1 DEF Params
<1>4. ~editing /\ ~Busy /\ UpToDate
  BY <1>1 DEF CareInv, OneAtATime, Busy, UpToDate
<1>5. /\ e.op = 2 \/ e.op = 3
      /\ e.op = 2 <=> Pending(2)
      /\ e.op = 3 <=> Pending(3)
  BY <1>1, <1>2 DEF Pending, Edits
<1>6. /\ shown = params.col /\ durationMax = Announcement(params).max /\ duration <= durationMax
      /\ velocity = params.vel \/ Pending(2)
      /\ duration = params.dur \/ Pending(3)
      /\ Pending(2) => e.value = velocity
      /\ Pending(3) => e.value = duration /\ duration > 0
  BY <1>2, <1>4 DEF CareInv, MenuFollows, Turning
<1>7. u.vel = velocity /\ u.dur = duration
  BY <1>3, <1>5, <1>6
<1>8. u.dur \in Durations /\ Rules!Fits(u.dur, params.steps)
  <2>1. CASE e.op = 2
    BY <1>2, <1>3, <2>1 DEF CareInv, ParamsAreTheNote
  <2>2. CASE e.op = 3
    <3>1. duration \in Nat /\ duration > 0 /\ duration <= Announcement(params).max
      BY <1>5, <1>6, <2>2, Widths DEF MenuInv, Lengths
    <3> QED
      BY <1>2, <1>7, <3>1, LimitFits
  <2> QED
    BY <1>5, <2>1, <2>2
<1> HIDE DEF e, u
<1>9. /\ fault' = "" /\ Rules!RowOfNotes(List')
      /\ Rules!NoteAt(List', params.col) = [found |-> TRUE, col |-> params.col, vel |-> u.vel,
                                            dur |-> u.dur, steps |-> params.steps]
  <2> DEFINE l == List
             c == params.col
             k == Rules!NoteOnAt(l, c)
             m == Rules!UpdatePair(l, k, u.dur, u.vel)
  <2>1. /\ l \in Seq(Rules!Event) /\ Rules!RowOfNotes(l) /\ c \in Columns
        /\ Rules!NoteAt(l, c) = [found |-> TRUE, col |-> c, vel |-> params.vel,
                                 dur |-> params.dur, steps |-> params.steps]
    BY <1>2, RowTypes DEF SystemInv, CareInv, ParamsAreTheNote
  <2>2. /\ Rules!NoteAt(l, c).found /\ Rules!NoteAt(l, c).col = c
        /\ Rules!NoteAt(l, c).steps = params.steps
    BY <2>1
  <2>3. u.vel \in Velocities /\ u.dur \in Lengths
    BY <1>3 DEF Params
  <2>4. \/ k = 0 \/ Rules!NoteOffOf(l, k) = 0
        \/ fault' = "" /\ List' = m
    BY <1>1, <1>2, <2>3, EditKeepsRow DEF SystemInv
  <2> HIDE DEF l, c
  <2>5. /\ k # 0 /\ Rules!NoteOffOf(l, k) # 0 /\ Rules!RowOfNotes(m)
        /\ Rules!NoteAt(m, c) = [found |-> TRUE, col |-> c, vel |-> u.vel, dur |-> u.dur,
                                 steps |-> Rules!NoteAt(l, c).steps]
    <3> DEFINE d == u.dur
               v == u.vel
    <3>1. /\ l \in Seq(Rules!Event) /\ Rules!RowOfNotes(l) /\ c \in Columns /\ d \in Durations
          /\ v \in Velocities /\ Rules!NoteAt(l, c).found /\ Rules!NoteAt(l, c).col = c
          /\ Rules!Fits(d, Rules!NoteAt(l, c).steps)
      BY <1>8, <2>1, <2>2, <2>3
    <3> HIDE DEF d, v
    <3>2. /\ Rules!NoteOnAt(l, c) # 0 /\ Rules!NoteOffOf(l, Rules!NoteOnAt(l, c)) # 0
          /\ Rules!RowOfNotes(Rules!UpdatePair(l, Rules!NoteOnAt(l, c), d, v))
          /\ Rules!NoteAt(Rules!UpdatePair(l, Rules!NoteOnAt(l, c), d, v), c) =
               [found |-> TRUE, col |-> c, vel |-> v, dur |-> d,
                steps |-> Rules!NoteAt(l, c).steps]
      BY <3>1, RulesApply, Rules!ShownUpdate
    <3> QED
      BY <3>2 DEF d, v
  <2> HIDE DEF k, m
  <2>6. fault' = "" /\ List' = m
    BY <2>4, <2>5
  <2> QED
    BY <2>2, <2>5, <2>6 DEF c
<1>10. OneAtATime'
  BY <1>1, <1>4, <1>9 DEF OneAtATime, Busy, menuVars
<1>11. ParamsAreTheNote'
  BY <1>1, <1>3, <1>4, <1>8, <1>9 DEF ParamsAreTheNote, Busy
<1>12. MenuFollows'
  <2>1. params' # Unset
    BY <1>1, <1>2, <1>3, Widths DEF Unset
  <2>2. Announcement(params').max = Announcement(params).max
    BY <1>1, <1>3 DEF Announcement
  <2>3. ~Pending(2)' /\ ~Pending(3)'
    BY <1>1 DEF Pending
  <2> QED
    BY <1>1, <1>3, <1>6, <1>7, <2>1, <2>2, <2>3 DEF MenuFollows, menuVars
<1> QED
  BY <1>10, <1>11, <1>12 DEF CareInv

LEMMA CarePressOnNote ==
  SystemInv /\ CareInv /\ PressOnNote /\ UNCHANGED menuVars => CareInv'
<1> SUFFICES ASSUME SystemInv, CareInv, PressOnNote, UNCHANGED menuVars PROVE CareInv'
  OBVIOUS
<1> DEFINE c == Head(switchQueue)
           q == Grid!NoteAt(List, c)
           note == [col |-> q.col, dur |-> q.dur, vel |-> q.vel, steps |-> q.steps]
<1>1. c \in Columns /\ c \in Nat /\ q.found /\ switchQueue # <<>>
  BY PressedColumn DEF PressOnNote, SystemInv
<1>2. ~Grid!QueryFault(List, c) /\ q.col \in Columns
  <2> HIDE DEF c
  <2> QED
    BY <1>1, QueryTypes DEF SystemInv
<1>3. /\ params' = note /\ systemToMenu' = SendOrDrop(systemToMenu, Announcement(note))
      /\ UNCHANGED gridVars /\ switchQueue' = <<>> /\ pc' = "menu" /\ UNCHANGED menuToSystem
  BY <1>2 DEF PressOnNote
<1>4. ~editing /\ menuToSystem = <<>> /\ systemToMenu = <<>>
  BY <1>1 DEF CareInv, OneAtATime, Busy
<1>5. systemToMenu' = <<Announcement(note)>>
  BY <1>3, <1>4 DEF SendOrDrop
<1>6. /\ Rules!NoteAt(List, q.col) = [found |-> TRUE, col |-> q.col, vel |-> q.vel,
                                      dur |-> q.dur, steps |-> q.steps]
      /\ q.dur \in Durations /\ Rules!Fits(q.dur, q.steps)
  <2>1. q = Rules!NoteAt(List, c) /\ List \in Seq(Rules!Event) /\ Rules!RowOfNotes(List)
    BY SameQuery, RowTypes DEF SystemInv, CareInv, ParamsAreTheNote
  <2> HIDE DEF c, q
  <2>2. Rules!NoteAt(List, c).found
    BY <1>1, <2>1
  <2> DEFINE l == List
  <2>3. l \in Seq(Rules!Event) /\ Rules!RowOfNotes(l) /\ Rules!NoteAt(l, c).found
    BY <2>1, <2>2
  <2> HIDE DEF l
  <2>4. Rules!NoteAt(l, Rules!NoteAt(l, c).col) = Rules!NoteAt(l, c)
    BY <1>1, <2>3, RulesApply, Rules!AskedAgain
  <2>5. /\ Rules!NoteAt(l, c).dur \in Durations
        /\ Rules!Fits(Rules!NoteAt(l, c).dur, Rules!NoteAt(l, c).steps)
        /\ Rules!NoteAt(l, c) =
             [found |-> TRUE, col |-> Rules!NoteAt(l, c).col, vel |-> Rules!NoteAt(l, c).vel,
              dur |-> Rules!NoteAt(l, c).dur, steps |-> Rules!NoteAt(l, c).steps]
    BY <1>1, <2>3, RulesApply, Rules!ShownFits
  <2>6. q = Rules!NoteAt(l, c)
    BY <2>1 DEF l
  <2>7. Rules!NoteAt(l, q.col) = q
    BY <2>4, <2>6
  <2> QED
    BY <2>5, <2>6, <2>7 DEF l
<1> HIDE DEF c, q
<1>7. List' = List /\ fault' = fault
  BY <1>3 DEF gridVars, List
<1>8. note # Unset
  BY <1>2, Widths DEF Unset
<1>9. OneAtATime'
  BY <1>3, <1>4, <1>7 DEF CareInv, OneAtATime, Busy, menuVars
<1>10. ParamsAreTheNote'
  BY <1>3, <1>5, <1>6, <1>7, <1>8 DEF CareInv, ParamsAreTheNote
<1>11. MenuFollows'
  <2>1. ~UpToDate' /\ params' # Unset /\ menuToSystem' = <<>>
    BY <1>3, <1>4, <1>5, <1>8 DEF UpToDate
  <2> QED
    BY <2>1 DEF MenuFollows, Pending
<1> QED
  BY <1>9, <1>10, <1>11 DEF CareInv

LEMMA CarePressOnEmpty ==
  SystemInv /\ CareInv /\ PressOnEmpty /\ UNCHANGED menuVars => CareInv'
<1> SUFFICES ASSUME SystemInv, CareInv, PressOnEmpty, UNCHANGED menuVars PROVE CareInv'
  OBVIOUS
<1> DEFINE c == Head(switchQueue)
           q == Grid!NoteAt(List, c)
           note == [col |-> c, dur |-> 1, vel |-> DefaultVelocity, steps |-> q.steps]
<1>1. c \in Columns /\ c \in Nat /\ ~q.found /\ switchQueue # <<>>
  BY PressedColumn DEF PressOnEmpty, SystemInv
<1>2. ~Grid!QueryFault(List, c) /\ q.steps \in Lengths
  <2> HIDE DEF c
  <2> QED
    BY <1>1, QueryTypes DEF SystemInv
<1>3. /\ params' = note /\ switchQueue' = <<>> /\ pc' = "notify"
      /\ UNCHANGED <<menuToSystem, systemToMenu>> /\ Grid!AddNote(Row, c, 1, DefaultVelocity)
  BY <1>2 DEF PressOnEmpty
<1>4. ~editing /\ menuToSystem = <<>> /\ systemToMenu = <<>>
  BY <1>1 DEF CareInv, OneAtATime, Busy
<1>5. Rules!Fits(1, q.steps) /\ 1 \in Durations
  <2>1. q.steps \in Nat
    BY <1>2, Widths DEF Lengths
  <2> HIDE DEF q
  <2> QED
    BY <2>1, Widths DEF Rules!Fits
<1> HIDE DEF c
<1>6. /\ fault' = fault
      /\ Rules!NoteAt(List', c) = [found |-> TRUE, col |-> c, vel |-> DefaultVelocity,
                                   dur |-> 1, steps |-> q.steps]
      /\ List' = Rules!InsertPair(List, Rules!AddPoint(List, c), Rules!On(c, DefaultVelocity),
                                  Rules!Off(c + 1))
  BY <1>1, <1>3, PressAdds, SameQuery DEF SystemInv
<1>7. Rules!RowOfNotes(List')
  <2> DEFINE l == List
             v == DefaultVelocity
             d == 1
  <2>1. /\ l \in Seq(Rules!Event) /\ Rules!RowOfNotes(l) /\ v \in Velocities /\ Row \in Rows
        /\ Rules!Room(l, c, d) /\ d \in Durations
    BY <1>1, <1>5, RowTypes, Widths, SameQuery
       DEF SystemInv, CareInv, ParamsAreTheNote, Rules!Room
  <2> HIDE DEF l, v, d
  <2>2. Rules!RowOfNotes(Rules!InsertPair(l, Rules!AddPoint(l, c), Rules!On(c, v), Rules!Off(c + d)))
    BY <1>1, <2>1, RulesApply, Rules!RowAdd
  <2> QED
    BY <1>6, <2>2 DEF l, v, d
<1>8. note # Unset
  BY <1>1, Widths DEF Unset
<1> HIDE DEF q
<1>9. OneAtATime'
  BY <1>3, <1>4, <1>6 DEF CareInv, OneAtATime, Busy, menuVars
<1>10. ParamsAreTheNote'
  BY <1>3, <1>4, <1>5, <1>6, <1>7, <1>8 DEF ParamsAreTheNote
<1>11. MenuFollows'
  <2>1. ~UpToDate' /\ params' # Unset /\ menuToSystem' = <<>>
    BY <1>3, <1>4, <1>8 DEF UpToDate
  <2> QED
    BY <2>1 DEF MenuFollows, Pending
<1> QED
  BY <1>9, <1>10, <1>11 DEF CareInv

LEMMA CareNotify == SystemInv /\ CareInv /\ Notify /\ UNCHANGED menuVars => CareInv'
<1> SUFFICES ASSUME SystemInv, CareInv, Notify, UNCHANGED menuVars PROVE CareInv'
  OBVIOUS
<1>1. /\ systemToMenu' = SendOrDrop(systemToMenu, Announcement(params)) /\ pc' = "menu"
      /\ UNCHANGED gridVars /\ UNCHANGED <<switchQueue, menuToSystem, params>>
      /\ pc = "notify"
  BY DEF Notify
<1>2. /\ params # Unset /\ systemToMenu = <<>> /\ ~editing /\ menuToSystem = <<>>
      /\ switchQueue = <<>>
  BY <1>1 DEF SystemInv, ParamsPart, CareInv, OneAtATime, Busy
<1>3. systemToMenu' = <<Announcement(params)>>
  BY <1>1, <1>2 DEF SendOrDrop
<1>4. List' = List /\ fault' = fault
  BY <1>1 DEF gridVars, List
<1>5. OneAtATime'
  BY <1>1, <1>2, <1>4 DEF CareInv, OneAtATime, Busy, menuVars
<1>6. ParamsAreTheNote'
  BY <1>1, <1>2, <1>3, <1>4 DEF CareInv, ParamsAreTheNote, Announcement
<1>7. MenuFollows'
  <2>1. ~UpToDate' /\ params' # Unset /\ menuToSystem' = <<>>
    BY <1>1, <1>2, <1>3 DEF UpToDate
  <2> QED
    BY <2>1 DEF MenuFollows, Pending
<1> QED
  BY <1>5, <1>6, <1>7 DEF CareInv

LEMMA CareIdle ==
  CareInv /\ (NoEdit \/ NoPress) /\ UNCHANGED menuVars => CareInv'
<1> SUFFICES ASSUME CareInv, NoEdit \/ NoPress, UNCHANGED menuVars PROVE CareInv'
  OBVIOUS
<1>1. /\ UNCHANGED gridVars /\ UNCHANGED queueVars /\ UNCHANGED params
      /\ pc # "notify" /\ pc' # "notify"
  BY DEF NoEdit, NoPress
<1>2. OneAtATime'
  BY <1>1 DEF CareInv, OneAtATime, Busy, gridVars, queueVars, menuVars
<1>3. ParamsAreTheNote'
  BY <1>1, NoteStays DEF CareInv, gridVars, queueVars
<1>4. MenuFollows'
  BY <1>1, MenuFollowsOn DEF CareInv, UpToDate, queueVars
<1> QED
  BY <1>2, <1>3, <1>4 DEF CareInv

LEMMA CarePress ==
  ASSUME CareInv, Settled, NEW c \in Columns, Press(c), UNCHANGED menuVars
  PROVE  CareInv'
<1>1. /\ UNCHANGED gridVars /\ UNCHANGED <<menuToSystem, systemToMenu, pc, params>>
      /\ ~editing /\ menuToSystem = <<>> /\ systemToMenu = <<>> /\ pc # "notify"
  BY DEF Press, Settled, queueVars
<1>2. OneAtATime'
  BY <1>1 DEF CareInv, OneAtATime, Busy, gridVars, menuVars
<1>3. ParamsAreTheNote'
  BY <1>1, NoteStays DEF CareInv, gridVars
<1>4. MenuFollows'
  BY <1>1, MenuFollowsOn DEF CareInv, UpToDate
<1> QED
  BY <1>2, <1>3, <1>4 DEF CareInv

-----------------------------------------------------------------------------
(* The steps of the menu task.                                             *)
LEMMA CareShow == SystemInv /\ CareInv /\ Show => CareInv'
<1> SUFFICES ASSUME SystemInv, CareInv, Show PROVE CareInv'
  OBVIOUS
<1> DEFINE m == Head(systemToMenu)
<1>1. /\ ~editing /\ systemToMenu # <<>> /\ systemToMenu' = <<>> /\ UNCHANGED gridVars
      /\ UNCHANGED <<switchQueue, menuToSystem, pc, params, editing, editFor>>
      /\ velocity' = m.vel /\ duration' = m.dur /\ durationMax' = m.max /\ shown' = m.col
  BY DEF Show, TakeAnnouncement
<1>2. params # Unset /\ m = Announcement(params)
  BY <1>1 DEF CareInv, ParamsAreTheNote
<1>3. menuToSystem = <<>>
  BY <1>1 DEF CareInv, OneAtATime, Busy
<1> HIDE DEF m
<1>4. OneAtATime'
  BY <1>1, <1>3 DEF CareInv, OneAtATime, Busy, gridVars
<1>5. ParamsAreTheNote'
  BY <1>1, NoteStays DEF CareInv, gridVars
<1>6. /\ m.vel = params.vel /\ m.dur = params.dur /\ m.col = params.col
      /\ m.max = Announcement(params).max
  BY <1>2 DEF Announcement
<1>7. m.dur <= m.max
  <2>1. params \in Params /\ params.dur \in Durations /\ Rules!Fits(params.dur, params.steps)
    BY <1>2 DEF SystemInv, ParamsPart, CareInv, ParamsAreTheNote
  <2>2. params.dur <= NoLimit
    BY <2>1, SystemTaskAssumption
  <2>3. m.max = IF params.steps = 0 THEN NoLimit ELSE params.steps
    BY <1>2 DEF Announcement
  <2> QED
    BY <1>6, <2>1, <2>2, <2>3 DEF Rules!Fits
<1>8. MenuFollows'
  <2>1. Announcement(params)' = Announcement(params)
    BY <1>1 DEF Announcement
  <2>2. menuToSystem' = <<>> /\ ~Pending(2)' /\ ~Pending(3)'
    BY <1>1, <1>3 DEF Pending
  <2> QED
    BY <1>1, <1>2, <1>6, <1>7, <2>1, <2>2 DEF MenuFollows
<1> QED
  BY <1>4, <1>5, <1>8 DEF CareInv

(* The menu's own steps leave the system task and the queues alone.        *)
LEMMA MenuOnly ==
  ASSUME CareInv, UNCHANGED systemVars, editing' => ~Busy /\ menuToSystem = <<>>,
         MenuFollows'
  PROVE  CareInv'
<1>1. /\ UNCHANGED gridVars
      /\ UNCHANGED <<switchQueue, menuToSystem, systemToMenu, pc, params>>
  BY DEF systemVars, queueVars
<1>2. OneAtATime'
  BY <1>1 DEF CareInv, OneAtATime, Busy, gridVars
<1>3. ParamsAreTheNote'
  BY <1>1, NoteStays DEF CareInv, gridVars
<1> QED
  BY <1>2, <1>3 DEF CareInv

LEMMA SameNews ==
  ASSUME UNCHANGED systemVars
  PROVE  /\ UpToDate' <=> UpToDate
         /\ Announcement(params)' = Announcement(params)
         /\ Pending(2)' <=> Pending(2)
         /\ Pending(3)' <=> Pending(3)
         /\ UNCHANGED <<params, menuToSystem>>
BY DEF systemVars, queueVars, UpToDate, Announcement, Pending

LEMMA CareEnterEdit == CareInv /\ Settled /\ EnterEdit => CareInv'
<1> SUFFICES ASSUME CareInv, Settled, EnterEdit PROVE CareInv'
  OBVIOUS
<1>1. /\ UNCHANGED systemVars /\ ~editing
      /\ UNCHANGED <<page, item, velocity, duration, durationMax, shown, editFor>>
  BY DEF EnterEdit
<1>2. ~Busy /\ menuToSystem = <<>>
  BY DEF Settled, queueVars, Busy
<1>3. ~Turning(1) /\ ~Turning(2)
  BY <1>1 DEF Turning
<1>4. MenuFollows'
  BY <1>1, <1>3, SameNews DEF CareInv, MenuFollows
<1> QED
  BY <1>1, <1>2, <1>4, MenuOnly

LEMMA CareBrowse == MenuInv /\ CareInv /\ Browse => CareInv'
<1> SUFFICES ASSUME MenuInv, CareInv, Browse PROVE CareInv'
  OBVIOUS
<1>1. UNCHANGED systemVars /\ UNCHANGED <<durationMax, shown, editFor>> /\ (editing' => editing)
  <2>1. UNCHANGED systemVars
    BY DEF Browse, MoveSelection, PageBack, TurnVelocity, TurnDuration, LeaveEdit
  <2>2. UNCHANGED <<durationMax, shown, editFor>>
    BY DEF Browse, MoveSelection, PageBack, TurnVelocity, TurnDuration, LeaveEdit
  <2>3. UNCHANGED editing \/ editing' = FALSE
    BY DEF Browse, MoveSelection, PageBack, TurnVelocity, TurnDuration, LeaveEdit
  <2> QED
    BY <2>1, <2>2, <2>3
<1>2. editing' => ~Busy /\ menuToSystem = <<>>
  BY <1>1 DEF CareInv, OneAtATime
<1>3. MenuFollows'
  <2>1. CASE MoveSelection \/ PageBack
    <3>1. ~editing /\ UNCHANGED <<velocity, duration>> /\ (page' = "note_edit" => page = "note_edit")
      BY <2>1 DEF MoveSelection, PageBack
    <3>2. ~Turning(1) /\ ~Turning(2)
      BY <3>1 DEF Turning
    <3> QED
      BY <1>1, <3>1, <3>2, SameNews DEF CareInv, MenuFollows
  <2>2. CASE LeaveEdit
    <3>1. page = "note_edit" => item = 0
      BY <2>2 DEF LeaveEdit
    <3>2. ~Turning(1) /\ ~Turning(2)
      BY <3>1 DEF Turning
    <3>3. UNCHANGED <<velocity, duration, page>>
      BY <2>2 DEF LeaveEdit
    <3> QED
      BY <1>1, <3>2, <3>3, SameNews DEF CareInv, MenuFollows
  <2>3. CASE TurnVelocity
    <3>1. Turning(1)' /\ ~Turning(2) /\ UNCHANGED <<page, duration>> /\ editing
      <4>1. /\ editing /\ page = "note_edit" /\ item = 1
            /\ UNCHANGED page /\ UNCHANGED item /\ UNCHANGED editing /\ UNCHANGED duration
        BY <2>3 DEF TurnVelocity
      <4> QED
        BY <4>1 DEF Turning
    <3>2. menuToSystem = <<>> /\ ~Pending(2) /\ ~Pending(3)
      BY <3>1 DEF CareInv, OneAtATime, Pending
    <3> QED
      BY <1>1, <3>1, <3>2, SameNews DEF CareInv, MenuFollows
  <2>4. CASE TurnDuration
    <3>1. Turning(2)' /\ ~Turning(1) /\ UNCHANGED <<page, velocity>> /\ editing
      <4>1. /\ editing /\ page = "note_edit" /\ item = 2
            /\ UNCHANGED page /\ UNCHANGED item /\ UNCHANGED editing /\ UNCHANGED velocity
        BY <2>4 DEF TurnDuration
      <4> QED
        BY <4>1 DEF Turning
    <3>2. menuToSystem = <<>> /\ ~Pending(2) /\ ~Pending(3)
      BY <3>1 DEF CareInv, OneAtATime, Pending
    <3>3. duration <= durationMax => duration' <= durationMax'
      <4>1. duration \in Nat /\ durationMax \in Nat /\ UNCHANGED durationMax
        BY <1>1, Widths DEF MenuInv, Lengths
      <4>2. (duration < durationMax /\ duration' = duration + 1) \/ duration' = duration - 1
        BY <2>4 DEF TurnDuration
      <4> QED
        BY <4>1, <4>2
    <3> QED
      BY <1>1, <3>1, <3>2, <3>3, SameNews DEF CareInv, MenuFollows
  <2> QED
    BY <2>1, <2>2, <2>3, <2>4 DEF Browse
<1> QED
  BY <1>1, <1>2, <1>3, MenuOnly

LEMMA CareConfirm ==
  MenuInv /\ CareInv /\ (item = 2 => duration > 0) /\ ConfirmEdit => CareInv'
<1> SUFFICES ASSUME MenuInv, CareInv, item = 2 => duration > 0, ConfirmEdit PROVE CareInv'
  OBVIOUS
<1>1. /\ editing /\ page = "note_edit" /\ item \in {1, 2} /\ ~editing'
      /\ UNCHANGED <<page, item, velocity, duration, durationMax, shown>>
      /\ params # Unset /\ menuToSystem' = SendOrDrop(menuToSystem, Confirmed)
      /\ editFor' = IF menuToSystem = <<>> THEN shown ELSE editFor
      /\ UNCHANGED gridVars /\ UNCHANGED <<switchQueue, systemToMenu, pc, params>>
  BY DEF ConfirmEdit, SendEdit
<1>2. ~Busy /\ menuToSystem = <<>>
  BY <1>1 DEF CareInv, OneAtATime
<1>3. menuToSystem' = <<Confirmed>> /\ editFor' = shown
  BY <1>1, <1>2 DEF SendOrDrop
<1>4. OneAtATime'
  BY <1>1, <1>2 DEF CareInv, OneAtATime, Busy, gridVars
<1>5. ParamsAreTheNote'
  BY <1>1, NoteStays DEF CareInv, gridVars
<1>6. MenuFollows'
  <2>1. /\ Turning(1) => item = 1
        /\ Turning(2) => item = 2
        /\ ~Pending(2) /\ ~Pending(3)
    BY <1>2 DEF Turning, Pending
  <2>2. /\ item = 1 => Pending(2)' /\ ~Pending(3)' /\ Head(menuToSystem').value = velocity
        /\ item = 2 => Pending(3)' /\ ~Pending(2)' /\ Head(menuToSystem').value = duration
    BY <1>3 DEF Pending, Confirmed
  <2>3. (UpToDate' <=> UpToDate) /\ Announcement(params)' = Announcement(params)
    BY <1>1 DEF UpToDate, Announcement
  <2> QED
    BY <1>1, <1>3, <2>1, <2>2, <2>3 DEF CareInv, MenuFollows
<1> QED
  BY <1>4, <1>5, <1>6 DEF CareInv

-----------------------------------------------------------------------------
LEMMA CarefulSteps == CarefulNext => Next
BY DEF CarefulNext, Next

LEMMA CareInvNext == SystemInv /\ MenuInv /\ CareInv /\ [CarefulNext]_vars => CareInv'
<1> SUFFICES ASSUME SystemInv, MenuInv, CareInv, [CarefulNext]_vars PROVE CareInv'
  OBVIOUS
<1>1. CASE ReceiveEdit /\ UNCHANGED menuVars
  BY <1>1, CareReceive
<1>2. CASE PressOnNote /\ UNCHANGED menuVars
  BY <1>2, CarePressOnNote
<1>3. CASE PressOnEmpty /\ UNCHANGED menuVars
  BY <1>3, CarePressOnEmpty
<1>4. CASE Notify /\ UNCHANGED menuVars
  BY <1>4, CareNotify
<1>5. CASE (NoEdit \/ NoPress) /\ UNCHANGED menuVars
  BY <1>5, CareIdle
<1>6. CASE Settled /\ \E c \in Columns : Press(c) /\ UNCHANGED menuVars
  BY <1>6, CarePress
<1>7. CASE Settled /\ EnterEdit
  BY <1>7, CareEnterEdit
<1>8. CASE (item = 2 => duration > 0) /\ ConfirmEdit
  BY <1>8, CareConfirm
<1>9. CASE Show
  BY <1>9, CareShow
<1>10. CASE Browse
  BY <1>10, CareBrowse
<1>11. CASE UNCHANGED vars
  <2>1. UNCHANGED menuVars /\ UNCHANGED systemVars
    BY <1>11 DEF vars
  <2>2. UNCHANGED editing /\ (Busy' <=> Busy) /\ UNCHANGED menuToSystem
    BY <2>1 DEF menuVars, systemVars, queueVars, Busy
  <2>3. MenuFollows'
    BY <2>1, SameNews, MenuFollowsOn DEF CareInv
  <2> QED
    BY <2>1, <2>2, <2>3, MenuOnly DEF CareInv, OneAtATime
<1> QED
  BY <1>1, <1>2, <1>3, <1>4, <1>5, <1>6, <1>7, <1>8, <1>9, <1>10, <1>11
     DEF CarefulNext, SystemStep

(* The strengthening that holds while the user waits for the screen: at    *)
(* most one message is on its way, midiEventParams is the note on the      *)
(* grid, and the menu shows it but for the value being turned.             *)
THEOREM CareInvHolds == CarefulSpec => [](SystemInv /\ MenuInv /\ CareInv)
<1>1. Init => SystemInv /\ MenuInv /\ CareInv
  BY SystemInvInit, MenuInvInit, CareInvInit DEF Init
<1>2. SystemInv /\ MenuInv /\ CareInv /\ [CarefulNext]_vars => (SystemInv /\ MenuInv /\ CareInv)'
  BY CarefulSteps, MenuSteps, SystemInvNext, MenuInvNext, CareInvNext
<1> QED
  BY <1>1, <1>2, PTL DEF CarefulSpec

(* The edit of a careful user reaches the note the menu showed when it was *)
(* sent, although the message does not say which note that is.             *)
THEOREM EditsReachTheirNote == CarefulSpec => []EditReachesShownNote
<1>1. CareInv => EditReachesShownNote
  BY DEF CareInv, OneAtATime, MenuFollows, UpToDate, Busy, EditReachesShownNote
<1> QED
  BY <1>1, CareInvHolds, PTL

(* When nothing is on its way, the note page shows a note of the grid with *)
(* its velocity and its duration.                                          *)
THEOREM MenuIsRight == CarefulSpec => []MenuShowsTheNote
<1>1. CareInv => MenuShowsTheNote
  <2> SUFFICES ASSUME CareInv, Settled, page = "note_edit"
               PROVE  LET q == Grid!NoteAt(List, shown)
                      IN q.found /\ q.col = shown /\ q.dur = duration /\ q.vel = velocity
    BY DEF MenuShowsTheNote
  <2>1. /\ ~editing /\ menuToSystem = <<>> /\ UpToDate /\ params # Unset
    BY DEF Settled, queueVars, UpToDate, CareInv, MenuFollows
  <2>2. shown = params.col /\ velocity = params.vel /\ duration = params.dur
    BY <2>1 DEF CareInv, MenuFollows, Turning, Pending
  <2>3. Grid!NoteAt(List, shown) =
          [found |-> TRUE, col |-> params.col, vel |-> params.vel,
           dur |-> params.dur, steps |-> params.steps]
    BY <2>1, <2>2, SameQuery DEF CareInv, ParamsAreTheNote
  <2> QED
    BY <2>2, <2>3
<1> QED
  BY <1>1, CareInvHolds, PTL

(* Edits made with care never fail an assertion and leave the rows in time *)
(* order: the limit announced with a note keeps it clear of the next one.  *)
THEOREM CareKeepsRows == CarefulSpec => []CarefulEditsKeepRows
<1>1. SystemInv /\ MenuInv /\ CareInv => CarefulEditsKeepRows
  <2> SUFFICES ASSUME SystemInv, MenuInv, CareInv PROVE CarefulEditsKeepRows
    OBVIOUS
  <2>1. TypeOK
    <3>1. SystemTypeOK
      BY SystemInvMeans DEF RowsSurviveAnyMenu
    <3> QED
      BY <3>1 DEF TypeOK, MenuInv, Lengths
  <2>2. fault = ""
    BY DEF CareInv, OneAtATime
  <2>3. Grid!RowsWellFormed
    <3> SUFFICES ASSUME NEW r \in Rows PROVE Rules!WellFormed(lists[r])
      BY SameRows DEF Grid!RowsWellFormed
    <3>1. lists[r] \in Seq(Rules!Event) /\ Rules!RowOfNotes(lists[r])
      <4>1. CASE r = Row
        BY <4>1, RowTypes DEF SystemInv, CareInv, ParamsAreTheNote, List
      <4>2. CASE r # Row
        BY <4>2, EmptyPressed DEF SystemInv, GridPart
      <4> QED
        BY <4>1, <4>2
    <3> QED
      BY <3>1, RulesApply, Rules!TidyIsWellFormed DEF Rules!RowOfNotes
  <2> QED
    BY <2>1, <2>2, <2>3 DEF CarefulEditsKeepRows
<1> QED
  BY <1>1, CareInvHolds, PTL
=============================================================================
