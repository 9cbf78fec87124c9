------------------------------ MODULE GridRow -------------------------------
(***************************************************************************)
(* The event list of one row of the virtual grid and the searches          *)
(* gridManager.c makes in it. A list is the sequence of the events found   *)
(* by following nextPtr from the row's head. Events are note-on and        *)
(* note-off events of channel 0, the only kind the system task creates.    *)
(* Position 0 stands for a NULL node pointer.                              *)
(***************************************************************************)
EXTENDS Integers, Sequences, FiniteSetsExt

On(c, v) == [on |-> TRUE, col |-> c, vel |-> v]
Off(c)   == [on |-> FALSE, col |-> c, vel |-> 127]

First(S) == IF S = {} THEN 0 ELSE Min(S)
Final(S) == IF S = {} THEN 0 ELSE Max(S)

-----------------------------------------------------------------------------
(* Position of the first note-on at column c. The search gives up at an    *)
(* event beyond c, whatever follows it.                                    *)
NoteOnAt(list, c) ==
  First({i \in DOMAIN list :
           /\ list[i].on /\ list[i].col = c
           /\ \A j \in 1 .. i - 1 : list[j].col <= c})

(* The event after a note-on if it is a note-off: with one channel, a      *)
(* second note-on ends the search.                                         *)
NoteOffOf(list, i) ==
  IF i < Len(list) /\ ~list[i + 1].on THEN i + 1 ELSE 0

(* Mutant: the search starts at the note-on itself.                        *)
NextNoteOnSelf(list, i) == First({j \in i .. Len(list) : list[j].on})

NextNoteOn(list, i) == First({j \in i + 1 .. Len(list) : list[j].on})

(* Steps from column c to the next note-on after it, 0 if there is none:   *)
(* the whole list is searched. The result is a uint8_t.                    *)
StepsToNextNoteOn(list, c) ==
  LET j == First({i \in DOMAIN list : list[i].on /\ list[i].col > c})
  IN IF j = 0 THEN 0 ELSE (list[j].col - c) % 256

(* Mutant: the insertion goes in front of the events of its own column.    *)
InsertionPointStrict(list, c) == Final({i \in DOMAIN list : list[i].col < c})

(* Where an insertion at column c goes: after the last event at or before  *)
(* c, looking back from the tail; 0 makes the new event the list head.     *)
InsertionPoint(list, c) == Final({i \in DOMAIN list : list[i].col <= c})

-----------------------------------------------------------------------------
(* The note whose duration covers column c. The scan always looks at the   *)
(* head and stops at the first later event beyond c; it fails an assertion *)
(* when the events at or before c do not alternate. The found record is    *)
(* what MidiEventParams holds.                                             *)

Scanned(list, c) ==
  {i \in DOMAIN list : list[i].col <= c /\ \A j \in 2 .. i : list[j].col <= c}

ScanFault(list, c) ==
  LET S == Scanned(list, c)
  IN \E i \in S : list[i].on <=> (i - 1 \in S /\ list[i - 1].on)

NoNote == [found |-> FALSE, col |-> 0, dur |-> 0, vel |-> 0, steps |-> 0]

NoteAt(list, c) ==
  LET i    == Final(Scanned(list, c))
      off  == NoteOffOf(list, i)
      next == NextNoteOn(list, i)
  IN IF i # 0 /\ list[i].on
       THEN [found |-> TRUE, col |-> list[i].col, vel |-> list[i].vel,
             dur   |-> IF off = 0 THEN 0 ELSE (list[off].col - list[i].col) % 256,
             steps |-> IF next = 0 THEN 0 ELSE (list[next].col - list[i].col) % 256]
       ELSE [NoNote EXCEPT !.steps = StepsToNextNoteOn(list, c)]

(* The query fails one of its assertions.                                  *)
QueryFault(list, c) ==
  LET i == Final(Scanned(list, c))
  IN \/ ScanFault(list, c)
     \/ i # 0 /\ list[i].on /\ NoteOffOf(list, i) = 0

-----------------------------------------------------------------------------
(* Mutant: the note-off always goes to the end of the list.                *)
InsertPairApart(list, k, on, off) ==
  SubSeq(list, 1, k) \o <<on>> \o SubSeq(list, k + 1, Len(list)) \o <<off>>

(* A note-on and its note-off enter the list next to each other.           *)
InsertPair(list, k, on, off) ==
  SubSeq(list, 1, k) \o <<on, off>> \o SubSeq(list, k + 1, Len(list))

RemovePair(list, i) ==
  SubSeq(list, 1, i - 1) \o SubSeq(list, i + 2, Len(list))

(* The velocity of the note-on at i and the column of its note-off change; *)
(* neither event moves to another place of the list.                       *)
UpdatePair(list, i, d, v) ==
  [list EXCEPT ![i].vel = v, ![i + 1].col = list[i].col + d]

-----------------------------------------------------------------------------
(* What the code relies on: note-ons and note-offs alternate, starting     *)
(* with a note-on, and the columns never decrease, a note lasting at least *)
(* one step.                                                               *)
Alternates(list) ==
  /\ Len(list) % 2 = 0
  /\ \A i \in DOMAIN list : list[i].on <=> i % 2 = 1

Sorted(list) ==
  \A i \in 1 .. Len(list) - 1 :
    IF list[i].on THEN list[i].col < list[i + 1].col
                  ELSE list[i].col <= list[i + 1].col

WellFormed(list) == Alternates(list) /\ Sorted(list)
=============================================================================
