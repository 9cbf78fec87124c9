------------------------------ MODULE RowLists ------------------------------
(***************************************************************************)
(* What the linked-list component promises the grid manager: one sequence  *)
(* of nodes per row, and at most one node that was handed out but is not   *)
(* yet in a list. No node is ever in two places.                           *)
(***************************************************************************)
EXTENDS Integers, SequencesExt

CONSTANTS
  Rows,
  Nodes,
  None  \* no node

VARIABLES
  seqs,    \* the nodes of each row, in list order
  pending  \* the node handed out last, until it is linked

vars == <<seqs, pending>>

InUse == {pending} \cup UNION {ToSet(seqs[r]) : r \in Rows}

-----------------------------------------------------------------------------
Init ==
  /\ seqs = [r \in Rows |-> <<>>]
  /\ pending = None

(* Any node may be handed out, as long as nobody has it.                   *)
Create ==
  /\ pending = None
  /\ pending' \in Nodes \ InUse
  /\ UNCHANGED seqs

(* The node goes behind position k of a row's sequence.                    *)
Link(r, k) ==
  /\ pending # None
  /\ seqs' = [seqs EXCEPT ![r] = InsertAt(seqs[r], k + 1, pending)]
  /\ pending' = None

Delete(r, k) ==
  /\ seqs' = [seqs EXCEPT ![r] = RemoveAt(seqs[r], k)]
  /\ UNCHANGED pending

FreeList(r) ==
  /\ seqs[r] # <<>>
  /\ seqs' = [seqs EXCEPT ![r] = <<>>]
  /\ UNCHANGED pending

Restart == seqs' = [r \in Rows |-> <<>>] /\ pending' = None

Next ==
  \/ Create
  \/ \E r \in Rows : \E k \in 0 .. Len(seqs[r]) : Link(r, k)
  \/ \E r \in Rows : \E k \in DOMAIN seqs[r] : Delete(r, k)
  \/ \E r \in Rows : FreeList(r)
  \/ Restart

Spec == Init /\ [][Next]_vars
=============================================================================
