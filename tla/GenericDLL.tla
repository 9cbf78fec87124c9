----------------------------- MODULE GenericDLL -----------------------------
(***************************************************************************)
(* The linked-list component (genericDLL.c): a pool of nodes allocated at  *)
(* start-up, and doubly linked lists, one per row of the grid, threaded    *)
(* through them. Only the pointers are modelled, not what a node carries.  *)
(* The grid manager is the one caller; it holds the heads and tails, takes *)
(* a node and links it at once, and frees a list node by node.             *)
(***************************************************************************)
EXTENDS Integers, FiniteSets, SequencesExt

CONSTANTS
  ListRows, \* rows of the grid are uint8_t
  NumNodes  \* totalNodes

ASSUME ListRowsAssumption == ListRows \subseteq 0 .. 255

ASSUME NumNodesAssumption == NumNodes \in Nat \ {0}

Nodes == 1 .. NumNodes
NULL  == 0
Pointers == Nodes \cup {NULL}

VARIABLES
  nodeArr,      \* nodeArrPtr: the free nodes, from currNodeIdx on
  currNodeIdx,
  next, prev,   \* nextPtr and prevPtr of every node
  head, tail,   \* the grid manager's list heads and tails
  pending,      \* the node created last, until it is linked
  cursor,       \* nodePtr of genericDLL_freeEntireLinkedList
  listFault     \* "none" or the assertion that failed

pool == <<nodeArr, currNodeIdx>>
listVars == <<nodeArr, currNodeIdx, next, prev, head, tail, pending, cursor, listFault>>

Idle == listFault = "none" /\ cursor = NULL

Fail(what) ==
  /\ listFault' = what
  /\ UNCHANGED <<pool, next, prev, head, tail, pending, cursor>>

-----------------------------------------------------------------------------
(* The list of a row, read forwards from its head and backwards from its   *)
(* tail. A walk that meets a cycle is cut after NumNodes + 1 nodes.        *)

Walk(start, link) ==
  LET at[k \in 0 .. NumNodes] ==
        IF k = 0 THEN start
        ELSE IF at[k - 1] = NULL THEN NULL ELSE link[at[k - 1]]
  IN [k \in 1 .. Cardinality({j \in 0 .. NumNodes : at[j] # NULL}) |-> at[k - 1]]

Forward(r)  == Walk(head[r], next)
Backward(r) == Walk(tail[r], prev)

-----------------------------------------------------------------------------
(* genericDLL_createNewNode. The last node of the pool is never given out. *)
Create ==
  /\ Idle /\ pending = NULL
  /\ IF currNodeIdx >= NumNodes - 1
       THEN Fail("outOfNodes")
       ELSE /\ pending' = nodeArr[currNodeIdx]
            /\ nodeArr' = [nodeArr EXCEPT ![currNodeIdx] = NULL]
            /\ currNodeIdx' = currNodeIdx + 1
            /\ UNCHANGED <<next, prev, head, tail, cursor, listFault>>

(* Mutant: the tail stays where it was.                                    *)
AppendNodeKeepsTail(r) ==
  /\ Idle /\ pending # NULL
  /\ next' = IF head[r] = NULL THEN next ELSE [next EXCEPT ![tail[r]] = pending]
  /\ prev' = [prev EXCEPT ![pending] = IF head[r] = NULL THEN NULL ELSE tail[r]]
  /\ head' = IF head[r] = NULL THEN [head EXCEPT ![r] = pending] ELSE head
  /\ tail' = IF head[r] = NULL THEN [tail EXCEPT ![r] = pending] ELSE tail
  /\ pending' = NULL
  /\ UNCHANGED <<pool, cursor, listFault>>

(* genericDLL_appendNewNodeOntoLinkedList                                  *)
AppendNode(r) ==
  /\ Idle /\ pending # NULL
  /\ IF head[r] # NULL /\ tail[r] = NULL
       THEN Fail("corrupt")
       ELSE /\ next' = IF head[r] = NULL
                         THEN [next EXCEPT ![pending] = NULL]
                         ELSE [next EXCEPT ![tail[r]] = pending, ![pending] = NULL]
            /\ prev' = [prev EXCEPT ![pending] = IF head[r] = NULL THEN NULL ELSE tail[r]]
            /\ head' = IF head[r] = NULL THEN [head EXCEPT ![r] = pending] ELSE head
            /\ tail' = [tail EXCEPT ![r] = pending]
            /\ pending' = NULL
            /\ UNCHANGED <<pool, cursor, listFault>>

(* genericDLL_insertNewNodeIntoLinkedList. The caller looks for the place  *)
(* backwards from the tail, and appends rather than insert behind it.      *)
InsertAtHead(r) ==
  /\ Idle /\ pending # NULL /\ head[r] # NULL
  /\ next' = [next EXCEPT ![pending] = head[r]]
  /\ prev' = [prev EXCEPT ![pending] = NULL, ![head[r]] = pending]
  /\ head' = [head EXCEPT ![r] = pending]
  /\ pending' = NULL
  /\ UNCHANGED <<pool, tail, cursor, listFault>>

(* Mutant: the node behind the place is not linked back.                   *)
InsertAfterOneWay(r, n) ==
  /\ Idle /\ pending # NULL /\ n # tail[r]
  /\ next' = [next EXCEPT ![pending] = next[n], ![n] = pending]
  /\ prev' = [prev EXCEPT ![pending] = n]
  /\ pending' = NULL
  /\ UNCHANGED <<pool, head, tail, cursor, listFault>>

InsertAfter(r, n) ==
  /\ Idle /\ pending # NULL /\ n # tail[r]
  /\ IF next[n] = NULL
       THEN Fail("corrupt")
       ELSE /\ next' = [next EXCEPT ![pending] = next[n], ![n] = pending]
            /\ prev' = [prev EXCEPT ![pending] = n, ![next[n]] = pending]
            /\ pending' = NULL
            /\ UNCHANGED <<pool, head, tail, cursor, listFault>>

-----------------------------------------------------------------------------
(* freeNode: the node is cleared and put back on top of the free nodes.    *)
Unfreeable == currNodeIdx = 0 \/ nodeArr[currNodeIdx - 1] # NULL

PutBack(n) ==
  /\ nodeArr' = [nodeArr EXCEPT ![currNodeIdx - 1] = n]
  /\ currNodeIdx' = currNodeIdx - 1

(* genericDLL_deleteNodeFromList, by the place of the node in its list.    *)

DeleteHead(r) ==
  /\ head' = [head EXCEPT ![r] = next[head[r]]]
  /\ tail' = IF next[head[r]] = NULL THEN [tail EXCEPT ![r] = NULL] ELSE tail
  /\ next' = [next EXCEPT ![head[r]] = NULL]
  /\ prev' = IF next[head[r]] = NULL
               THEN [prev EXCEPT ![head[r]] = NULL]
               ELSE [prev EXCEPT ![next[head[r]]] = NULL, ![head[r]] = NULL]

DeleteTail(r) ==
  /\ tail' = [tail EXCEPT ![r] = prev[tail[r]]]
  /\ next' = [next EXCEPT ![prev[tail[r]]] = NULL, ![tail[r]] = NULL]
  /\ prev' = [prev EXCEPT ![tail[r]] = NULL]
  /\ UNCHANGED head

DeleteBetween(n) ==
  /\ next' = [next EXCEPT ![prev[n]] = next[n], ![n] = NULL]
  /\ prev' = [prev EXCEPT ![next[n]] = prev[n], ![n] = NULL]
  /\ UNCHANGED <<head, tail>>

Undeletable(r, n) ==
  \/ head[r] = NULL \/ tail[r] = NULL
  \/ n # head[r] /\ prev[n] = NULL
  \/ n # head[r] /\ n # tail[r] /\ next[n] = NULL

Delete(r, n) ==
  /\ Idle /\ pending = NULL
  /\ IF Undeletable(r, n) \/ Unfreeable
       THEN Fail("corrupt")
       ELSE /\ CASE n = head[r]                 -> DeleteHead(r)
                 [] n # head[r] /\ n = tail[r]  -> DeleteTail(r)
                 [] n # head[r] /\ n # tail[r]  -> DeleteBetween(n)
            /\ PutBack(n)
            /\ UNCHANGED <<pending, cursor, listFault>>

-----------------------------------------------------------------------------
(* genericDLL_freeEntireLinkedList: head and tail go first, then each node *)
(* is reached through the one before it, which is freed.                   *)
FreeList(r) ==
  /\ Idle /\ pending = NULL
  /\ IF head[r] = NULL \/ tail[r] = NULL
       THEN Fail("emptyList")
       ELSE /\ cursor' = head[r]
            /\ head' = [head EXCEPT ![r] = NULL]
            /\ tail' = [tail EXCEPT ![r] = NULL]
            /\ UNCHANGED <<pool, next, prev, pending, listFault>>

(* Mutant: the loop stays at the node it has freed.                        *)
FreeStepStays ==
  /\ listFault = "none" /\ cursor # NULL
  /\ LET victim == IF next[cursor] = NULL THEN cursor ELSE prev[next[cursor]]
     IN IF victim = NULL \/ Unfreeable
          THEN Fail("corrupt")
          ELSE /\ cursor' = victim
               /\ next' = [next EXCEPT ![victim] = NULL]
               /\ prev' = [prev EXCEPT ![victim] = NULL]
               /\ PutBack(victim)
               /\ UNCHANGED <<head, tail, pending, listFault>>

FreeStep ==
  /\ listFault = "none" /\ cursor # NULL
  /\ LET succ   == next[cursor]
         victim == IF succ = NULL THEN cursor ELSE prev[succ]
     IN IF victim = NULL \/ Unfreeable
          THEN Fail("corrupt")
          ELSE /\ cursor' = succ
               /\ next' = [next EXCEPT ![victim] = NULL]
               /\ prev' = [prev EXCEPT ![victim] = NULL]
               /\ PutBack(victim)
               /\ UNCHANGED <<head, tail, pending, listFault>>

-----------------------------------------------------------------------------
Fresh ==
  [nodeArr |-> [i \in 0 .. NumNodes - 1 |-> i + 1],
   null    |-> [n \in Nodes |-> NULL],
   empty   |-> [r \in ListRows |-> NULL]]

(* genericDLL_init                                                         *)
PoolInit ==
  /\ nodeArr = Fresh.nodeArr /\ currNodeIdx = 0
  /\ next = Fresh.null /\ prev = Fresh.null
  /\ head = Fresh.empty /\ tail = Fresh.empty
  /\ pending = NULL /\ cursor = NULL
  /\ listFault = "none"

Restart ==
  /\ listFault # "none"
  /\ nodeArr' = Fresh.nodeArr /\ currNodeIdx' = 0
  /\ next' = Fresh.null /\ prev' = Fresh.null
  /\ head' = Fresh.empty /\ tail' = Fresh.empty
  /\ pending' = NULL /\ cursor' = NULL
  /\ listFault' = "none"

Next ==
  \/ Create
  \/ \E r \in ListRows : AppendNode(r) \/ InsertAtHead(r) \/ FreeList(r)
  \/ \E r \in ListRows : \E n \in ToSet(Forward(r)) : InsertAfter(r, n) \/ Delete(r, n)
  \/ FreeStep
  \/ Restart

Spec == PoolInit /\ [][Next]_listVars

(* The loop that frees a list runs on; nothing obliges the caller to call. *)
FairSpec == Spec /\ WF_listVars(FreeStep)

-----------------------------------------------------------------------------
ListsTypeOK ==
  /\ nodeArr \in [0 .. NumNodes - 1 -> Pointers]
  /\ currNodeIdx \in 0 .. NumNodes - 1
  /\ next \in [Nodes -> Pointers] /\ prev \in [Nodes -> Pointers]
  /\ head \in [ListRows -> Pointers] /\ tail \in [ListRows -> Pointers]
  /\ {pending, cursor} \subseteq Pointers
  /\ listFault \in {"none", "outOfNodes", "emptyList", "corrupt"}

(* Every list reads the same in both directions: gridManager.c searches    *)
(* forwards from the head and looks for insertion points backwards from    *)
(* the tail.                                                               *)
BothDirectionsAgree == \A r \in ListRows : Backward(r) = Reverse(Forward(r))

(* Where a node may be: in the list of a row, or in one of three places    *)
(* that are no rows.                                                       *)
Free    == -1   \* in nodeArr, from currNodeIdx on
Waiting == -2   \* created, not linked yet
Freeing == -3   \* in the rest of the list being freed
Places  == ListRows \cup {Free, Waiting, Freeing}

Line(p) ==
  CASE p \in ListRows    -> Forward(p)
    [] p = Free      -> [i \in 1 .. NumNodes - currNodeIdx |-> nodeArr[currNodeIdx + i - 1]]
    [] p = Waiting   -> IF pending = NULL THEN <<>> ELSE <<pending>>
    [] p = Freeing   -> Walk(cursor, next)

(* No node is lost and none is in two places, nor twice in a list.         *)
NodesConserved ==
  \A n \in Nodes : \E p \in Places : \E i \in DOMAIN Line(p) :
    /\ Line(p)[i] = n
    /\ \A q \in Places : \A j \in DOMAIN Line(q) : Line(q)[j] = n => q = p /\ j = i

(* The component's own assertions about its pointers never fail; what can  *)
(* fail are the two that guard against the caller.                         *)
PointersNeverCorrupt == listFault # "corrupt"

(* A list that is being freed is freed to its end, and the pool has all of *)
(* its nodes back.                                                         *)
FreeingEnds == cursor # NULL ~> cursor = NULL

Seqs == INSTANCE RowLists
              WITH Rows <- ListRows, seqs <- [r \in ListRows |-> Forward(r)], None <- NULL

(* The pointers implement one sequence of nodes per row.                   *)
ImplementsRowLists == Seqs!Spec

(* All of this at once is what every operation of gridManager.c relies on. *)
ListsSound == ListsTypeOK /\ BothDirectionsAgree /\ NodesConserved /\ PointersNeverCorrupt
=============================================================================
