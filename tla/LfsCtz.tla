------------------------------- MODULE LfsCtz -------------------------------
(***************************************************************************)
(* The skip list littlefs keeps a file's data in (lfs.c, "ctz"), over flash *)
(* whose blocks are arrays of words. Block k of a file starts with         *)
(* ctz(k)+1 pointers, block 0 with none: pointer i leads back 2^i blocks.  *)
(* A file is known by its last block and its size.                         *)
(* A word is as wide as a pointer; blocks of the code have 32 and more.    *)
(***************************************************************************)
EXTENDS Integers, FiniteSets, Sequences

CONSTANTS
  BlockSize,   \* words of a block
  BlockCount   \* blocks of the partition; 0 and 1 hold the superblock

ASSUME CtzAssumption == BlockSize \in Nat /\ BlockSize >= 5 /\ BlockCount \in Nat \ {0, 1}

Blocks == 0 .. BlockCount - 1
Words  == 0 .. BlockSize - 1
Null   == -1           \* LFS_BLOCK_NULL, and an erased word
Inline == -2           \* LFS_BLOCK_INLINE

Blank == [o \in Words |-> Null]

RECURSIVE Popc(_), Ctz(_)
Popc(a) == IF a = 0 THEN 0 ELSE (a % 2) + Popc(a \div 2)
Ctz(a)  == IF a % 2 = 1 THEN 0 ELSE 1 + Ctz(a \div 2)
Npw2(a) == CHOOSE k \in 0 .. a : 2^k >= a /\ \A j \in 0 .. k - 1 : 2^j < a
Lesser(a, b)  == IF a < b THEN a ELSE b
Greater(a, b) == IF a > b THEN a ELSE b

(* lfs_ctz_index: the block of a position, and the offset in it.           *)
CtzIndex(size) ==
  LET b == BlockSize - 2
      i == (size - (Popc(size \div b - 1) + 2)) \div b
  IN IF size \div b = 0 THEN [index |-> 0, off |-> size]
     ELSE [index |-> i, off |-> size - b * i - Popc(i)]

(* The words before block k of a file.                                     *)
RECURSIVE WordsBefore(_)
WordsBefore(k) ==
  IF k = 0 THEN 0
  ELSE WordsBefore(k - 1) + BlockSize - (IF k = 1 THEN 0 ELSE Ctz(k - 1) + 1)

Pointers(k) == IF k = 0 THEN 0 ELSE Ctz(k) + 1

(* lfs_ctz_find, from the block with index current back to target. A       *)
(* pointer that is none ends the walk: reading there is an error.          *)
RECURSIVE Walk(_, _, _, _)
Walk(flash, head, current, target) ==
  IF current <= target \/ head \notin Blocks THEN head
  ELSE LET skip == Lesser(Npw2(current - target + 1) - 1, Ctz(current))
       IN Walk(flash, flash[head][skip], current - 2^skip, target)

CtzFind(flash, head, size, pos) ==
  IF size = 0 THEN [block |-> Null, off |-> 0]
  ELSE [block |-> Walk(flash, head, CtzIndex(size - 1).index, CtzIndex(pos).index),
        off |-> CtzIndex(pos).off]

(* lfs_ctz_traverse: the blocks of a file. An even block is left along its *)
(* second pointer, the block its first one names is taken on the way.      *)
RECURSIVE Traverse(_, _, _)
Traverse(flash, head, index) ==
  {head} \cup (IF index = 0 \/ head \notin Blocks THEN {}
               ELSE IF index % 2 = 1 THEN Traverse(flash, flash[head][0], index - 1)
               ELSE {flash[head][0]} \cup Traverse(flash, flash[head][1], index - 2))

CtzBlocks(flash, head, size) ==
  IF size = 0 THEN {} ELSE Traverse(flash, head, CtzIndex(size - 1).index)

(* The pointers of a block that follows head (lfs_ctz_extend).             *)
RECURSIVE PointersAfter(_, _, _, _)
PointersAfter(flash, head, i, skips) ==
  IF i = skips THEN <<>>
  ELSE <<head>> \o PointersAfter(flash, IF head \in Blocks THEN flash[head][i] ELSE Null,
                                 i + 1, skips)

(* flash with words written to block b from offset o on (lfs_bd_prog).     *)
Prog(flash, b, o, words) ==
  [flash EXCEPT ![b] = [w \in Words |-> IF w \in o .. o + Len(words) - 1
                                        THEN words[w - o + 1] ELSE @[w]]]

WordsOf(flash, b, n) == [k \in 1 .. n |-> flash[b][k - 1]]

(* What the file holds, position by position.                              *)
ContentOf(flash, head, size) ==
  [p \in 1 .. size |->
     LET at == CtzFind(flash, head, size, p - 1)
     IN IF at.block \in Blocks THEN flash[at.block][at.off] ELSE Null]
=============================================================================
