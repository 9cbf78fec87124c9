------------------------------ MODULE LfsPairs ------------------------------
(***************************************************************************)
(* Metadata pairs of littlefs (lfs.c, "Metadata pair and directory         *)
(* operations"). A directory is a chain of pairs of blocks; one block of a *)
(* pair is current, the other is written when the current one is full or   *)
(* worn. All pairs are threaded on one list, and the differences of the    *)
(* global state that the pairs hold add up to the state of the volume.     *)
(*                                                                         *)
(* A commit to one pair is atomic: what was written of a block when power  *)
(* fails does not match its checksum, and the other block is as it was.    *)
(* An operation on a volume leads to a set of volumes, for a commit may be *)
(* appended, compacted, moved to a new block or meet a full volume.        *)
(***************************************************************************)
EXTENDS Integers, FiniteSets, SequencesExt

CONSTANTS
  BlockCount,  \* blocks of the volume
  Room,        \* entries a commit may be appended to
  HalfRoom,    \* entries that are left together when a pair is compacted
  TiredWhenFull  \* a block may be written too often when no other is free

ASSUME LfsPairsAssumption ==
  BlockCount \in Nat /\ Room \in Nat /\ HalfRoom \in Nat /\ 0 < HalfRoom /\ HalfRoom <= Room

Blocks == 0 .. BlockCount - 1
Root == {0, 1}   \* pair that mounting starts from
NoPair == {}

(* Entries are sorted by name; the superblock's is the first of its pair.  *)
Super == [name |-> 0, what |-> "super", pair |-> NoPair]
FileEntry(name, data) == [name |-> name, what |-> data, pair |-> NoPair]
DirEntry(name, pair) == [name |-> name, what |-> "dir", pair |-> pair]

Blank == [ok |-> FALSE, rev |-> 0, entries |-> <<>>, tail |-> NoPair, split |-> FALSE,
          delta |-> {}]

----------------------------------------------------------------------------
(* Global state: a set of tokens, which may be added up in any order.      *)

Xor(S, T) == (S \ T) \cup (T \ S)

(* One token says that there are orphans, another which entry has moved.   *)
Orphans == <<NoPair, 0>>
Moved(pair, id) == <<pair, id>>

GState(v) == v.move \cup (IF v.orphans > 0 THEN {Orphans} ELSE {})

(* lfs_gstate_hasmovehere                                                  *)
MovedHere(g, pair) == {t[2] : t \in {u \in g : u[1] \cap pair # {}}}

----------------------------------------------------------------------------
(* Reading                                                                 *)

Fails(v, what) == [v EXCEPT !.err = what]

(* The volumes that the next step leads to from those of S, as long as     *)
(* nothing failed.                                                         *)
Then(S, Next(_)) == UNION {IF v.err = "" THEN Next(v) ELSE {v} : v \in S}

Pair(m) == {m.cur, m.other}

(* lfs_dir_fetchmatch: the block with the newer revision, if it is intact. *)
Fetch(v, pair) ==
  LET intact == {b \in pair : v.flash[b].ok}
      newest == CHOOSE b \in intact : \A o \in intact : v.flash[o].rev <= v.flash[b].rev
  IN [cur |-> newest, other |-> CHOOSE b \in pair : b # newest,
      c |-> v.flash[newest], fresh |-> FALSE]

(* Entries as they are read: a move recorded on flash hides its source.    *)
Seen(v, m) ==
  LET hidden == MovedHere(v.gdisk, Pair(m)) \cap DOMAIN m.c.entries
  IN IF hidden = {} THEN m.c.entries ELSE RemoveAt(m.c.entries, CHOOSE i \in hidden : TRUE)

(* The pairs from one on: to the end of the list, or of the directory.     *)
RECURSIVE Follow(_, _, _, _)
Follow(v, pair, whole, n) ==
  LET m == Fetch(v, pair)
  IN IF pair = NoPair \/ n = 0 THEN <<>>
     ELSE <<m>> \o (IF whole \/ m.c.split THEN Follow(v, m.c.tail, whole, n - 1) ELSE <<>>)

List(v) == Follow(v, Root, TRUE, BlockCount \div 2)
DirChain(v, head) == Follow(v, head, FALSE, BlockCount \div 2)

(* The first element of a sequence with the property, if there is one.     *)
FirstOf(s, P(_)) ==
  LET at == {i \in DOMAIN s : P(s[i])}
  IN IF at = {} THEN {} ELSE {s[CHOOSE i \in at : \A j \in at : i <= j]}

(* lfs_fs_pred                                                             *)
PredOf(v, pair) == FirstOf(List(v), LAMBDA m : m.c.tail \cap pair # {})

(* lfs_fs_parent, with the position of the entry                           *)
ParentOf(v, pair) ==
  LET points(m) == {i \in DOMAIN Seen(v, m) : Seen(v, m)[i].pair \cap pair # {}}
  IN {[m |-> m, id |-> CHOOSE i \in points(m) : TRUE] :
        m \in FirstOf(List(v), LAMBDA m : points(m) # {})}

(* lfs_dir_find in one directory: the entry, or where it belongs.          *)
FindIn(v, head, name) ==
  LET chain == DirChain(v, head)
      from(m) == {i \in DOMAIN Seen(v, m) : Seen(v, m)[i].name >= name}
      there == FirstOf(chain, LAMBDA m : from(m) # {})
      m == IF there = {} THEN Last(chain) ELSE CHOOSE t \in there : TRUE
      id == IF from(m) = {} THEN Len(Seen(v, m)) + 1
            ELSE CHOOSE i \in from(m) : \A j \in from(m) : i <= j
      found == id <= Len(Seen(v, m)) /\ Seen(v, m)[id].name = name
  IN [m |-> m, id |-> id, found |-> found,
      entry |-> IF found THEN Seen(v, m)[id] ELSE Super]

RECURSIVE Find(_, _)
Find(v, path) ==
  LET head == IF Len(path) = 1 THEN v.root ELSE Find(v, Front(path)).entry.pair
  IN FindIn(v, head, Last(path))

----------------------------------------------------------------------------
(* Allocation                                                              *)

(* lfs_fs_rawtraverse, orphans included                                    *)
InUse(v) ==
  LET list == List(v)
      named(m) == UNION {m.c.entries[i].pair : i \in DOMAIN m.c.entries}
  IN Root \cup UNION {list[i].c.tail \cup named(list[i]) : i \in DOMAIN list}

(* lfs_alloc: blocks that hold nothing are alike, one that was freed a     *)
(* moment ago may be offered again.                                        *)
Alloc(v) ==
  LET free == Blocks \ (InUse(v) \cup v.taken)
      empty == {b \in free : ~v.flash[b].ok}
      next == {b \in free : b \in empty => \A o \in empty : b <= o}
  IN IF next = {} THEN {Fails(v, "nospc")}
     ELSE {[v EXCEPT !.got = b, !.taken = @ \cup {b}] : b \in next}

(* lfs_dir_alloc: the second block is taken first.                         *)
FreshPair(v) ==
  Then(Alloc(v), LAMBDA a : Then(Alloc(a), LAMBDA b :
    {[b EXCEPT !.dir = [cur |-> b.got, other |-> a.got, c |-> Blank, fresh |-> TRUE]]}))

----------------------------------------------------------------------------
(* Commits                                                                 *)

(* The attributes of a commit, applied to what the pair holds.             *)
Create(id, entry) == [op |-> "create", id |-> id, entry |-> entry]
Delete(id)        == [op |-> "delete", id |-> id]
Struct(id, pair)  == [op |-> "struct", id |-> id, pair |-> pair]
Data(id, data)    == [op |-> "data", id |-> id, data |-> data]
Link(pair, split) == [op |-> "tail", pair |-> pair, split |-> split]
If(cond, attr)    == IF cond THEN <<attr>> ELSE <<>>

Apply(c, attr) ==
  CASE attr.op = "create" -> [c EXCEPT !.entries = InsertAt(@, attr.id, attr.entry)]
    [] attr.op = "delete" -> [c EXCEPT !.entries = RemoveAt(@, attr.id)]
    [] attr.op = "struct" -> [c EXCEPT !.entries[attr.id].pair = attr.pair]
    [] attr.op = "data"   -> [c EXCEPT !.entries[attr.id].what = attr.data]
    [] attr.op = "tail"   -> [c EXCEPT !.tail = attr.pair, !.split = attr.split]

(* Block b now holds c.                                                    *)
Written(v, b, other, c, delta, relocated) ==
  LET new == [c EXCEPT !.ok = TRUE, !.delta = delta]
  IN [v EXCEPT !.flash[b] = new, !.gdelta = {},
               !.gdisk = IF relocated THEN @ ELSE GState(v),
               !.dir = [cur |-> b, other |-> other, c |-> new, fresh |-> FALSE],
               !.state = IF relocated THEN "relocated" ELSE "ok"]

(* The end of the log of the current block; the difference that was there  *)
(* stays if there is nothing to add to it.                                 *)
Appended(v, m, c) ==
  LET d == Xor(Xor(GState(v), v.gdisk), v.gdelta)
  IN IF m.fresh \/ Len(c.entries) > Room THEN {}
     ELSE {Written(v, m.cur, m.other, c, Xor(d, m.c.delta), FALSE)}

(* lfs_dir_compact: a block that fails, or was written often enough, is    *)
(* replaced; the changes to the global state are then left to the commits  *)
(* that follow. A block that is only worn is kept if there is no other.    *)
Compact(v, m, c) ==
  LET next == [c EXCEPT !.rev = v.flash[m.cur].rev + 1]
      own  == Xor(v.gdelta, m.c.delta)
  IN {Written(v, m.other, m.cur, next, Xor(own, Xor(GState(v), v.gdisk)), FALSE)}
     \cup IF Pair(m) = Root \/ v.moves = 0 THEN {}
          ELSE UNION {IF a.err = "" THEN {Written(a, a.got, m.cur, next, own, TRUE)}
                      ELSE {a} \cup IF TiredWhenFull
                                     THEN {Written([a EXCEPT !.err = ""], m.other, m.cur, next, own, TRUE)}
                                     ELSE {} :
                        a \in Alloc([v EXCEPT !.moves = @ - 1])}

(* How many entries stay: half, until the others fit.                      *)
RECURSIVE SplitPoint(_, _)
SplitPoint(split, end) ==
  IF end - split <= 1 \/ end - split <= HalfRoom THEN split
  ELSE SplitPoint(split + (end - split) \div 2, end)

(* lfs_dir_split: the entries after the first ones go to a new pair.       *)
SplitOff(v, c, first) ==
  Then(FreshPair(v), LAMBDA a :
    Compact(a, a.dir, [c EXCEPT !.entries = SubSeq(@, first + 1, Len(@))]))

Remaining(v, c, first) ==
  [c EXCEPT !.entries = SubSeq(@, 1, first), !.tail = Pair(v.dir), !.split = TRUE]

(* ... unless there is no room for one.                                    *)
IfSplit(S, m, c, Next(_)) ==
  UNION {IF a.err = "" THEN Next(a)
         ELSE IF a.err = "nospc" THEN Compact([a EXCEPT !.err = ""], m, c)
         ELSE {a} : a \in S}

(* The root moves out of the first pair, which was written too often.      *)
Expand(v, m, c) ==
  IF Pair(m) # Root \/ v.moves = 0 \/ 2 * Cardinality(InUse(v)) >= BlockCount THEN {}
  ELSE IfSplit(SplitOff([v EXCEPT !.moves = @ - 1], c, 0), m, c, LAMBDA a :
         Compact([a EXCEPT !.root = IF @ = Root THEN Pair(a.dir) ELSE @], m, Remaining(a, c, 0)))

(* lfs_dir_splittingcompact                                                *)
RECURSIVE SplittingCompact(_, _, _)
SplittingCompact(v, m, c) ==
  LET first == SplitPoint(0, Len(c.entries))
  IN IF first = 0 THEN Compact(v, m, c) \cup Expand(v, m, c)
     ELSE IfSplit(SplitOff(v, c, first), m, c,
                  LAMBDA a : SplittingCompact(a, m, Remaining(a, c, first)))

(* Handles that are open on the pair keep their place, and are followed to *)
(* the pair their entry was split off to. The port refuses to remove what  *)
(* is open, so no handle loses its entry.                                  *)
Shift(id, attr) ==
  IF attr.op = "delete" /\ id > attr.id THEN id - 1
  ELSE IF attr.op = "create" /\ id >= attr.id THEN id + 1
  ELSE id

RECURSIVE Settle(_, _)
Settle(v, h) ==
  IF h.id <= Len(h.m.c.entries) \/ ~h.m.c.split THEN h
  ELSE Settle(v, [h EXCEPT !.id = @ - Len(h.m.c.entries), !.m = Fetch(v, h.m.c.tail)])

FixHandles(v, pair, attrs) ==
  LET fix(h) == IF Pair(h.m) \cap pair = {} THEN h
                ELSE Settle(v, [h EXCEPT !.m = v.dir, !.id = FoldLeft(Shift, @, attrs)])
  IN [v EXCEPT !.handles = [i \in DOMAIN @ |-> fix(@[i])]]

(* lfs_dir_relocatingcommit. A pair of a directory that becomes empty is   *)
(* not written but dropped, if it is not the directory's first.            *)
RelocatingCommit(v, m, attrs, mayDrop) ==
  LET c == FoldLeft(Apply, m.c, attrs)
      empties == c.entries = <<>> /\ \E i \in DOMAIN attrs : attrs[i].op = "delete"
      before == PredOf(v, Pair(m))
      drops == empties /\ \E p \in before : p.c.split
  IN IF ~m.fresh /\ v.flash[m.cur] # m.c THEN {Fails(v, "stale")}
     ELSE IF empties /\ ~mayDrop THEN {Fails(v, "pdir")}
     ELSE IF drops
     THEN {FixHandles([v EXCEPT !.state = "dropped", !.dir = [m EXCEPT !.c = c],
                                !.pdir = CHOOSE p \in before : TRUE], Pair(m), attrs)}
     ELSE Then(Appended(v, m, c)
                 \cup (IF v.calm /\ Appended(v, m, c) # {} THEN {} ELSE SplittingCompact(v, m, c)),
               LAMBDA w : {FixHandles(w, Pair(m), attrs)})
=============================================================================
