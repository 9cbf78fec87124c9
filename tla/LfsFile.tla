------------------------------ MODULE LfsFile ------------------------------
(***************************************************************************)
(* A file of littlefs and the handle it is open on (lfs.c, "Top level file *)
(* operations"), with the block allocator behind it. A small file is kept  *)
(* in its directory entry (inline), a larger one in the skip list of       *)
(* LfsCtz. Writing never changes blocks in use: it starts a branch that    *)
(* shares the blocks before, and the directory entry changes at sync.      *)
(*                                                                         *)
(* ProgSize words are a line of the program cache, and a block holds       *)
(* whole lines. A worn block fails the comparison after a line of it was   *)
(* programmed, and what is in the cache is read as if it were on flash.    *)
(* Erasing works.                                                          *)
(***************************************************************************)
EXTENDS LfsCtz, TLC

CONSTANTS
  InlineMax,         \* words an inline file may have
  ProgSize,          \* words of the program cache
  LookSize,          \* blocks of the allocator's window
  Worn,              \* blocks that fail when a line of them is programmed
  MaxSteps,          \* bound on the operations of a behaviour
  MaxSize,           \* bound on the size of a file
  Versions,          \* what the words of one opening are stamped with
  Starts,            \* where the allocator may start after mounting
  WriteSizes, ReadSizes, SeekPositions, TruncateSizes,
  SeeksAtBlockEnd,   \* does a reader seek after the last word of a block?
  Appenders          \* the openings that write at the end (LFS_O_APPEND)

(* What lfs_init asserts: a block is whole lines, and holds the pointers   *)
(* of every block a file may have, here a file of MaxSize words.           *)
ASSUME LfsAssumption ==
  /\ InlineMax \in Nat \ {0} /\ ProgSize \in Nat \ {0} /\ LookSize \in Nat \ {0}
  /\ InlineMax < BlockSize /\ BlockSize % ProgSize = 0
  /\ \A p \in 0 .. MaxSize : Pointers(CtzIndex(p).index) <= BlockSize
  /\ Worn \subseteq Blocks \ {0, 1}

VARIABLES
  flash,    \* what each block holds
  look,     \* lfs->free: a window of blocks from off on, searched up to i,
            \* used ones marked; ack blocks may be searched before giving up
  entry,    \* directory entry: inline data, or the last block and the size
  f,        \* lfs_file_t
  ret,      \* what the last operation read
  view,     \* what all this means: the contents on flash and of the handle
  steps     \* operations so far, up to MaxSteps

blocksVars == <<flash, look, entry, f, ret, view, steps>>

OpenFlags == {"closed", "inline", "dirty", "reading", "writing", "erred"}

(* Words are told apart by their position and version, 0 is the filling.   *)
Stamp(p, v) == 100 + 10 * p + v
Zero == 99

NoFileHandle == [flags |-> {"closed"}, version |-> 0, block |-> Null, off |-> 0, pos |-> 0,
                 head |-> Null, size |-> 0, data |-> <<>>]

Has(v, flag) == flag \in v.f.flags
SetMin(S) == CHOOSE m \in S : \A o \in S : m <= o

(* An operation works on a volume, and goes on as long as nothing failed.  *)
Volume == [flash |-> flash, look |-> look, entry |-> entry, f |-> f,
           ok |-> TRUE, got |-> Null, read |-> <<>>]
Failed(v)         == [v EXCEPT !.ok = FALSE]
OnSuccess(v, Op(_)) == IF v.ok THEN Op(v) ELSE v
Errs(v) == IF v.ok THEN v ELSE [v EXCEPT !.f.flags = @ \cup {"erred"}]

----------------------------------------------------------------------------
(* The allocator                                                           *)

ChainOf(v, head, size) == IF head = Inline THEN {} ELSE CtzBlocks(v.flash, head, size)

(* Mutant: a branch being written is not looked at.                        *)
InUseSaved(v) ==
  {0, 1} \cup ChainOf(v, v.entry.head, v.entry.size)
         \cup (IF Has(v, "dirty") /\ ~Has(v, "inline")
               THEN ChainOf(v, v.f.head, v.f.size) ELSE {})

(* lfs_fs_rawtraverse: the blocks of the committed file, of a changed one  *)
(* and of the branch being written.                                        *)
InUse(v) ==
  {0, 1} \cup ChainOf(v, v.entry.head, v.entry.size)
         \cup (IF Has(v, "dirty") /\ ~Has(v, "inline")
               THEN ChainOf(v, v.f.head, v.f.size) ELSE {})
         \cup (IF Has(v, "writing") /\ ~Has(v, "inline")
               THEN ChainOf(v, v.f.block, v.f.pos) ELSE {})

Window(off, size, ack, inUse) ==
  [off |-> off, size |-> size, i |-> 0, ack |-> ack,
   used |-> {o \in 0 .. size - 1 : (off + o) % BlockCount \in inUse}]

FreeInWindow(l) == (l.i .. l.size - 1) \ l.used

(* The window's next free block is taken, and the one after it sought.     *)
Take(v, o, next) ==
  [v EXCEPT !.look = [@ EXCEPT !.i = next, !.ack = @ - (next - v.look.i)],
            !.got = (v.look.off + o) % BlockCount]

(* The next window, unless every block was searched since the last         *)
(* acknowledgement. A walk that meets a bad pointer empties the window.    *)
Refill(v, left, inUse) ==
  LET off == (v.look.off + v.look.size) % BlockCount
  IN IF left = 0 THEN Failed([v EXCEPT !.look = [@ EXCEPT !.i = v.look.size, !.ack = 0]])
     ELSE IF inUse \subseteq Blocks
     THEN [v EXCEPT !.look = Window(off, Lesser(LookSize, left), left, inUse)]
     ELSE Failed([v EXCEPT !.look = Window(off, 0, BlockCount, {})])

(* lfs_alloc                                                               *)
RECURSIVE Alloc(_)
Alloc(v) ==
  LET free == FreeInWindow(v.look)
      o    == SetMin(free)
      next == IF free = {o} THEN v.look.size ELSE SetMin(free \ {o})
  IN IF ~v.ok THEN v
     ELSE IF free # {} THEN Take(v, o, next)
     ELSE Alloc(Refill(v, v.look.ack - (v.look.size - v.look.i), InUse(v)))

Ack(v) == [v EXCEPT !.look.ack = BlockCount]

(* A line of block b is programmed: words from o on fill it.               *)
Spoils(b, o, n) == b \in Worn /\ (o + n) \div ProgSize > o \div ProgSize

(* A new block with words in it. One that fails is left for the next.      *)
RECURSIVE Placed(_, _)
Placed(v, words) ==
  OnSuccess(Alloc(v), LAMBDA a :
    LET p == [a EXCEPT !.flash = Prog([@ EXCEPT ![a.got] = Blank], a.got, 0, words)]
    IN IF Spoils(a.got, 0, Len(words)) THEN Placed(p, words) ELSE p)

(* lfs_ctz_extend, after the first size words of the list that ends at     *)
(* head: a block that follows, or a copy of the last one if it has room.   *)
CtzExtend(v, head, size) ==
  LET last  == CtzIndex(size - 1)
      words == IF size = 0 THEN <<>>
               ELSE IF last.off + 1 # BlockSize THEN WordsOf(v.flash, head, last.off + 1)
               ELSE PointersAfter(v.flash, head, 0, Pointers(last.index + 1))
  IN IF size > 0 /\ head \notin Blocks THEN Failed(v)
     ELSE OnSuccess(Placed(v, words), LAMBDA e :
            [e EXCEPT !.f.block = e.got, !.f.off = Len(words), !.f.flags = @ \cup {"writing"}])

----------------------------------------------------------------------------
(* Steps of the file operations                                            *)

(* lfs_file_relocate: what the block holds so far moves to a new one.      *)
Relocate(v) ==
  OnSuccess(Placed(v, IF Has(v, "inline") THEN SubSeq(v.f.data, 1, v.f.off)
                      ELSE WordsOf(v.flash, v.f.block, v.f.off)),
            LAMBDA r : [r EXCEPT !.f.block = r.got, !.f.flags = @ \cup {"writing"}])

(* lfs_file_outline                                                        *)
Outline(v) ==
  OnSuccess(Relocate(Ack([v EXCEPT !.f.off = v.f.pos])),
            LAMBDA r : [r EXCEPT !.f.flags = @ \ {"inline"}, !.f.data = <<>>])

(* A block to write to at the file's position (lfs_file_flushedwrite).     *)
Positioned(v) ==
  IF Has(v, "writing") /\ v.f.off # BlockSize THEN v
  ELSE IF Has(v, "inline")
  THEN [v EXCEPT !.f.block = Inline, !.f.off = v.f.pos, !.f.flags = @ \cup {"writing"}]
  ELSE CtzExtend(Ack(v),
                 IF Has(v, "writing") \/ v.f.pos = 0 THEN v.f.block
                 ELSE CtzFind(v.flash, v.f.head, v.f.size, v.f.pos - 1).block,
                 v.f.pos)

Overwritten(old, o, words) == SubSeq(old, 1, o) \o words \o SubSeq(old, o + Len(words) + 1, Len(old))

(* Words at the block's offset; a block that fails is replaced.            *)
RECURSIVE Programmed(_, _)
Programmed(v, words) ==
  IF Has(v, "inline") THEN [v EXCEPT !.f.data = Overwritten(@, v.f.off, words)]
  ELSE IF Spoils(v.f.block, v.f.off, Len(words))
  THEN OnSuccess(Relocate(v), LAMBDA m : Programmed(m, words))
  ELSE [v EXCEPT !.flash = Prog(@, v.f.block, v.f.off, words)]

(* Its loop: as much as the block has room for.                            *)
RECURSIVE WriteWords(_, _)
WriteWords(v, data) ==
  IF data = <<>> THEN v
  ELSE OnSuccess(Positioned(v), LAMBDA w :
         LET n == Lesser(Len(data), BlockSize - w.f.off)
         IN OnSuccess(Programmed(w, SubSeq(data, 1, n)), LAMBDA p :
              WriteWords(Ack([p EXCEPT !.f.pos = @ + n, !.f.off = @ + n]),
                         SubSeq(data, n + 1, Len(data)))))

(* lfs_file_flushedwrite: a file too large to stay inline gets a block.    *)
FlushedWrite(v, data) ==
  LET grows == Has(v, "inline")
                 /\ Greater(v.f.pos + Len(data), v.f.size) > InlineMax
  IN Errs(OnSuccess(IF grows THEN Outline(v) ELSE v, LAMBDA o : WriteWords(o, data)))

(* Mutant: the file ends where the last word was written.                  *)
CopyNothing(v) == v

(* What is after the branch is copied to it, word by word.                 *)
RECURSIVE CopyTail(_)
CopyTail(v) ==
  LET at == CtzFind(v.flash, v.f.head, v.f.size, v.f.pos)
  IN IF ~v.ok \/ v.f.pos >= v.f.size THEN v
     ELSE IF at.block \notin Blocks THEN Failed(v)
     ELSE CopyTail(FlushedWrite(v, <<v.flash[at.block][at.off]>>))

(* The rest of the cache is written out (lfs_bd_flush).                    *)
RECURSIVE Verified(_)
Verified(v) ==
  IF ~v.ok \/ v.f.block \notin Worn \/ v.f.off % ProgSize = 0 THEN v
  ELSE Verified(Relocate(v))

(* lfs_file_flush: the branch becomes the file.                            *)
Flush(v) ==
  IF ~Has(v, "writing") THEN [v EXCEPT !.f.flags = @ \ {"reading"}]
  ELSE OnSuccess(IF Has(v, "inline") THEN [v EXCEPT !.f.pos = Greater(@, v.f.size)]
                 ELSE Verified(CopyTail(v)),
                 LAMBDA w : [w EXCEPT !.f.head = w.f.block, !.f.size = w.f.pos, !.f.pos = v.f.pos,
                                      !.f.flags = (@ \ {"writing"}) \cup {"dirty"}])

(* lfs_file_flushedread, word by word.                                     *)
ReadAt(v) ==
  LET at == IF Has(v, "inline") THEN [block |-> Inline, off |-> v.f.pos]
            ELSE CtzFind(v.flash, v.f.head, v.f.size, v.f.pos)
  IN IF Has(v, "reading") /\ v.f.off # BlockSize THEN v
     ELSE [v EXCEPT !.f.block = at.block, !.f.off = at.off, !.f.flags = @ \cup {"reading"}]

ReadWord(v) ==
  LET word == IF Has(v, "inline") THEN v.f.data[v.f.off + 1] ELSE v.flash[v.f.block][v.f.off]
  IN IF ~Has(v, "inline") /\ v.f.block \notin Blocks THEN Failed(v)
     ELSE [v EXCEPT !.f.pos = @ + 1, !.f.off = @ + 1, !.read = Append(@, word)]

RECURSIVE FlushedRead(_, _)
FlushedRead(v, n) ==
  IF n = 0 \/ v.f.pos >= v.f.size \/ ~v.ok THEN v
  ELSE FlushedRead(ReadWord(ReadAt(v)), n - 1)

(* lfs_file_rawread                                                        *)
Read(v, n) ==
  OnSuccess(IF Has(v, "writing") THEN Flush(v) ELSE v, LAMBDA w : FlushedRead(w, n))

(* lfs_file_rawseek; near, for a reader: the cache still covers the new    *)
(* position.                                                               *)
Seek(v, npos, near) ==
  LET same == CtzIndex(v.f.pos).index = CtzIndex(npos).index
  IN IF v.f.pos = npos THEN v
     ELSE IF near /\ same /\ ~Has(v, "writing")
     THEN [v EXCEPT !.f.pos = npos, !.f.off = CtzIndex(npos).off]
     ELSE OnSuccess(Flush(v), LAMBDA w : [w EXCEPT !.f.pos = npos])

(* lfs_file_rawwrite: a gap is filled first; a write that works makes an   *)
(* earlier error forgotten.                                                *)
FillGap(v) ==
  LET gap == v.f.pos - v.f.size
  IN IF Has(v, "writing") \/ gap <= 0 THEN v
     ELSE FlushedWrite([v EXCEPT !.f.pos = v.f.size], [k \in 1 .. gap |-> Zero])

(* An opening that appends writes from the end of the file on.             *)
StartOfWrite(v) ==
  IF v.f.version \in Appenders THEN Greater(v.f.pos, v.f.size) ELSE v.f.pos

WriteOut(v, data) ==
  LET r == [v EXCEPT !.f.flags = @ \ {"reading"}, !.f.pos = StartOfWrite(v)]
  IN OnSuccess(OnSuccess(FillGap(r), LAMBDA z : FlushedWrite(z, data)),
               LAMBDA w : [w EXCEPT !.f.flags = @ \ {"erred"}])

FileSize(v) == IF Has(v, "writing") THEN Greater(v.f.pos, v.f.size) ELSE v.f.size

(* lfs_file_rawtruncate to less: the position is put back by a seek.       *)
Shorten(v, size, near) ==
  OnSuccess(Flush(v), LAMBDA w :
    LET at == CtzFind(w.flash, w.f.head, w.f.size, size)
    IN Seek([w EXCEPT !.f.block = at.block, !.f.off = at.off, !.f.pos = size,
                      !.f.head = at.block, !.f.size = size,
                      !.f.data = IF Has(w, "inline") THEN SubSeq(@, 1, size) ELSE @,
                      !.f.flags = @ \cup {"dirty", "reading"}], v.f.pos, near))

(* ... and to more: the end is filled.                                     *)
Lengthen(v, size) ==
  LET fill == [k \in 1 .. size - FileSize(v) |-> Zero]
  IN OnSuccess(OnSuccess(Seek(v, FileSize(v), FALSE), LAMBDA e : WriteOut(e, fill)),
               LAMBDA w : Seek(w, v.f.pos, FALSE))

TruncateTo(v, size, near) ==
  IF size < FileSize(v) THEN Shorten(v, size, near)
  ELSE IF size > FileSize(v) THEN Lengthen(v, size) ELSE v

(* lfs_file_rawsync: the entry changes if the commit works.                *)
Commit(v, commits) ==
  LET named == IF Has(v, "inline") THEN [head |-> Inline, size |-> v.f.size, data |-> v.f.data]
               ELSE [head |-> v.f.head, size |-> v.f.size, data |-> <<>>]
  IN IF ~Has(v, "dirty") THEN v
     ELSE IF commits THEN [v EXCEPT !.entry = named, !.f.flags = @ \ {"dirty"}]
     ELSE Failed(v)

Sync(v, commits) ==
  IF Has(v, "erred") THEN v
  ELSE Errs(OnSuccess(Flush(v), LAMBDA w : Commit(w, commits)))

----------------------------------------------------------------------------
(* The state between two operations                                        *)

(* The blocks of the directory entry, of the handle and of its branch.     *)
Reachable(v) ==
  {0, 1} \cup ChainOf(v, v.entry.head, v.entry.size)
         \cup (IF Has(v, "inline") \/ Has(v, "closed") THEN {} ELSE
                ChainOf(v, v.f.head, v.f.size)
                \cup (IF Has(v, "writing") THEN ChainOf(v, v.f.block, v.f.pos) ELSE {})
                \cup {v.f.block})

(* The contents of the directory entry, and of the handle: the branch,     *)
(* then what is after it in the file.                                      *)
Saved(v) == IF v.entry.head = Inline THEN v.entry.data
            ELSE ContentOf(v.flash, v.entry.head, v.entry.size)
Content(v) ==
  LET file == IF v.f.head = Inline THEN <<>> ELSE ContentOf(v.flash, v.f.head, v.f.size)
  IN IF Has(v, "inline") THEN v.f.data
     ELSE IF Has(v, "writing")
     THEN ContentOf(v.flash, v.f.block, v.f.pos) \o SubSeq(file, v.f.pos + 1, v.f.size)
     ELSE file

View(v) ==
  LET mode == IF Has(v, "closed") THEN "closed" ELSE IF Has(v, "erred") THEN "erred" ELSE "open"
  IN [saved |-> Saved(v), mode |-> mode,
      content |-> IF mode = "open" THEN Content(v) ELSE <<>>,
      pos |-> IF mode = "open" THEN v.f.pos ELSE 0]

(* What nothing leads to is left out of the state.                         *)
Becomes(v) ==
  LET g == IF v.f.flags \cap {"reading", "writing"} = {}
           THEN [v EXCEPT !.f.block = Null, !.f.off = 0] ELSE v
  IN /\ steps < MaxSteps /\ steps' = steps + 1
     /\ flash' = [b \in Blocks |-> IF b \in Reachable(g) THEN g.flash[b] ELSE Blank]
     /\ look' = [g.look EXCEPT !.used = @ \cap (g.look.i .. g.look.size - 1)]
     /\ entry' = g.entry /\ f' = g.f
     /\ ret' = IF g.ok THEN g.read ELSE <<>>
     /\ view' = View(g)

IsOpen == "closed" \notin f.flags

(* lfs_file_rawopencfg, a new file's entry is an empty one.                *)
Opened(truncated, version) ==
  IF truncated
  THEN [NoFileHandle EXCEPT !.flags = {"inline", "dirty"}, !.version = version, !.head = Inline]
  ELSE [NoFileHandle EXCEPT !.version = version,
                            !.flags = IF entry.head = Inline THEN {"inline"} ELSE {},
                            !.head = entry.head, !.size = entry.size, !.data = entry.data]

OpenFile(truncated, version) ==
  /\ ~IsOpen
  /\ Becomes([Volume EXCEPT !.f = Opened(truncated, version)])

ReadFile(n) ==
  /\ IsOpen
  /\ Becomes(Read(Volume, n))

Data(n) == [k \in 1 .. n |-> Stamp(StartOfWrite(Volume) + k - 1, f.version)]

WriteFile(n) ==
  /\ IsOpen /\ StartOfWrite(Volume) + n <= MaxSize
  /\ Becomes(WriteOut(Volume, Data(n)))

SeekFile(npos, near) ==
  /\ IsOpen
  /\ near => "reading" \in f.flags /\ (SeeksAtBlockEnd \/ f.off # BlockSize)
  /\ Becomes(Seek(Volume, npos, near))

TruncateFile(size, near) ==
  /\ IsOpen /\ (near => size < FileSize(Volume))
  /\ Becomes(TruncateTo(Volume, size, near))

SyncFile(commits) ==
  /\ IsOpen
  /\ Becomes(Sync(Volume, commits))

(* lfs_file_rawclose                                                       *)
CloseFile(commits) ==
  /\ IsOpen
  /\ Becomes([Sync(Volume, commits) EXCEPT !.f = NoFileHandle])

(* Power fails between two changes of the flash; mounting drops the window *)
(* and starts a new one anywhere (lfs_rawmount, lfs_alloc_drop).           *)
BlocksPowerLoss(start) ==
  Becomes([Volume EXCEPT !.f = NoFileHandle, !.look = Window(start, 0, BlockCount, {})])

BlocksInit ==
  /\ flash = [b \in Blocks |-> Blank]
  /\ look = Window(2, 0, BlockCount, {})
  /\ entry = [head |-> Inline, size |-> 0, data |-> <<>>]
  /\ f = NoFileHandle /\ ret = <<>> /\ view = View(Volume) /\ steps = 0

BlocksNext ==
  \/ \E truncated \in BOOLEAN, version \in Versions : OpenFile(truncated, version)
  \/ \E n \in ReadSizes : ReadFile(n)
  \/ \E n \in WriteSizes : WriteFile(n)
  \/ \E p \in SeekPositions, near \in BOOLEAN : SeekFile(p, near)
  \/ \E size \in TruncateSizes, near \in BOOLEAN : TruncateFile(size, near)
  \/ \E commits \in BOOLEAN : SyncFile(commits) \/ CloseFile(commits)
  \/ \E start \in Starts : BlocksPowerLoss(start)

BlocksSpec == BlocksInit /\ [][BlocksNext]_blocksVars

----------------------------------------------------------------------------
(* Properties                                                              *)

Words_ == {Null, Zero} \cup Blocks \cup {Stamp(p, w) : p \in 0 .. MaxSize - 1, w \in Versions}

(* The flash holds words, a handle that is open has one of the two forms,  *)
(* and the allocator never counts more blocks than there are.              *)
BlocksTypeOK ==
  /\ \A b \in Blocks, o \in Words : flash[b][o] \in Words_
  /\ look.off \in Blocks /\ look.i \in 0 .. look.size /\ look.size <= LookSize
  /\ look.ack \in 0 .. BlockCount /\ look.used \subseteq 0 .. LookSize - 1
  /\ f.flags \subseteq OpenFlags
  /\ "inline" \in f.flags => f.head = Inline /\ Len(f.data) <= InlineMax
  /\ entry.head = Inline => entry.size = Len(entry.data)

(* The block and offset of each position of the file are those found by    *)
(* counting the words of the blocks before it.                             *)
IndexCountsWords ==
  \A p \in 0 .. f.size :
    LET at == CtzIndex(p)
    IN /\ WordsBefore(at.index) + at.off - Pointers(at.index) = p
       /\ at.off \in Pointers(at.index) .. BlockSize - 1

(* The blocks of the committed file form a skip list: they are distinct,   *)
(* none is a metadata block, and pointer i of each leads back 2^i blocks.  *)
SavedListSound ==
  LET last == CtzIndex(entry.size - 1).index
      At(k) == Walk(flash, entry.head, last, k)
  IN entry.head # Inline /\ entry.size > 0 =>
       /\ \A k \in 0 .. last : At(k) \in Blocks \ {0, 1}
       /\ Cardinality({At(k) : k \in 0 .. last}) = last + 1
       /\ \A k \in 1 .. last : \A i \in 0 .. Ctz(k) : flash[At(k)][i] = At(k - 2^i)

(* The allocator never offers a block of the file on flash or of the one   *)
(* that is open: its window may be old, but what was taken since is behind *)
(* the place it has searched up to.                                        *)
AllocatorSparesFiles ==
  \A o \in FreeInWindow(look) : (look.off + o) % BlockCount \notin Reachable(Volume)

(* No block that failed to verify a line holds part of the file on flash.  *)
SavedBlocksVerified ==
  entry.head # Inline => CtzBlocks(flash, entry.head, entry.size) \cap Worn = {}

Promise == INSTANCE ByteFile WITH
  saved <- view.saved, mode <- view.mode, content <- view.content, pos <- view.pos

(* A file reads as it was written, also when the device fills up and when  *)
(* power goes, and what is on flash changes at sync and close, at once     *)
(* (lfs_file_rawread, _rawwrite, _rawseek, _rawtruncate, _rawsync). It is  *)
(* not so for a truncation to the end of a block, for a seek by a reader   *)
(* that stands there, and for a block that fails in its first line while   *)
(* the file stands there: TruncateSizes, SeeksAtBlockEnd and ProgSize      *)
(* say which of these can happen.                                          *)
ImplementsByteFile ==
  [][\/ \E n \in ReadSizes \cup SeekPositions \cup TruncateSizes : Promise!Next(n, <<>>)
     \/ \E n \in WriteSizes : Promise!Write(Data(n), f.version \in Appenders)]_blocksVars

(* The blocks on flash hold the file, and nothing that may be handed out   *)
(* or has failed holds a part of it.                                       *)
BlocksSound ==
  BlocksTypeOK /\ IndexCountsWords /\ SavedListSound /\ AllocatorSparesFiles /\ SavedBlocksVerified
=============================================================================
