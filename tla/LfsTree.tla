------------------------------ MODULE LfsTree ------------------------------
(***************************************************************************)
(* The directory tree of littlefs (lfs.c): operations of several commits,  *)
(* the commits to other pairs that a relocation makes necessary, and the   *)
(* repair of what a loss of power left behind. One commit is one step, so  *)
(* power may be lost between any two.                                      *)
(*                                                                         *)
(* What is still to be done stands in todo, the next frame first: commits, *)
(* and the rest of the functions that wait for them.                       *)
(***************************************************************************)
EXTENDS LfsPairs

CONSTANTS
  Paths,       \* paths of entries: sequences of names, numbers in their order
  Contents,    \* contents of files
  CalmRenames, \* a rename that replaces a block replaces no other, and power lasts through it
  CalmRepairs, \* no log is full in a repair, or when a directory is made after one
  Plans        \* how behaviours start: the script, requests that nothing disturbs; and
               \* how many operations, replaced blocks and losses of power may follow

VARIABLES
  flash,   \* contents of each block
  ram,     \* root, global state, open handles and lookahead of the mounted volume
  work,    \* frames that are left to do, and what the last commit returned
  call,    \* the operation that runs, and the tree it started from
  tree,    \* what all this means: the entry at each path
  ret,     \* what the last operation answered
  left     \* what is left of the plan

vars == <<flash, ram, work, call, tree, ret, left>>

Start == [cur |-> 0, other |-> 0, fresh |-> TRUE,
          c |-> [Blank EXCEPT !.tail = Root, !.split = TRUE]]

Scripted == left.script # <<>>

(* The bound CalmRenames names: the rename that runs has replaced a block. *)
OneMoveOnly == CalmRenames /\ call.op = "rename" /\ left.moves # call.moves

Volume ==
  [flash |-> flash, root |-> ram.root, orphans |-> ram.orphans, move |-> ram.move,
   gdisk |-> ram.gdisk, gdelta |-> ram.gdelta, handles |-> ram.handles, taken |-> ram.taken,
   todo |-> work.todo, dir |-> work.dir, orphaned |-> work.orphaned, calm |-> work.calm,
   moves |-> IF Scripted \/ OneMoveOnly THEN 0 ELSE left.moves, got |-> 0, pdir |-> Start, state |-> "ok", err |-> work.err]

Top     == Head(work.todo)
Popped  == [Volume EXCEPT !.todo = Tail(@)]
Runs(what) == work.err = "" /\ work.todo # <<>> /\ Top.do = what
Push(v, frames) == [v EXCEPT !.todo = frames \o @]

Frame(what) == [do |-> what]
CommitTo(m, attrs) ==
  [do |-> "commit", role |-> "first", m |-> m, attrs |-> attrs, whole |-> TRUE,
   first |-> m, orphaned |-> FALSE, lpair |-> NoPair, ldir |-> m]
OrphaningCommitTo(m, attrs) == [CommitTo(m, attrs) EXCEPT !.whole = FALSE]

----------------------------------------------------------------------------
(* What the volume means, and which volumes are the same                   *)

MaxDepth == Max({Len(path) : path \in Paths})

(* lfs_rawmount: the pair with the last superblock is the root, and what   *)
(* the pairs differ by adds up to the global state.                        *)
Adds(w, m) ==
  [w EXCEPT !.root = IF Super \in Range(m.c.entries) THEN Pair(m) ELSE @,
            !.gdisk = Xor(@, m.c.delta),
            !.move = Xor(@, m.c.delta \ {Orphans}),
            !.orphans = IF Orphans \in m.c.delta THEN 1 - @ ELSE @]

Mount(v) ==
  FoldLeft(Adds, [v EXCEPT !.gdisk = {}, !.move = {}, !.orphans = 0, !.gdelta = {},
                           !.handles = <<>>], List(v))

RECURSIVE Entries(_, _, _)
Entries(v, head, path) ==
  LET chain == DirChain(v, head)
      here == UNION {Range(Seen(v, chain[k])) : k \in DOMAIN chain} \ {Super}
  IN {<<Append(path, e.name), e.what>> : e \in here}
     \cup (IF Len(path) = MaxDepth THEN {}
           ELSE UNION {Entries(v, e.pair, Append(path, e.name)) : e \in {o \in here : o.what = "dir"}})

(* What is there if the volume is mounted now.                             *)
View(v) == UNION {Entries(w, w.root, <<>>) : w \in {Mount(v)}}

(* Blocks are numbered in the order of the list, and what no pair can read *)
(* is left out: volumes that differ in no other way are one state.         *)
RECURSIVE Closure(_, _)
Closure(v, pairs) ==
  LET named(c) == {c.tail} \cup {c.entries[i].pair : i \in DOMAIN c.entries}
      next == (pairs \cup UNION {named(Fetch(v, p).c) : p \in pairs}) \ {NoPair}
  IN IF next = pairs THEN pairs ELSE Closure(v, next)

Referenced(v) ==
  Closure(v, {Root, v.root} \cup {Pair(v.handles[i].m) : i \in DOMAIN v.handles})

Order(v) ==
  LET list == List(v)
      inList == FoldLeft(LAMBDA s, m : s \o <<m.cur, m.other>>, <<>>, list)
      all == [i \in 1 .. BlockCount |-> i - 1]
      tokens == v.move \cup v.gdisk \cup v.gdelta \cup UNION {list[i].c.delta : i \in DOMAIN list}
      named == UNION (Referenced(v) \cup {t[1] : t \in tokens})
      isNamed(b) == b \in named
  IN FoldLeft(LAMBDA s, b : IF b \in Range(s) THEN s ELSE Append(s, b),
              <<>>, inList \o SelectSeq(all, isNamed) \o all)

(* Of a pair the current block is read; the other one may be, too, if a    *)
(* half-orphan shares it.                                                  *)
Meets(pairs, S) == UNION {p \in pairs : p \cap S # {}}

Readable(v, pairs) ==
  {Fetch(v, p).cur : p \in pairs}
    \cup {b \in UNION pairs : v.flash[b].ok
             /\ \E o \in Meets(pairs, {b}) : Cardinality(Meets(pairs, {o})) > 2}

Rank(v, pairs, read, b) ==
  Cardinality({v.flash[o].rev :
                 o \in {n \in Meets(pairs, Meets(pairs, {b})) \cap read : v.flash[n].rev < v.flash[b].rev}})

Renumbered(v, pairs, read, order, no, Rev(_)) ==
  LET pair(p) == {no[b] : b \in p}
      tokens(g) == {<<pair(t[1]), t[2]>> : t \in g}
      content(c, rev) ==
        [c EXCEPT !.rev = rev, !.tail = pair(@), !.delta = tokens(@),
                  !.entries = [i \in DOMAIN @ |-> [@[i] EXCEPT !.pair = pair(@)]]]
      handle(h) ==
        [h EXCEPT !.m = [cur |-> no[@.cur], other |-> no[@.other], fresh |-> FALSE,
                         c |-> content(@.c, IF @.c = v.flash[@.cur] THEN Rev(@.cur) ELSE 0 - 1)]]
  IN [v EXCEPT !.flash = [k \in Blocks |-> IF order[k + 1] \in read
                                           THEN content(v.flash[order[k + 1]], Rev(order[k + 1]))
                                           ELSE Blank],
               !.root = pair(@), !.move = tokens(@), !.gdisk = tokens(@), !.gdelta = tokens(@),
               !.handles = [i \in DOMAIN @ |-> handle(@[i])],
               !.todo = <<>>, !.taken = {}, !.dir = Start, !.orphaned = FALSE, !.calm = FALSE,
               !.err = ""]

Numbered(v, pairs, read, order) ==
  Renumbered(v, pairs, read, order, [b \in Blocks |-> (CHOOSE i \in 1 .. BlockCount : order[i] = b) - 1],
             LAMBDA b : Rank(v, pairs, read, b))

Canonical(v) ==
  LET with(pairs) == Numbered(v, pairs, Readable(v, pairs), Order(v)) IN with(Referenced(v))

Idle == [op |-> "none"]

Spent(v) == IF Scripted \/ OneMoveOnly THEN left ELSE [left EXCEPT !.moves = v.moves]

(* The volume has become v, which is computed once.                        *)
Shows(v) ==
  \E w \in {v} :
    /\ flash' = w.flash
    /\ ram' = [root |-> w.root, orphans |-> w.orphans, move |-> w.move, gdisk |-> w.gdisk,
               gdelta |-> w.gdelta, handles |-> w.handles, taken |-> w.taken]
    /\ work' = [todo |-> w.todo, dir |-> w.dir, orphaned |-> w.orphaned, calm |-> w.calm,
                err |-> w.err]
    /\ tree' = View(w)

Does(v) == \E w \in {v} : Shows(w) /\ left' = Spent(w) /\ UNCHANGED <<call, ret>>

----------------------------------------------------------------------------
(* Commits and what they cause                                             *)

(* lfs_fs_preporphans                                                      *)
PrepOrphans(v, k) ==
  IF v.orphans = 0 /\ k < 0 THEN Fails(v, "orphans")
  ELSE [v EXCEPT !.orphans = @ + k]

(* A moved entry in a pair that is about to be changed is deleted on the   *)
(* way: its number may not survive a relocation.                           *)
MovedFromNone(v, m) == {}

MovedFrom(v, m) == MovedHere(v.move, Pair(m))
Deletes(ids)    == IF ids = {} THEN <<>> ELSE <<Delete(CHOOSE i \in ids : TRUE)>>
Settled(v, m)   == IF MovedFrom(v, m) = {} THEN v ELSE [v EXCEPT !.move = {}]

SweepFrom(p, powerloss) == [do |-> "sweep", from |-> p, found |-> 0, powerloss |-> powerloss]

(* The end of lfs_dir_orphaningcommit, and of lfs_dir_commit around it,    *)
(* which looks for orphans if a relocation caused another.                 *)
Returned(v, f) ==
  Push([v EXCEPT !.dir = f.first, !.orphaned = f.orphaned],
       IF f.whole /\ f.orphaned
       THEN <<SweepFrom("start", FALSE), [do |-> "return", dir |-> f.first]>> ELSE <<>>)

(* One commit to one pair. A pair that is dropped leaves its differences   *)
(* and its tail to the one before it; one that was moved must be linked.   *)
After(v, f) ==
  CASE v.err # "" -> v
    [] v.state = "dropped" ->
         Push([v EXCEPT !.gdelta = Xor(@, f.m.c.delta)],
              <<[f EXCEPT !.role = "tail", !.m = v.pdir, !.first = v.dir,
                          !.attrs = <<Link(v.dir.c.tail, v.dir.c.split)>>]>>)
    [] v.state = "relocated" ->
         Push(v, <<[f EXCEPT !.do = "fix", !.lpair = Pair(f.m), !.ldir = v.dir,
                             !.first = IF f.role = "first" THEN v.dir ELSE @,
                             !.orphaned = @ \/ f.role = "parent"]>>)
    [] v.state = "ok" /\ f.role = "parent" -> Push(v, <<[f EXCEPT !.do = "pred"]>>)
    [] OTHER -> Returned(v, [f EXCEPT !.first = IF f.role = "first" THEN v.dir ELSE @])

WritePair ==
  /\ Runs("commit")
  /\ \E w \in RelocatingCommit(Popped, Top.m, Top.attrs, Top.role = "first") : Does(After(w, Top))

(* Pair lpair has become ldir. The entry that names it is changed first,   *)
(* which makes a half-orphan.                                              *)
FixParentUnflagged ==
  /\ Runs("fix")
  /\ LET f == Top
         w == [Popped EXCEPT !.root = IF @ \cap f.lpair # {} THEN Pair(f.ldir) ELSE @]
         parents == ParentOf(w, f.lpair)
         p == CHOOSE q \in parents : TRUE
     IN IF parents = {} THEN Does(Push(w, <<[f EXCEPT !.do = "pred", !.role = "first"]>>))
        ELSE Does(Push(w, <<[f EXCEPT !.do = "commit", !.role = "parent", !.m = p.m,
                                      !.attrs = <<Struct(p.id, Pair(f.ldir))>>]>>))

FixParent ==
  /\ Runs("fix")
  /\ LET f == Top
         w == [Popped EXCEPT !.root = IF @ \cap f.lpair # {} THEN Pair(f.ldir) ELSE @]
         parents == ParentOf(w, f.lpair)
         p == CHOOSE q \in parents : TRUE
         gone == MovedFrom(w, p.m)
         id == IF \E i \in gone : i < p.id THEN p.id - 1 ELSE p.id
     IN IF parents = {} THEN Does(Push(w, <<[f EXCEPT !.do = "pred", !.role = "first"]>>))
        ELSE Does(Push(Settled(PrepOrphans(w, 1), p.m),
                       <<[f EXCEPT !.do = "commit", !.role = "parent", !.m = p.m,
                                   !.attrs = Deletes(gone) \o <<Struct(id, Pair(f.ldir))>>]>>))

(* A pair that no other leads to is new, and there is nothing to link.     *)
(* Mutant: the loop does not forget that the pair was relocated.           *)
NewPairAgain(v, f) == Push(v, <<[f EXCEPT !.do = "fix"]>>)

NewPair(v, f) == Returned(v, f)

(* Then the pair before it on the list.                                    *)
FixPred ==
  /\ Runs("pred")
  /\ LET f == Top
         named == f.role = "parent"
         before == PredOf(Popped, f.lpair)
         p == CHOOSE m \in before : TRUE
         w == IF ram.orphans > 0 /\ named THEN PrepOrphans(Popped, -1) ELSE Popped
     IN IF before = {} THEN Does(IF named THEN Fails(Popped, "pred") ELSE NewPair(Popped, f))
        ELSE Does(Push(Settled(w, p),
                       <<[f EXCEPT !.do = "commit", !.role = "pred", !.m = p,
                                   !.attrs = Deletes(MovedFrom(w, p))
                                               \o <<Link(Pair(f.ldir), p.c.split)>>]>>))

Return == Runs("return") /\ Does([Popped EXCEPT !.dir = Top.dir])

----------------------------------------------------------------------------
(* Repair                                                                  *)

(* lfs_fs_deorphan walks the list from a pair in hand, from the start if   *)
(* its last commit made another orphan. A pair without a parent is left    *)
(* out, if power was lost; one whose parent names another pair is replaced.*)
SweepAt == IF Top.from = "start" \/ work.orphaned THEN Start ELSE work.dir
NamesOf(v, pair) == {Seen(v, q.m)[q.id].pair : q \in ParentOf(v, pair)}
IsOrphan(v, m)     == ~m.c.split /\ m.c.tail # NoPair /\ NamesOf(v, m.c.tail) = {}
IsHalfOrphan(v, m) == ~m.c.split /\ m.c.tail # NoPair /\ NamesOf(v, m.c.tail) \notin {{}, {m.c.tail}}

ToRepair ==
  LET p == SweepAt
  IN FirstOf(<<p>> \o Follow(Volume, p.c.tail, TRUE, BlockCount \div 2),
             LAMBDA m : (IsOrphan(Volume, m) /\ Top.powerloss) \/ IsHalfOrphan(Volume, m))

(* More than one orphan per block cannot be on record.                     *)
Found == [Top EXCEPT !.from = "dir", !.found = IF @ = BlockCount THEN @ ELSE @ + 1]

SweepEnds ==
  /\ Runs("sweep")
  /\ ram.orphans = 0 \/ ToRepair = {}
  /\ Does(PrepOrphans(Popped, 0 - (IF Top.found < ram.orphans THEN Top.found ELSE ram.orphans)))

UnlinkOrphan ==
  /\ Runs("sweep") /\ ram.orphans > 0
  /\ \E p \in ToRepair :
       /\ IsOrphan(Volume, p)
       /\ LET gone == Fetch(Volume, p.c.tail)
          IN Does(Push([Popped EXCEPT !.gdelta = Xor(@, gone.c.delta)],
                       <<OrphaningCommitTo(p, <<Link(gone.c.tail, gone.c.split)>>), Found>>))

RelinkHalfOrphan ==
  /\ Runs("sweep") /\ ram.orphans > 0
  /\ \E p \in ToRepair : \E pair \in NamesOf(Volume, p.c.tail) :
       Does(Push(Settled(Popped, p),
                 <<OrphaningCommitTo(p, Deletes(MovedFrom(Popped, p)) \o <<Link(pair, FALSE)>>),
                   Found>>))

(* lfs_fs_demove                                                           *)
Demove ==
  /\ Runs("demove")
  /\ \E t \in ram.gdisk \ {Orphans} :
       Does(Push([Popped EXCEPT !.move = {}], <<CommitTo(Fetch(Volume, t[1]), <<Delete(t[2])>>)>>))

(* lfs_fs_forceconsistency                                                 *)
ForceConsistency ==
  LET moved == ram.gdisk \ {Orphans} # {}
  IN (IF moved THEN <<Frame("demove")>> ELSE <<>>)
       \o (IF moved \/ ram.orphans > 0 THEN <<SweepFrom("start", TRUE)>> ELSE <<>>)

----------------------------------------------------------------------------
(* Operations                                                              *)

(* The repair is over when an operation begins, but it is only the first   *)
(* commit that records it.                                                 *)
Begins == [Popped EXCEPT !.calm = FALSE]

(* Internal handles let a commit keep a pair in hand up to date.           *)
Hook(v, m) == [v EXCEPT !.handles = <<[m |-> m, id |-> 1, data |-> "hook"]>> \o @]
Hooked     == Head(ram.handles).m
Unhook(v)  == [v EXCEPT !.handles = Tail(@)]

(* lfs_file_rawopencfg of a new file, and lfs_file_rawclose                *)
MakeFile ==
  /\ Runs("create")
  /\ LET at == Find(Volume, call.path)
     IN Does(Push(Begins, <<CommitTo(at.m, <<Create(at.id, FileEntry(Last(call.path), call.data))>>)>>))

(* lfs_file_rawopencfg of a file that is there                             *)
TakeHandle ==
  /\ Runs("open")
  /\ LET at == Find(Volume, call.path)
     IN Does([Begins EXCEPT !.handles = <<[m |-> at.m, id |-> at.id, data |-> at.entry.what]>>])

(* lfs_file_rawsync commits through the handle the file has kept.          *)
SyncHandle ==
  /\ Runs("sync")
  /\ LET h == Head(ram.handles)
     IN Does(Push([Popped EXCEPT !.handles[1].data = "pending"],
                  <<CommitTo(h.m, <<Data(h.id, call.data)>>), Frame("synced")>>))

Synced == Runs("synced") /\ Does([Popped EXCEPT !.handles[1].data = call.data])

(* lfs_rawmkdir: the new pair is threaded after the last of its parent's.  *)
MakePair ==
  /\ Runs("mkdir")
  /\ LET at == Find(Volume, call.path)
         pred == Last(DirChain(Volume, Pair(at.m)))
     IN \E w \in FreshPair(Popped) :
          Does(IF w.err # "" THEN w
               ELSE Push(w, <<CommitTo(w.dir, <<Link(pred.c.tail, FALSE)>>),
                              [do |-> "thread", at |-> at, pred |-> pred]>>))

EnterPair(at, m, dir) ==
  CommitTo(m, <<Create(at.id, DirEntry(Last(call.path), Pair(dir)))>>
                \o If(~m.c.split, Link(Pair(dir), FALSE)))

ThreadPair ==
  /\ Runs("thread")
  /\ LET at == Top.at
     IN IF ~at.m.c.split THEN Does(Push(Popped, <<EnterPair(at, at.m, work.dir)>>))
        ELSE Does(Push(Hook(PrepOrphans(Popped, 1), at.m),
                       <<CommitTo(Top.pred, <<Link(Pair(work.dir), FALSE)>>),
                         [do |-> "enter", at |-> at, dir |-> work.dir]>>))

EnterHooked ==
  /\ Runs("enter")
  /\ Does(Push(PrepOrphans(Unhook(Popped), -1), <<EnterPair(Top.at, Hooked, Top.dir)>>))

Empties(entry) ==
  LET m == Fetch(Volume, entry.pair) IN m.c.entries = <<>> /\ ~m.c.split

(* lfs_rawremove                                                           *)
RemoveEntry ==
  /\ Runs("remove")
  /\ LET at == Find(Volume, call.path)
         delete == CommitTo(at.m, <<Delete(at.id)>>)
     IN IF at.entry.what # "dir" THEN Does(Push(Begins, <<delete>>))
        ELSE IF ~Empties(at.entry) THEN Does(Fails(Begins, "notempty"))
        ELSE Does(Push(Hook(PrepOrphans(Begins, 1), Fetch(Volume, at.entry.pair)),
                       <<delete, Frame("drop")>>))

(* lfs_dir_drop: the pair of a removed directory is taken off the list.    *)
DropPair ==
  /\ Runs("drop")
  /\ LET w == PrepOrphans(Unhook(Popped), -1)
         before == PredOf(w, Pair(Hooked))
     IN Does(IF w.err # "" THEN w
             ELSE IF before = {} THEN Fails(w, "noent")
             ELSE Push([w EXCEPT !.gdelta = Xor(@, Hooked.c.delta)],
                       <<CommitTo(CHOOSE p \in before : TRUE,
                                  <<Link(Hooked.c.tail, Hooked.c.split)>>)>>))

(* lfs_rawrename: the new entry and the note that the old one has moved    *)
(* are one commit, the old entry is deleted by the next.                   *)
Replaces(v, to) ==
  IF to.found /\ to.entry.what = "dir"
  THEN Hook(PrepOrphans(v, 1), Fetch(v, to.entry.pair)) ELSE v

Noted(v, from, id, same) == IF same THEN v ELSE [v EXCEPT !.move = {Moved(Pair(from.m), id)}]

RenameTo(from, to, same, oldid) ==
  Push(Noted(Replaces(Begins, to), from, oldid, same),
       <<CommitTo(to.m, If(to.found, Delete(to.id))
                          \o <<Create(to.id, [from.entry EXCEPT !.name = Last(call.new)])>>
                          \o If(same, Delete(oldid)))>>
         \o If(~same, [do |-> "clean", from |-> from])
         \o If(to.found /\ to.entry.what = "dir", Frame("drop")))

Renaming(from, to, same) ==
  IF to.found /\ (to.entry.what = "dir") # (from.entry.what = "dir") THEN Fails(Begins, "isdir")
  ELSE IF to.found /\ same /\ to.id = from.id THEN Begins
  ELSE IF to.found /\ to.entry.what = "dir" /\ ~Empties(to.entry) THEN Fails(Begins, "notempty")
  ELSE RenameTo(from, to, same,
                IF ~to.found /\ same /\ to.id <= from.id THEN from.id + 1 ELSE from.id)

RenameEntry ==
  /\ Runs("rename")
  /\ LET between(from, to) == Renaming(from, to, Pair(from.m) \cap Pair(to.m) # {})
     IN Does(between(Find(Volume, call.path), Find(Volume, call.new)))

CleanMove ==
  /\ Runs("clean")
  /\ IF ram.move = {} THEN Does(Popped)
     ELSE Does(Push([Popped EXCEPT !.move = {}],
                    <<CommitTo(Top.from.m, <<Delete(Top.from.id)>>)>>))

----------------------------------------------------------------------------
(* Requests                                                                *)

Entry(path) == {e[2] : e \in {t \in tree : t[1] = path}}
IsDir(path) == path = <<>> \/ Entry(path) = {"dir"}

(* The port does not remove or rename an open file (EBUSY).                *)
IsOpen(path) == \E i \in DOMAIN ram.handles : Entry(path) = {ram.handles[i].data}

(* What the operation that runs would make of the tree it started from.    *)
Goals == INSTANCE NameTree WITH call <- Idle, open <- {}

(* The contents of files are told apart.                                   *)
NewData == CHOOSE d \in Contents : \A t \in tree : t[2] # d

(* The contents of open files. *)
Opened == {ram.handles[i].data : i \in DOMAIN ram.handles} \ {"hook", "pending"}

Sound == ret \in {"ok", "power", "nospc", "notempty", "isdir"}

Request(op, path, new, data, goal, repair) ==
  /\ call = Idle /\ Sound
  /\ IF Scripted THEN <<op, path>> = Head(left.script) ELSE left.steps > 0
  /\ call' = [op |-> op, path |-> path, new |-> new, data |-> data, goal |-> goal,
              open |-> Opened, moves |-> left.moves]
  /\ work' = [work EXCEPT !.todo = repair \o <<Frame(op)>>, !.calm = CalmRepairs /\ repair # <<>>]
  /\ left' = IF Scripted THEN left ELSE [left EXCEPT !.steps = @ - 1]
  /\ UNCHANGED <<flash, ram, tree, ret>>

CreateFile(path) ==
  /\ IsDir(Front(path)) /\ Entry(path) = {}
  /\ Request("create", path, path, NewData, Goals!Made(tree, Opened, path, NewData), ForceConsistency)

Mkdir(path) ==
  /\ IsDir(Front(path)) /\ Entry(path) = {}
  /\ Request("mkdir", path, path, "dir", Goals!Made(tree, Opened, path, "dir"), ForceConsistency)

RemovePath(path) ==
  /\ Entry(path) # {} /\ ~IsOpen(path)
  /\ Request("remove", path, path, "none", Goals!Gone(tree, Opened, path), ForceConsistency)

(* A directory is not moved below itself; the code does not refuse it.     *)
RenamePath(old, new) ==
  /\ Entry(old) # {} /\ IsDir(Front(new)) /\ ~IsOpen(old) /\ ~IsOpen(new)
  /\ ~IsStrictPrefix(old, new)
  /\ \A t \in tree : IsPrefix(old, t[1]) => new \o SubSeq(t[1], Len(old) + 1, Len(t[1])) \in Paths
  /\ Request("rename", old, new, "none", Goals!Renamed(tree, Opened, old, new), ForceConsistency)

OpenFile(path) ==
  /\ ram.handles = <<>> /\ Entry(path) \notin {{}, {"dir"}}
  /\ Request("open", path, path, "none", Goals!Goal(tree, Entry(path), "ok"), ForceConsistency)

SyncFile ==
  /\ ram.handles # <<>>
  /\ Request("sync", <<>>, <<>>, NewData, Goals!Synced(tree, Opened, NewData), <<>>)

(* Nothing is left to do, or the operation failed: handles that only an    *)
(* operation holds are let go, and a file that could not be synchronised   *)
(* takes no more writes (LFS_F_ERRED).                                     *)
Answers ==
  /\ call # Idle /\ (work.todo = <<>> \/ work.err # "") /\ work.err # "pdir"
  /\ LET kept(h) == h.data \notin {"hook", "pending"}
     IN Shows(Canonical([Volume EXCEPT !.handles = SelectSeq(@, kept)]))
  /\ ret' = (IF work.err = "" THEN "ok" ELSE work.err) /\ call' = Idle
  /\ left' = IF Scripted THEN [left EXCEPT !.script = Tail(@)] ELSE left

(* The volume is mounted again, which writes nothing.                      *)
PowerLoss ==
  /\ Sound /\ ~Scripted /\ left.losses > 0
  /\ Shows(Canonical(Mount([Volume EXCEPT !.handles = <<>>])))
  /\ call' = Idle /\ ret' = "power" /\ left' = [left EXCEPT !.losses = @ - 1]

(* LFS_ASSERT(pdir) fails, and the system starts again.                    *)
Asserts ==
  /\ work.err = "pdir"
  /\ Shows(Canonical(Mount([Volume EXCEPT !.handles = <<>>])))
  /\ call' = Idle /\ ret' = "power" /\ UNCHANGED left

(* lfs_rawformat                                                           *)
Formatted ==
  [b \in Blocks |-> IF b = 0 THEN [Blank EXCEPT !.ok = TRUE, !.entries = <<Super>>] ELSE Blank]

Init ==
  /\ flash = Formatted
  /\ ram = [root |-> Root, orphans |-> 0, move |-> {}, gdisk |-> {}, gdelta |-> {},
            handles |-> <<>>, taken |-> {}]
  /\ work = [todo |-> <<>>, dir |-> Start, orphaned |-> FALSE, calm |-> FALSE, err |-> ""]
  /\ call = Idle /\ tree = {} /\ ret = "ok"
  /\ left \in Plans

Requests ==
  \/ \E path \in Paths : CreateFile(path) \/ Mkdir(path) \/ RemovePath(path) \/ OpenFile(path)
  \/ \E old, new \in Paths : RenamePath(old, new)
  \/ SyncFile

Steps ==
  \/ Answers \/ Asserts \/ WritePair \/ FixParent \/ FixPred \/ Return
  \/ SweepEnds \/ UnlinkOrphan \/ RelinkHalfOrphan \/ Demove
  \/ MakeFile \/ TakeHandle \/ SyncHandle \/ Synced
  \/ MakePair \/ ThreadPair \/ EnterHooked
  \/ RemoveEntry \/ DropPair \/ RenameEntry \/ CleanMove

(* A volume may be left alone. The check for deadlocks shows that nothing  *)
(* else stops: while an operation runs, a step is possible.                *)
Rests == call = Idle /\ UNCHANGED vars

(* CalmRenames bounds the losses of power as it bounds the moves.          *)
Next == Requests \/ Steps \/ (~OneMoveOnly /\ PowerLoss) \/ Rests

(* A function that was called goes on. A step is possible exactly while an *)
(* operation runs, so this is WF_vars(Steps), stated without ENABLED.      *)
GoesOn == []<>(call = Idle) \/ []<><<TRUE>>_vars

Spec == Init /\ [][Next]_vars /\ GoesOn

----------------------------------------------------------------------------
(* Properties                                                              *)

(* The pairs that paths lead through.                                      *)
RECURSIVE Named(_, _)
Named(v, pairs) ==
  LET of(m) == (IF m.c.split THEN {m.c.tail} ELSE {})
                 \cup {Seen(v, m)[i].pair : i \in DOMAIN Seen(v, m)}
      next == (pairs \cup UNION {of(Fetch(v, p)) : p \in pairs}) \ {NoPair}
  IN IF next = pairs THEN pairs ELSE Named(v, next)

ListIsTree(v) ==
  LET list == List(v)
  IN /\ {Pair(list[i]) : i \in DOMAIN list} = Named(v, {Root})
     /\ \A i, j \in DOMAIN list : i # j => Pair(list[i]) \cap Pair(list[j]) = {}

Promise ==
  INSTANCE NameTree WITH call <- IF call = Idle THEN Goals!Idle ELSE call.goal,
                         open <- IF call = Idle THEN Opened ELSE call.open

(* Every operation happens entirely or not at all, whatever is relocated,  *)
(* split, dropped or repaired on the way, and an operation that was        *)
(* answered "ok" has happened: wherever power is lost in any operation     *)
(* but a rename, and in a rename until it replaces a block. README.md and  *)
(* DESIGN.md of littlefs say so of every operation; with CalmRenames FALSE *)
(* power is lost there too, and the run of MCRenamePlans finds a rename    *)
(* after which a directory is missing (lfs.c:2250-2300, 4501-4537).        *)
ImplementsNameTree == Promise!Spec

(* Every operation is answered: repairs and relocations come to an end.    *)
OperationsEnd == call # Idle ~> call = Idle

(* Unless it would be found that there may be orphans, the list holds      *)
(* exactly the pairs that paths lead to, and no block twice.               *)
ThreadedUnlessFlagged ==
  \A found \in {Mount(Volume)} : Orphans \notin found.gdisk => ListIsTree(found)

(* An operation that succeeded has repaired or made no orphan.             *)
ThreadedWhenDone == call = Idle /\ ret = "ok" => ListIsTree(Volume)

(* What the mounted volume takes the root and the global state on flash    *)
(* for is what is found there.                                             *)
GlobalStateAddsUp ==
  \A found \in {Mount(Volume)} :
    call = Idle => found.gdisk = Xor(ram.gdisk, ram.gdelta) /\ found.root = ram.root

(* The handle of an open file has followed its entry through every split,  *)
(* relocation and change of numbers.                                       *)
HandleCurrent ==
  \A i \in DOMAIN ram.handles :
    LET h == ram.handles[i]
    IN call = Idle => h.m.c = flash[h.m.cur] /\ h.id \in DOMAIN h.m.c.entries
                      /\ h.m.c.entries[h.id].what = h.data

(* No commit is made to a pair that another commit has rewritten since it  *)
(* was read, no count of orphans falls below zero, and no pair that must   *)
(* be found is missing.                                                    *)
NoFault == ret \notin {"stale", "orphans", "pred", "noent"}

(* The volume stays sound.                                                 *)
VolumeSound ==
  /\ NoFault /\ HandleCurrent /\ GlobalStateAddsUp
  /\ ThreadedUnlessFlagged /\ ThreadedWhenDone
=============================================================================
