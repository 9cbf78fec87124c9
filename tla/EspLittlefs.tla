---------------------------- MODULE EspLittlefs ----------------------------
(***************************************************************************)
(* The littlefs port (esp_littlefs.c): the descriptor table and list of a  *)
(* mounted partition, its lock and its directory streams, used by several  *)
(* tasks through the ESP-IDF's virtual file system. A handler runs under   *)
(* the lock from its first look at shared state to its last, so it is one  *)
(* action; truncate takes the lock three times. What is kept of littlefs   *)
(* is the directory, and of an open file what its next sync would do.      *)
(*                                                                         *)
(* Calls that only look (read, lseek, fstat, stat, fcntl, telldir, getattr)*)
(* change nothing kept here. The virtual file system hands a descriptor    *)
(* only to the task that opened it, and forgets it when close returns,     *)
(* whatever close answers. A partition is registered once.                 *)
(***************************************************************************)
EXTENDS Integers, FiniteSets, SequencesExt

CONSTANTS
  Tasks,         \* clients of the partition
  Names,         \* names in its root directory, positive, in the order littlefs keeps
  CacheMinSize,  \* initial slots of the table (4 in esp_littlefs_init)
  MaxFiles,      \* file structures the heap has room for
  NoTask

ASSUME PortAssumption ==
  /\ Names \subseteq Nat \ {0} /\ IsFiniteSet(Names)
  /\ CacheMinSize \in Nat \ {0}
  /\ MaxFiles \in Nat
  /\ NoTask \notin Tasks

VARIABLES
  tree,     \* name -> "none", "file" or "dir"
  table,    \* [cache, list, count]: slots 0.., linked list, fd_count
  files,    \* file structure -> [path, lfs], or NoFile when not allocated
  held,     \* task -> descriptors it opened and has not closed
  cutting,  \* task -> its truncate call: [at, fd], or NoTruncate
  lock,     \* holder of efs->lock between calls, or NoTask
  stream    \* the one open directory stream, or NoStream

portVars == <<tree, table, files, held, cutting, lock, stream>>

Files    == 1 .. MaxFiles
NoSlot   == 0
NoFile   == [path |-> 0, lfs |-> "free"]
NoTruncate == [at |-> "idle", fd |-> -1]
NoStream == [open |-> FALSE, id |-> 0, broken |-> FALSE, due |-> {}]

ReallocFactor == 2   \* CONFIG_LITTLEFS_FD_CACHE_REALLOC_FACTOR

(* fopen's modes as fcntl flags, and esp_littlefs_flags_conv. It compares  *)
(* O_APPEND with the whole set of flags, so no mode of fopen appends.      *)
Flags(mode) ==
  CASE mode = "r"  -> {}
    [] mode = "r+" -> {"RDWR"}
    [] mode = "w+" -> {"RDWR", "CREAT", "TRUNC"}
    [] mode = "a"  -> {"WRONLY", "CREAT", "APPEND"}

LfsFlags(m) ==
  LET other == m \cap {"WRONLY", "RDWR", "EXCL", "CREAT", "TRUNC"}
  IN other \cup (IF m = {"APPEND"} THEN {"APPEND"} ELSE {})
           \cup (IF m = {} THEN {"RDONLY"} ELSE {})

CanTake(t) == lock \in {NoTask, t} /\ cutting[t] = NoTruncate

-----------------------------------------------------------------------------
(* The table.                                                              *)

CacheSize(tab) == Cardinality(DOMAIN tab.cache)
Live(tab)      == {fd \in DOMAIN tab.cache : tab.cache[fd] # NoSlot}
Present(names) == {n \in Names : names[n] # "none"}

(* Mutant: the old slots end up behind the new ones.                       *)
GrownInFront(tab) ==
  [tab EXCEPT !.cache =
     [fd \in 0 .. ReallocFactor * CacheSize(tab) - 1 |->
        IF fd - CacheSize(tab) \in DOMAIN tab.cache THEN tab.cache[fd - CacheSize(tab)] ELSE NoSlot]]

Grown(tab) ==
  [tab EXCEPT !.cache =
     [fd \in 0 .. ReallocFactor * CacheSize(tab) - 1 |->
        IF fd \in DOMAIN tab.cache THEN tab.cache[fd] ELSE NoSlot]]

FirstFree(tab) ==
  CHOOSE fd \in DOMAIN tab.cache :
    tab.cache[fd] = NoSlot /\ \A k \in 0 .. fd - 1 : tab.cache[k] # NoSlot

NeedsRoom(tab) == tab.count + 1 > CacheSize(tab)

(* esp_littlefs_allocate_fd: the table with file f in it. With[fd] is the  *)
(* descriptor.                                                             *)
AllocateFd(tab, f) ==
  LET room == IF NeedsRoom(tab) THEN Grown(tab) ELSE tab
  IN [cache |-> [room.cache EXCEPT ![FirstFree(room)] = f],
      list  |-> <<f>> \o room.list,
      count |-> room.count + 1]

(* Mutant: the list is searched from its second file only.                 *)
FreeFdKeepsHead(tab, fd) ==
  LET f == tab.cache[fd]
  IN [cache |-> [tab.cache EXCEPT ![fd] = NoSlot],
      list  |-> <<Head(tab.list)>> \o RemoveFirst(Tail(tab.list), f),
      count |-> tab.count - 1]

(* esp_littlefs_free_fd.                                                   *)
FreeFd(tab, fd) ==
  LET f == tab.cache[fd]
  IN [cache |-> [tab.cache EXCEPT ![fd] = NoSlot],
      list  |-> RemoveFirst(tab.list, f),
      count |-> tab.count - 1]

(* esp_littlefs_get_fd_by_name: the names it finds. The search ends after  *)
(* fd_count occupied slots.                                                *)
BusyNames(tab) ==
  {files[tab.cache[fd]].path :
     fd \in {k \in Live(tab) : Cardinality({j \in Live(tab) : j < k}) < tab.count}}

-----------------------------------------------------------------------------
(* The directory as a stream sees it. Entries have ids in name order; id 0 *)
(* is the superblock's entry. A commit that creates or deletes an entry    *)
(* moves the streams (lfs_dir_relocatingcommit); one that deletes the      *)
(* entry a stream stands at makes the stream unreadable until it rewinds.  *)
(* stream.due are the entries the stream still has to return.              *)

IdOf(names, n) == 1 + Cardinality({m \in Present(names) : m < n})

(* Mutant: a stream is not moved back when an entry before it goes.        *)
AfterDeleteStays(s, names, n) ==
  [s EXCEPT !.broken = @ \/ (s.open /\ s.id = IdOf(names, n)), !.due = @ \ {n}]

AfterDelete(s, names, n) ==
  LET id == IdOf(names, n)
  IN IF ~s.open THEN s
     ELSE [s EXCEPT !.broken = @ \/ s.id = id,
                    !.id = IF @ > id THEN @ - 1 ELSE @,
                    !.due = @ \ {n}]

AfterCreate(s, names, n) ==
  IF ~s.open \/ s.broken \/ s.id < IdOf(names, n) THEN s ELSE [s EXCEPT !.id = @ + 1]

-----------------------------------------------------------------------------
(* Files.                                                                  *)

(* What lfs_file_open does with a name, or "no" with the table as it was   *)
(* but for its growth. A truncated file is written at once by the sync     *)
(* that follows; if that fails the descriptor is handed out all the same.  *)
Opens(n, flags) ==
  \/ tree[n] = "none" /\ "CREAT" \in flags
  \/ tree[n] = "file" /\ "EXCL" \notin flags

OpenAs(t, n, flags, synced) ==
  \E f \in Files :
    /\ files[f] = NoFile /\ \A g \in 1 .. f - 1 : files[g] # NoFile
    /\ Opens(n, LfsFlags(flags))
    /\ synced \/ "TRUNC" \in LfsFlags(flags)
    /\ table' = AllocateFd(table, f)
    /\ files' = [files EXCEPT ![f] = [path |-> n, lfs |-> IF synced THEN "clean" ELSE "erred"]]
    /\ IF tree[n] = "none"
         THEN /\ tree' = [tree EXCEPT ![n] = "file"]
              /\ stream' = AfterCreate(stream, tree, n)
         ELSE UNCHANGED <<tree, stream>>

NewFd == CHOOSE fd \in DOMAIN table'.cache :
           /\ table'.cache[fd] # NoSlot
           /\ fd \notin DOMAIN table.cache \/ table.cache[fd] = NoSlot

(* vfs_littlefs_open.                                                      *)
Open(t, n, mode) ==
  /\ CanTake(t)
  /\ \E synced \in BOOLEAN : OpenAs(t, n, Flags(mode), synced)
  /\ held' = [held EXCEPT ![t] = @ \cup {NewFd}]
  /\ UNCHANGED <<cutting, lock>>

(* It fails after the table was grown: the descriptor is freed again.      *)
OpenFails(t) ==
  /\ CanTake(t) /\ NeedsRoom(table)
  /\ \E f \in Files : files[f] = NoFile
  /\ table' = Grown(table)
  /\ UNCHANGED <<tree, files, held, cutting, lock, stream>>

(* vfs_littlefs_write, ftruncate; a write that fails marks the file so     *)
(* that nothing of it is committed.                                        *)
Write(t, fd) ==
  /\ CanTake(t) /\ fd \in held[t]
  /\ \E outcome \in {"dirty", "erred"} :
       files' = [files EXCEPT ![table.cache[fd]].lfs = outcome]
  /\ UNCHANGED <<tree, table, held, cutting, lock, stream>>

Synced(f) == IF files[f].lfs = "dirty" THEN {"clean", "erred"} ELSE {files[f].lfs}

(* vfs_littlefs_fsync.                                                     *)
Fsync(t, fd) ==
  /\ CanTake(t) /\ fd \in held[t]
  /\ \E outcome \in Synced(table.cache[fd]) :
       files' = [files EXCEPT ![table.cache[fd]].lfs = outcome]
  /\ UNCHANGED <<tree, table, held, cutting, lock, stream>>

(* vfs_littlefs_close. littlefs closes the file whether or not its last    *)
(* sync works; the descriptor is freed only if it does.                    *)
CloseWorks(fd) ==
  /\ table' = FreeFd(table, fd)
  /\ files' = [files EXCEPT ![table.cache[fd]] = NoFile]

CloseFails(fd) ==
  /\ files[table.cache[fd]].lfs = "dirty"
  /\ files' = [files EXCEPT ![table.cache[fd]].lfs = "closed"]
  /\ UNCHANGED table

CloseFd(t, fd) ==
  /\ CanTake(t) /\ fd \in held[t]
  /\ CloseWorks(fd) \/ CloseFails(fd)
  /\ held' = [held EXCEPT ![t] = @ \ {fd}]
  /\ UNCHANGED <<tree, cutting, lock, stream>>

(* vfs_littlefs_pread, pwrite when one of the two seeks before the         *)
(* transfer fails: the jump to exit skips sem_give.                        *)
PositionalFails(t, fd) ==
  /\ CanTake(t) /\ fd \in held[t]
  /\ lock' = t
  /\ UNCHANGED <<tree, table, files, held, cutting, stream>>

-----------------------------------------------------------------------------
(* vfs_littlefs_truncate: open, truncate and close, each under the lock.   *)

TruncateOpens(t, n) ==
  /\ CanTake(t)
  /\ OpenAs(t, n, {"RDWR"}, TRUE)
  /\ cutting' = [cutting EXCEPT ![t] = [at |-> "cut", fd |-> NewFd]]
  /\ UNCHANGED <<held, lock>>

TruncateCuts(t) ==
  /\ cutting[t].at = "cut" /\ lock \in {NoTask, t}
  /\ \E outcome \in {"dirty", "clean"} :
       files' = [files EXCEPT ![table.cache[cutting[t].fd]].lfs = outcome]
  /\ cutting' = [cutting EXCEPT ![t].at = "close"]
  /\ UNCHANGED <<tree, table, held, lock, stream>>

TruncateCloses(t) ==
  /\ cutting[t].at = "close" /\ lock \in {NoTask, t}
  /\ CloseWorks(cutting[t].fd) \/ CloseFails(cutting[t].fd)
  /\ cutting' = [cutting EXCEPT ![t] = NoTruncate]
  /\ UNCHANGED <<tree, held, lock, stream>>

-----------------------------------------------------------------------------
(* Names.                                                                  *)

(* vfs_littlefs_unlink.                                                    *)
Unlink(t, n) ==
  /\ CanTake(t) /\ tree[n] = "file" /\ n \notin BusyNames(table)
  /\ tree' = [tree EXCEPT ![n] = "none"]
  /\ stream' = AfterDelete(stream, tree, n)
  /\ UNCHANGED <<table, files, held, cutting, lock>>

(* vfs_littlefs_mkdir, rmdir.                                              *)
Mkdir(t, n) ==
  /\ CanTake(t) /\ tree[n] = "none"
  /\ tree' = [tree EXCEPT ![n] = "dir"]
  /\ stream' = AfterCreate(stream, tree, n)
  /\ UNCHANGED <<table, files, held, cutting, lock>>

Rmdir(t, n) ==
  /\ CanTake(t) /\ tree[n] = "dir"
  /\ tree' = [tree EXCEPT ![n] = "none"]
  /\ stream' = AfterDelete(stream, tree, n)
  /\ UNCHANGED <<table, files, held, cutting, lock>>

(* vfs_littlefs_rename, of a file or an empty directory to a free name or  *)
(* in place of one of its kind: delete, create and delete in one commit.   *)
Rename(t, src, dst) ==
  LET without  == [tree EXCEPT ![dst] = "none"]
      replaced == IF tree[dst] = "none" THEN stream ELSE AfterDelete(stream, tree, dst)
  IN /\ CanTake(t) /\ src # dst
     /\ tree[src] # "none" /\ tree[dst] \in {"none", tree[src]}
     /\ BusyNames(table) \cap {src, dst} = {}
     /\ tree' = [tree EXCEPT ![src] = "none", ![dst] = tree[src]]
     /\ stream' = AfterDelete(AfterCreate(replaced, without, dst),
                              [tree EXCEPT ![dst] = tree[src]], src)
     /\ UNCHANGED <<table, files, held, cutting, lock>>

-----------------------------------------------------------------------------
(* Directory streams.                                                      *)

Opendir(t) ==
  /\ CanTake(t) /\ ~stream.open
  /\ stream' = [open |-> TRUE, id |-> 0, broken |-> FALSE, due |-> Present(tree)]
  /\ UNCHANGED <<tree, table, files, held, cutting, lock>>

(* vfs_littlefs_readdir_r, when there is another entry. The entries of the *)
(* superblock, "." and ".." are passed over.                               *)
Readdir(t) ==
  /\ CanTake(t) /\ stream.open /\ ~stream.broken
  /\ \E n \in Present(tree) :
       /\ IdOf(tree, n) = IF stream.id = 0 THEN 1 ELSE stream.id
       /\ stream' = [stream EXCEPT !.id = IdOf(tree, n) + 1, !.due = @ \ {n}]
  /\ UNCHANGED <<tree, table, files, held, cutting, lock>>

(* vfs_littlefs_seekdir to the start: the first entries are fetched again. *)
Rewind(t) ==
  /\ CanTake(t) /\ stream.open
  /\ stream' = [stream EXCEPT !.id = 0, !.broken = FALSE, !.due = Present(tree)]
  /\ UNCHANGED <<tree, table, files, held, cutting, lock>>

Closedir(t) ==
  /\ CanTake(t) /\ stream.open
  /\ stream' = NoStream
  /\ UNCHANGED <<tree, table, files, held, cutting, lock>>

-----------------------------------------------------------------------------
PortInit ==
  /\ tree = [n \in Names |-> "none"]
  /\ table = [cache |-> [fd \in 0 .. CacheMinSize - 1 |-> NoSlot], list |-> <<>>, count |-> 0]
  /\ files = [f \in Files |-> NoFile]
  /\ held = [t \in Tasks |-> {}]
  /\ cutting = [t \in Tasks |-> NoTruncate]
  /\ lock = NoTask /\ stream = NoStream

Truncate(t) == TruncateCuts(t) \/ TruncateCloses(t)

PortNext ==
  \E t \in Tasks :
    \/ \E n \in Names, mode \in {"r", "r+", "w+", "a"} : Open(t, n, mode)
    \/ OpenFails(t)
    \/ \E fd \in held[t] :
         Write(t, fd) \/ Fsync(t, fd) \/ CloseFd(t, fd) \/ PositionalFails(t, fd)
    \/ \E n \in Names : TruncateOpens(t, n)
    \/ Truncate(t)
    \/ \E n \in Names : Unlink(t, n) \/ Mkdir(t, n) \/ Rmdir(t, n)
    \/ \E src, dst \in Names : Rename(t, src, dst)
    \/ Opendir(t) \/ Readdir(t) \/ Rewind(t) \/ Closedir(t)

PortSpec == PortInit /\ [][PortNext]_portVars

-----------------------------------------------------------------------------
(* The table, the files and the streams hold what they may.                *)
PortTypeOK ==
  /\ tree \in [Names -> {"none", "file", "dir"}]
  /\ table.cache \in [0 .. CacheSize(table) - 1 -> Files \cup {NoSlot}]
  /\ table.list \in Seq(Files) /\ table.count \in 0 .. CacheSize(table)
  /\ files \in [Files -> [path : Names \cup {0},
                          lfs : {"free", "clean", "dirty", "erred", "closed"}]]
  /\ held \in [Tasks -> SUBSET DOMAIN table.cache]
  /\ cutting \in [Tasks -> [at : {"idle", "cut", "close"}, fd : {-1} \cup DOMAIN table.cache]]
  /\ lock \in Tasks \cup {NoTask}
  /\ stream \in [open : BOOLEAN, id : 0 .. Cardinality(Names) + 1,
                 broken : BOOLEAN, due : SUBSET Names]

(* The double bookkeeping of esp_littlefs_allocate_fd and free_fd: the     *)
(* slots in use, the linked list and fd_count describe the same files,     *)
(* each once, and they are exactly the ones allocated.                     *)
TableMatchesList ==
  LET inSlots == {table.cache[fd] : fd \in Live(table)}
  IN /\ inSlots = ToSet(table.list) /\ inSlots = {f \in Files : files[f] # NoFile}
     /\ table.count = Len(table.list) /\ table.count = Cardinality(Live(table))

(* Every descriptor in use belongs to one task, or to a truncate call that *)
(* is under way, or is left over from a close that failed: no interleaving *)
(* of the three parts of truncate with other calls loses or shares one.    *)
NoDescriptorLost ==
  LET cut == {cutting[t].fd : t \in Tasks} \ {-1}
      closed == {fd \in Live(table) : files[table.cache[fd]].lfs = "closed"}
  IN /\ Live(table) = (UNION {held[t] : t \in Tasks}) \cup cut \cup closed
     /\ \A t, u \in Tasks : t # u => held[t] \cap held[u] = {}
     /\ \A t \in Tasks : held[t] \cap (cut \cup closed) = {}

(* An open file stays where it is: unlink finds it by name however full    *)
(* the table is and in whatever order its slots were used (EBUSY).         *)
OpenFilesStay ==
  \A f \in Files : files[f] # NoFile => tree[files[f].path] = "file"

(* A directory stream that can be read still has before it every entry it  *)
(* has to return, whatever is created and removed around it.               *)
StreamMissesNothing ==
  stream.open /\ ~stream.broken =>
    \A n \in stream.due : tree[n] # "none" /\ IdOf(tree, n) >= stream.id

(* Growing the table moves no descriptor: a descriptor names one file      *)
(* until it is closed.                                                     *)
DescriptorsKeepTheirFile ==
  [][\A t \in Tasks : \A fd \in held[t] \cap held'[t] :
        table'.cache[fd] = table.cache[fd]]_portVars

(* Slots, list and count are one table, its descriptors have owners, and   *)
(* their files stay.                                                       *)
TableSound == PortTypeOK /\ TableMatchesList /\ NoDescriptorLost /\ OpenFilesStay
=============================================================================
