------------------------------ MODULE FileSys ------------------------------
(***************************************************************************)
(* The file system component (fileSys.c): one open file, a cache of the    *)
(* names on the partition, and the calls to the C library and the littlefs *)
(* port, each of which may fail. Power may go at any time between two of   *)
(* them. An action is the code between two changes of what is on flash.    *)
(*                                                                         *)
(* A file's content is a sequence of units, each labelled by the write it  *)
(* came from. littlefs commits a file when it is created and when it is    *)
(* closed. trouble collects what has failed since the partition was        *)
(* mounted, so that a property can say which failures it survives; "past"  *)
(* stands for a failed scan or creation before that.                       *)
(***************************************************************************)
EXTENDS Integers, FiniteSets, SequencesExt

CONSTANTS
  FileNames,    \* names the application uses, in the order littlefs lists them
  Payloads,     \* sequences of units the application writes
  MaxNumFiles,  \* MAX_NUM_FILES
  MaxFileSize,  \* MAX_FILE_SIZE_IN_BYTES, in units
  Capacity      \* partition size, in units

ASSUME NamesAssumption == FileNames \subseteq Nat \ {0} /\ IsFiniteSet(FileNames)
ASSUME PayloadsAssumption == Payloads \subseteq Seq(Nat \ {0})
ASSUME LimitsAssumption == MaxNumFiles \in Nat \ {0} /\ MaxFileSize \in Nat /\ Capacity \in Nat

VARIABLES
  disk,      \* name -> committed content, or None
  mounted,   \* isPartitionMounted
  names,     \* localFilenames: row -> name or NoName
  numFiles,  \* numFilesOnPartition
  used,      \* partitionUsedBytes
  handle,    \* fileHandle: the open file and its uncommitted content
  path,      \* openFilePath, as the name at its end
  openSize,  \* openFileSize
  call,      \* the write that is under way
  halted,    \* why the device has halted, or "no"
  trouble,   \* what failed since the partition was mounted
  promised   \* name -> what its content may be after a power loss now

vars == <<disk, mounted, names, numFiles, used, handle, path, openSize, call, halted, trouble,
          promised>>

None     == <<0>>     \* no file (unit 0 is never written)
NoName   == 0
Rows     == 1 .. MaxNumFiles
NoNames  == [i \in Rows |-> NoName]
NoHandle == [name |-> NoName, content |-> <<>>]
Idle     == [at |-> "idle", name |-> NoName, data |-> <<>>, intended |-> <<>>]

Past     == IF trouble \cap {"scan", "orphan", "past"} = {} THEN {} ELSE {"past"}
OnDisk   == {n \in FileNames : disk[n] # None}
InOrder(S) ==
  [i \in 1 .. Cardinality(S) |-> CHOOSE n \in S : Cardinality({m \in S : m < n}) = i - 1]

(* fileSys_openFileRW, fileSys_deleteFile: the scan of the names.          *)
Cached(n) == \E i \in 1 .. numFiles : names[i] = n

(* An assertion fails or a NULL pointer is used.                           *)
Halt(reason) ==
  /\ halted' = reason
  /\ UNCHANGED <<disk, mounted, names, numFiles, used, handle, path, openSize, call,
                 trouble, promised>>

(* Content after data was written over it from its start ("r+").           *)
Over(data, content) ==
  data \o SubSeq(content, Len(data) + 1, Len(content))

-----------------------------------------------------------------------------
(* Mounting.                                                               *)

(* fileSys_refreshLocalData. readdir answers NULL at the end and on an     *)
(* error alike, so the list may be cut short; when opendir fails the names *)
(* are gone and the number of files stays.                                 *)
Refresh(content) ==
  LET found == InOrder({n \in FileNames : content[n] # None})
  IN \/ \E k \in 0 .. Len(found) :
          /\ names' = [i \in Rows |-> IF i <= k THEN found[i] ELSE NoName]
          /\ numFiles' = k
          /\ trouble' = IF k = Len(found) THEN trouble ELSE trouble \cup {"scan"}
          /\ halted' = IF k > MaxNumFiles THEN "overflow" ELSE halted
     \/ /\ names' = NoNames /\ UNCHANGED <<numFiles, halted>>
        /\ trouble' = trouble \cup {"scan"}

UnitsOn(content) ==
  MapThenSumSet(LAMBDA n : Len(content[n]), {n \in FileNames : content[n] # None})

(* fileSys_init: fileSys_mount with format_if_mount_failed. A partition    *)
(* littlefs cannot mount is erased (esp_littlefs_format).                  *)
Mount ==
  /\ ~mounted /\ halted = "no"
  /\ \E formatted \in BOOLEAN :
       /\ disk' = IF formatted THEN [n \in FileNames |-> None] ELSE disk
       /\ promised' = [n \in FileNames |-> {disk'[n]}]
  /\ mounted' = TRUE /\ used' = UnitsOn(disk')
  /\ handle' = NoHandle /\ path' = NoName /\ openSize' = 0 /\ call' = Idle
  /\ Refresh(disk')

(* The system task's assertion on a partition that could not be mounted.   *)
MountFails ==
  /\ ~mounted /\ halted = "no"
  /\ Halt("fault")

(* fileSys_deinit, fileSys_unmount.                                        *)
Unmount ==
  /\ mounted /\ halted = "no" /\ call.at = "idle"
  /\ \/ handle # NoHandle /\ Halt("open")
     \/ /\ handle = NoHandle
        /\ mounted' = FALSE /\ names' = NoNames /\ numFiles' = 0 /\ used' = 0
        /\ path' = NoName /\ openSize' = 0 /\ trouble' = Past /\ call' = Idle
        /\ UNCHANGED <<disk, handle, halted, promised>>

-----------------------------------------------------------------------------
(* Opening.                                                                *)

Ready == mounted /\ halted = "no" /\ call.at = "idle"

(* The assertions at the start of fileSys_openFileRW.                      *)
OpenFault(createNew) == handle # NoHandle \/ (numFiles = 0 /\ ~createNew)

(* It may open the file: it knows it, or may create it.                    *)
MayOpen(n, createNew) == Cached(n) \/ (createNew /\ numFiles < MaxNumFiles)

(* Mutant: a file that exists is emptied as well.                          *)
FopenEmpties(n) ==
  /\ disk' = [disk EXCEPT ![n] = <<>>]
  /\ handle' = [name |-> n, content |-> <<>>]
  /\ IF Cached(n)
       THEN path' = n /\ UNCHANGED <<names, numFiles>>
       ELSE /\ numFiles' = numFiles + 1
            /\ names' = [names EXCEPT ![numFiles + 1] = n]
            /\ path' = IF numFiles' = MaxNumFiles THEN NoName ELSE n
  /\ openSize' \in {openSize} \cup IF path' = NoName THEN {} ELSE {Len(disk'[n])}

(* Mutant: the number of files is kept for the next scan.                  *)
FopenCountsLate(n) ==
  /\ disk' = IF Cached(n) THEN disk ELSE [disk EXCEPT ![n] = <<>>]
  /\ handle' = [name |-> n, content |-> disk'[n]]
  /\ IF Cached(n)
       THEN path' = n /\ UNCHANGED <<names, numFiles>>
       ELSE names' = [names EXCEPT ![numFiles + 1] = n] /\ path' = n /\ UNCHANGED numFiles
  /\ openSize' \in {openSize} \cup IF path' = NoName THEN {} ELSE {Len(disk'[n])}

(* fopen works: "r+" if the name was found, else "w+", which creates the   *)
(* file or empties one the cache does not know. The row a new name gets is *)
(* cleared over the length of a path, which is longer: behind the last row *)
(* it takes the open file's path with it, and stat("") then fails and      *)
(* leaves openFileSize as it was.                                          *)
Fopen(n) ==
  /\ disk' = IF Cached(n) THEN disk ELSE [disk EXCEPT ![n] = <<>>]
  /\ handle' = [name |-> n, content |-> disk'[n]]
  /\ IF Cached(n)
       THEN path' = n /\ UNCHANGED <<names, numFiles>>
       ELSE /\ numFiles' = numFiles + 1
            /\ names' = [names EXCEPT ![numFiles + 1] = n]
            /\ path' = IF numFiles' = MaxNumFiles THEN NoName ELSE n
  /\ openSize' \in {openSize} \cup IF path' = NoName THEN {} ELSE {Len(disk'[n])}

-----------------------------------------------------------------------------
(* fileSys_writeFile.                                                      *)

NoSpaceFor(data) == used + Len(data) >= Capacity

TooLarge(data) == openSize + Len(data) >= MaxFileSize

Return == call' = Idle

(* What a write is to leave on flash, and what it may leave if it does not *)
(* end: the file as it was, or as the opening made it.                     *)
Intended(n, data) == Over(data, IF Cached(n) THEN disk[n] ELSE <<>>)

MayLeave(n, data) ==
  {Intended(n, data)} \cup promised[n] \cup IF Cached(n) THEN {} ELSE {<<>>}

(* fileSys_openFileRW fails an assertion.                                  *)
OpenHalts(createNew) ==
  /\ Ready /\ OpenFault(createNew)
  /\ Halt(IF handle # NoHandle THEN "open" ELSE "fault")

(* fileSys_openFileRW worked.                                              *)
WriteOpens(n, data, createNew) ==
  /\ Ready /\ ~OpenFault(createNew) /\ MayOpen(n, createNew)
  /\ Fopen(n)
  /\ call' = [at |-> "opened", name |-> n, data |-> data, intended |-> Intended(n, data)]
  /\ promised' = [promised EXCEPT ![n] = MayLeave(n, data)]
  /\ UNCHANGED <<mounted, used, halted, trouble>>

(* Nothing is opened, and nobody asks: unless the partition seems too full *)
(* the NULL handle is written to. A new file may have been created before  *)
(* fopen failed.                                                           *)
WriteUnopened(n, data, createNew) ==
  /\ Ready /\ ~OpenFault(createNew)
  /\ \/ ~NoSpaceFor(data) /\ Halt("fault")
     \/ /\ NoSpaceFor(data)
        /\ trouble' = trouble \cup {"left"}
        /\ UNCHANGED <<disk, mounted, names, numFiles, used, handle, path, openSize, call, halted,
                       promised>>
     \/ /\ NoSpaceFor(data) /\ MayOpen(n, createNew) /\ ~Cached(n)
        /\ disk' = [disk EXCEPT ![n] = <<>>]
        /\ promised' = [promised EXCEPT ![n] = {<<>>}]
        /\ trouble' = trouble \cup {"left", "orphan"}
        /\ UNCHANGED <<mounted, names, numFiles, used, handle, path, openSize, call, halted>>

(* The checks and fwrite. A write that is refused or fails leaves the file *)
(* open. fflush is not asked whether it worked: if not, littlefs marks the *)
(* file and the close commits nothing.                                     *)
WriteData ==
  /\ mounted /\ halted = "no" /\ call.at = "opened"
  /\ \/ /\ trouble' = trouble \cup {"left"}
        /\ Return /\ UNCHANGED <<handle, openSize>>
     \/ /\ ~NoSpaceFor(call.data) /\ ~TooLarge(call.data)
        /\ openSize' = openSize + Len(call.data)
        /\ UNCHANGED trouble
        /\ \/ /\ handle' = [handle EXCEPT !.content = Over(call.data, @)]
              /\ call' = [call EXCEPT !.at = "written"]
           \/ call' = [call EXCEPT !.at = "lost"] /\ UNCHANGED handle
  /\ UNCHANGED <<disk, mounted, names, numFiles, used, path, halted, promised>>

(* Mutant: the handle is left for the next opening to replace.             *)
CloseKeepsHandle ==
  /\ disk' = [disk EXCEPT ![handle.name] = handle.content]
  /\ path' = NoName /\ openSize' = 0
  /\ UNCHANGED <<trouble, handle>>

(* fileSys_closeFile. When fclose fails the handle stays, and nobody asks. *)
Close ==
  \/ /\ disk' = [disk EXCEPT ![handle.name] = handle.content]
     /\ handle' = NoHandle /\ path' = NoName /\ openSize' = 0
     /\ UNCHANGED trouble
  \/ /\ trouble' = trouble \cup {"left"}
     /\ UNCHANGED <<disk, handle, path, openSize>>

WriteCloses ==
  /\ mounted /\ halted = "no" /\ call.at \in {"written", "lost"}
  /\ Close
  /\ Return
  /\ promised' = IF handle' = NoHandle /\ call.at = "written"
                 THEN [promised EXCEPT ![call.name] = {call.intended}] ELSE promised
  /\ UNCHANGED <<mounted, names, numFiles, used, halted>>

-----------------------------------------------------------------------------
(* fileSys_readFile of the whole file or of its first units. A file that   *)
(* cannot be opened or is shorter than asked for fails an assertion.       *)
ReadHalts == (call.at = "read" \/ (Ready /\ ~OpenFault(FALSE))) /\ halted = "no" /\ Halt("fault")

ReadOpens(n) ==
  /\ Ready /\ ~OpenFault(FALSE) /\ Cached(n)
  /\ Fopen(n)
  /\ call' = [Idle EXCEPT !.at = "read"]
  /\ UNCHANGED <<mounted, used, halted, trouble, promised>>

ReadCloses ==
  /\ mounted /\ halted = "no" /\ call.at = "read"
  /\ Close
  /\ Return
  /\ UNCHANGED <<mounted, names, numFiles, used, halted, promised>>

(* fileSys_deleteFile. The port refuses to remove an open file.            *)
Delete(n) ==
  /\ Ready
  /\ \/ /\ UNCHANGED <<disk, names, numFiles, halted, trouble, promised>>
        /\ Return
     \/ /\ Cached(n) /\ disk[n] # None /\ handle.name # n
        /\ disk' = [disk EXCEPT ![n] = None]
        /\ promised' = [promised EXCEPT ![n] = {None}]
        /\ Refresh(disk') /\ Return
  /\ UNCHANGED <<mounted, used, handle, path, openSize>>

-----------------------------------------------------------------------------
Reset ==
  /\ mounted' = FALSE /\ names' = NoNames /\ numFiles' = 0 /\ used' = 0
  /\ handle' = NoHandle /\ path' = NoName /\ openSize' = 0
  /\ call' = Idle /\ halted' = "no" /\ trouble' = Past

(* Power goes and comes back. What is on flash stays.                      *)
PowerLoss ==
  /\ Reset
  /\ promised' = [n \in FileNames |-> {disk[n]}]
  /\ UNCHANGED disk

Init ==
  /\ disk = [n \in FileNames |-> None]
  /\ mounted = FALSE /\ names = NoNames /\ numFiles = 0 /\ used = 0
  /\ handle = NoHandle /\ path = NoName /\ openSize = 0
  /\ call = Idle /\ halted = "no" /\ trouble = {}
  /\ promised = [n \in FileNames |-> {None}]

Next ==
  \/ Mount \/ MountFails \/ Unmount
  \/ \E createNew \in BOOLEAN : OpenHalts(createNew)
  \/ \E n \in FileNames, data \in Payloads, createNew \in BOOLEAN :
       WriteOpens(n, data, createNew) \/ WriteUnopened(n, data, createNew)
  \/ WriteData \/ WriteCloses
  \/ ReadHalts \/ ReadCloses \/ \E n \in FileNames : ReadOpens(n) \/ Delete(n)
  \/ PowerLoss

Spec == Init /\ [][Next]_vars

-----------------------------------------------------------------------------
Units    == UNION {ToSet(data) : data \in Payloads}
Contents == {None} \cup BoundedSeq(Units, MaxFileSize)

(* Only what a write is to leave may be longer than a file can be.         *)
TypeOK ==
  /\ disk \in [FileNames -> Contents]
  /\ promised \in [FileNames -> SUBSET ({None} \cup Seq(Units))]
  /\ mounted \in BOOLEAN /\ names \in [Rows -> FileNames \cup {NoName}]
  /\ numFiles \in Nat /\ used \in Nat
  /\ handle.name \in FileNames \cup {NoName} /\ handle.content \in Contents
  /\ path \in FileNames \cup {NoName} /\ openSize \in 0 .. MaxFileSize
  /\ call.at \in {"idle", "opened", "written", "lost", "read"}
  /\ trouble \subseteq {"past", "scan", "orphan", "left"}

(* The cache is the directory: unless a scan was cut short or a creation   *)
(* failed half way, the names the menu is shown are exactly the files on   *)
(* the partition, each once, however they came and went.                   *)
CacheIsDirectory ==
  mounted /\ halted = "no" /\ trouble \cap {"scan", "orphan"} = {} =>
    /\ {names[i] : i \in 1 .. numFiles} = OnDisk
    /\ numFiles = Cardinality(OnDisk)

(* The rows of the cache are never overrun, unless a scan or a creation    *)
(* failed at some time: the limit checked on creation is the limit of the  *)
(* next scan. After such a failure files can be created beyond the limit,  *)
(* and from then on every mount overruns the rows.                         *)
RowsSuffice ==
  halted = "overflow" => trouble \cap {"scan", "orphan", "past"} # {}

(* A write that is interrupted leaves the file as it was or as it is to    *)
(* be; one that was answered with success has its data on flash, and later *)
(* operations on other files do not touch it. Excepted are names lost by a *)
(* scan that failed: their files are emptied when written next.            *)
ContentsAsPromised ==
  \A n \in FileNames : disk[n] \in promised[n]

(* Between two operations no file is open and nothing of the last one is   *)
(* left, unless a write was refused or failed, or fclose did: then the     *)
(* handle stays, and the next operation that opens a file halts.           *)
NoFileLeftOpen ==
  mounted /\ call.at = "idle" /\ "left" \notin trouble =>
    handle = NoHandle /\ path = NoName /\ openSize = 0 /\ halted # "open"

(* The list of files the menu is given is right and fits its rows.         *)
CacheSound == TypeOK /\ CacheIsDirectory /\ RowsSuffice
=============================================================================
