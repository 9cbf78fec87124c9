# A TLA+ model of midiSequencerInputUnit

The firmware under `Firmware/` drives a hardware midi sequencer: a matrix of
switches stands for steps of a grid, a small screen with two rotary encoders
shows and edits notes, LEDs show the grid, projects are kept as midi files on a
littlefs partition and streamed to another device over BLE. This directory
holds TLA+ modules translated from that code, the TLC configurations that check
them on small instances, and TLAPS proofs of what must hold for every size.

Paths below are relative to `Firmware/components/`; `lfs.c` is
`esp_littlefs/src/littlefs/lfs.c`.

## 1. Inventory

| Part | State it keeps | Operations | Talks to |
|---|---|---|---|
| Switch matrix (`switchMatrix/switchMatrix.c`) | `currentColumn`, flag and row written by the interrupt handler; the external decade counter | set-up, scan loop, row handler | system task, by a queue of 1 |
| Rotary encoders (`rotaryEncoders/rotaryEncoders.c`) | phases, counts per direction, one debounce flag | switch handlers, phase handlers, debounce alarm | menu task, by a queue |
| System task (`system/system.c`) | `midiEventParams`, the note touched last | take an edit, take a press, announce a note | menu (two queues of 1), grid manager (calls) |
| Grid manager (`system/gridManager/gridManager.c`) | `g_GridData`: a list of events per midi note, `totalGridColumns` | add, edit, remove, query, reset; LED window; midi file conversions | list component, LED drivers, midi helper (calls) |
| Linked lists (`system/gridManager/genericDLL/genericDLL.c`) | pool of nodes, their links | init, create, append, insert, delete, free a list | grid manager only |
| Midi helper (`midiHelper/midiHelper.c`) | none | byte counts, delta times, status lookup | grid manager |
| LED drivers (`ledDrivers/`) | PWM registers of four chips | one burst per column | grid manager |
| Menu task (`guiMenu/menu.c`, `private/menuData.c`) | page, selection, parameters, a name being typed | navigate, edit numbers, strings and selections, callbacks | system task (queues), encoders (queue) |
| File system (`fileSys/fileSys.c`) | one open file, names of all files | mount, unmount, open, read, write, close, delete | C library, littlefs port |
| littlefs port (`esp_littlefs/src/esp_littlefs.c`) | descriptor table, list of open files, a lock | open, close, write, truncate, unlink, rename, directories | virtual file system above, littlefs below |
| littlefs (`lfs.c`) | blocks; mounted root, global state, open handles, allocator's window | files, directories, commits, repair | flash |
| BLE client (`bleCentralClient/bleCentral.c`) | connection, characteristics found, state of a stream | scan, connect, disconnect, stream a file in packets | NimBLE host task (callbacks), application (queue) |
| BLE peer discovery (`bleCentralClient/peer.c`) | services, characteristics, descriptors of a peer, their pools | discover, add, find, delete | BLE client, NimBLE host |
| Display, `main.c`, boards | | output and start-up | |

What must be right, and what makes it hard:

- **Switch matrix.** The column of a press is not stored by the handler; the
  task rebuilds it from its own copy of a counter it can never read back, and
  handler and task share two variables without a lock.
- **Encoders.** Two handlers and a timer share one debounce flag; contacts
  bounce; events are dropped when the queue is full.
- **Linked lists.** Pointer surgery at heads, tails and in between, on a pool
  that is used up. No node may be lost, shared or freed twice.
- **Grid manager.** Rows must stay ordered runs of note-on/note-off pairs under
  any sequence of calls; every search relies on it, and many assertions fail
  without it. A failed assertion halts the device
  (`CONFIG_ESP_SYSTEM_PANIC_PRINT_HALT`). What is saved must load again.
- **System and menu task.** Two tasks, two queues of one item, sends that drop.
  An edit names no note, yet must reach the note on the screen.
- **Files.** Every call of the library may fail and power may go; no error path
  may leave a file open, and cached names must be the names on flash.
- **littlefs port.** Descriptors are indices into a table that grows under
  several tasks (shrinking it is compiled out).
- **littlefs.** Operations of many commits must be all or nothing when power
  goes between two of them, when pairs overflow, wear out and are moved under
  the operation that uses them, and when blocks fail while written.
- **BLE.** Callbacks of another task, links that break, procedures that fail,
  and streams that wait for answers.

`PROJECT.json` lists every part with its status, and every hazard at its line.

## 2. Modules

| Module | What it is | Source |
|---|---|---|
| `SwitchMatrix` | scan task, handler, counter, fingers, queue | `switchMatrix.c` |
| `RotaryEncoders` | handlers, debounce timer, shafts, contacts, queue | `rotaryEncoders.c` |
| `GenericDLL` | pool and pointers, one action per public function, the freeing loop node by node | `genericDLL.c` |
| `RowLists` | abstract: one sequence of nodes per row | what `gridManager.c` expects of the lists |
| `GridRow` | pure: one row as a sequence of events, and every search made in it | `gridManager.c`, private functions and the query |
| `GridManager` | rows, pool, column count, assertions; the public operations | `gridManager.c` |
| `NoteGrid` | abstract: notes that do not overlap | what the grid manager's comments promise |
| `GridLeds`, `GridWindow` | pure: the LEDs of a window of a grid, and that they show its notes | `gridManager.c`, `ledDrivers.c` |
| `MidiFile`, `GridViews` | pure: the track a grid is saved as, the grid a track loads as | `gridManager.c`, `midiHelper.c` |
| `SystemTask` | the system task over `GridManager`, with any menu at the other end of the queues | `system.c` |
| `Sequencer` | `SystemTask` with the real note edit page | `menu.c`, `menuData.c` |
| `GuiMenu` | all pages of the menu task, with all kinds of editing | `menu.c`, `menuData.c` |
| `FileSys` | the file component over calls that may fail | `fileSys.c` |
| `EspLittlefs` | the port's table, files, lock and directory streams, several tasks | `esp_littlefs.c` |
| `LfsCtz`, `LfsFile` | skip list of blocks; one file, its handle, caches and the allocator | `lfs.c` 1-600, 2640-3600 |
| `ByteFile` | abstract: a file of bytes with an open handle | what `LfsFile` promises |
| `LfsPairs`, `LfsTree` | metadata pairs and their commits; the operations on names, relocations and repair | `lfs.c` 600-2490, 3600-4620 |
| `NameTree` | abstract: a tree of names with atomic operations | what `LfsTree` promises |
| `PeerDiscovery`, `BleClient` | what is known of a peer and how it is found; connection and stream | `peer.c`, `bleCentral.c` |
| `MCPanel`, `MCKnobs`, `MCTasks`, `MCGrid`, `MCStorage`, `MCLfsTree` | instances for TLC; all but the last hold two or three systems that share no state | |
| `SwitchMatrixProofs`, `RotaryEncodersProofs`, `GridManagerProofs`, `GenericDLLProofs`, `SequencerProofs`, `GuiMenuProofs`, `StorageProofs` (of `FileSys` and `EspLittlefs`), `BleClientProofs` | TLAPS proofs | |

`Sequencer` extends `SystemTask`, which instantiates `GridManager`, which
extends `GridRow`; `GridWindow` extends `GridManager` and `GridLeds`, and
`GridViews` extends it and `MidiFile`; `BleClient` extends `PeerDiscovery`;
`LfsTree` extends `LfsPairs`, and `LfsFile` extends `LfsCtz`. Four layers are
cut by abstract specifications: `GenericDLL` implements `RowLists` and `GridManager` keeps rows as sequences;
`GridManager` implements `NoteGrid`; `LfsFile` implements `ByteFile` and
`LfsTree` implements `NameTree`, and `FileSys` and `EspLittlefs` take files and
directories from littlefs at that level. `Sequencer` implements `SystemTask`.

A definition under a comment that starts with "Mutant" is a plausible mistake
that one of the runs must detect; it is part of no specification.

### SwitchMatrix

`scanPc` marks the places of the task between which the handler may run: `setup`
(counter reset, `:143-145`, after the handler was registered), `scan` (look at
the flag, read the row, `:75-77`), `clear` (`:78`), `send` (`:79-82`), `clock`
(rising edge, `:87`), `delay` (after the sleep, decrement, `:89-92`). The
handler runs as part of the step that raises a row input: pressing a switch of
the energized column, or energizing the column of a switch that is down. An
edge while the flag is set has no effect. `latched` and `switchEvent.from` are history.

### RotaryEncoders

A shaft moves in quarter steps, which change one phase pin and leave an edge
for the handler; edges are merged while one is pending. A handler compares the
level with what it saw last and counts in a direction; `EncoderCountPerRev`
counts make an event. The switches of both encoders share `waiting`, the
debounce flag that the timer's alarm clears. `climbed` and `fallen` are history:
how far a shaft has come in each direction since its encoder's last event, and
`unsure` that the handler still guesses the phase, as it does at power-up.

### GenericDLL, GridRow, GridManager

Nodes are numbers and NULL is 0, and a node is at all times in one of the places
`Line` names: the list of a row, the free part of the pool, on its way to a list,
or in the rest of a list being freed. What a node carries is left to `GridManager`,
whose rows are sequences of `[on, col, vel]`. Every search keeps the code's way
of giving up early, since rows that are out of order are reachable. `uint8_t`
results are reduced modulo 256. `fault` names the assertion that failed; only
`PowerCycle` follows. `CallerNext` makes the calls the comments allow: query
first, keep a note short of the next.

### GridLeds, GridWindow, MidiFile, GridViews

These are functions of a grid, checked on every grid `GridManager` can reach:
`Image` lights columns as `gridManager_updateGridLEDs` walks a list, where
`Visited` are the events its loop stands at and `Behind` the note-offs it moves
past, and `Registers` holds what the bursts of `ledDrivers.c` leave. `Track` writes
bytes and `ReadTrack`, the loop of `gridManager_midiFileToGrid`, reads them,
with the delta times as bytes of seven bits and the length that `midiHelper.c`
assigns to them. `Load` is the whole function: it frees the rows first
(`FreeAllGridData`), with the assertion on which that ends when a row is empty.

### SystemTask, Sequencer, GuiMenu

In `SystemTask` `pc` is the place of the task in its loop: about to poll the
menu queue, about to poll the switch queue, or asleep in the LED update between
adding a note and announcing it. An announcement carries the column of its note
as history: the menu is not told. `Sequencer` puts the note edit page in place
of "any menu"; `GuiMenu` models all pages by themselves: `pc` is the menu
loop's place (input, edit, naming, announce), and characters are positions of
the character set. The search for a default name is modelled one comparison at a
time: `NextFile` moves on in the list of files, `NameTaken` starts again with the
next number or gives up past the last, `NameFree` ends it. The list is any of
`FileLists` and stays as it is: only the file component changes it.

### FileSys

An action is the code between two changes of what is on flash, so that power
may go between them: opening (which creates or empties), writing, closing.
`promised` remembers what a reader may find in a file, `trouble` what has
failed since mounting, so that a property can say which failures it survives.
C library and port are environment: every call may fail.

### EspLittlefs

A handler runs under the lock and is one action; `truncate` takes the lock
three times and is three. `table` is the array of slots, the list and the
count; `files` the allocated file structures; `stream` one directory stream,
with the entries it still owes as history.

### LfsCtz and LfsFile

Flash is an array of blocks of words; block k of a file starts with ctz(k)+1
pointers. All of `lfs_file_*` is there: inline files and their outlining,
the branch that copies what lies before a write, the program cache, relocation
when a block fails, the lookahead window, truncation and extension, seeking
with its shortcut, writing at the end (`LFS_O_APPEND`, the openings of
`Appenders`), sync and the errors that leave a handle unusable. `ProgSize`
divides `BlockSize`, as `lfs_init` asserts (`LfsAssumption`).

### LfsPairs and LfsTree

A metadata pair holds entries sorted by name, a tail, and its difference of the
global state; a commit is one atomic step, because what was written of a block
when power fails does not match its checksum. A commit leads to a *set* of
volumes: it is appended, compacted, split in several, moved to a fresh block,
or meets a full volume, and `RelocatingCommit` then fixes the open handles.
The byte size of an entry is one unit: a log holds up to `Room` entries, and
compacting leaves `HalfRoom` together.

`LfsTree` keeps what an operation still has to do in `work.todo`, a stack of
frames: commits, and the rest of the functions that wait for them. `WritePair`
makes one commit. If its pair was moved, `FixParent` and `FixPred` commit to
the pair that names it and the pair before it on the list, which may move in
turn (`lfs_dir_orphaningcommit`). `SweepEnds`, `UnlinkOrphan` and
`RelinkHalfOrphan` are `lfs_fs_deorphan`, `Demove` is `lfs_fs_demove`; the other
actions are the pieces between commits of `lfs_rawmkdir`, `lfs_rawremove`,
`lfs_rawrename`, `lfs_file_rawopencfg` and `lfs_file_rawsync`. `PowerLoss` may
come between any two and mounts what is on flash. `tree` is what a mount at
that moment would show; it is computed by mounting, from flash alone.

When an operation has ended, blocks are renumbered in the order of the list and
what no pair can read is blanked (`Canonical`): volumes that differ in no other
way behave alike, and are one state.

### PeerDiscovery and BleClient

Each GATT procedure of the NimBLE host answers item by item and then ends; the
link may break and a procedure may fail at any point. Characteristics are
blocks of a pool because `characteristic_0` and `characteristic_1` keep
pointing to them. A terminate the host refuses leaves the link up (`Terminate`).
`Uuids` are the uuids there are, and the databases a peripheral may have are in
the order of their handles (`DatabasesAssumption`). The API task is a separate
process that shares the volatile variables; `announced` and `refused` are
history.

## 3. Runs

| Run | Properties | Bounds |
|---|---|---|
| `panel`: `SwitchMatrix` | `ColumnFollowsCounter`, `ReportedColumn`, `HeldKeyReported` | 3 columns, 1 row, queue of 1 |
| `panel`: `GuiMenu` | `MenuSound`, `DefaultNameIsFree`, `AnnouncementShown` | 4 characters, names of 4, lists of 2 files, numbers to 3 |
| `knobs`: `RotaryEncoders` | `TurnsAreReal`, `SteadyTurnHeard`, `PressesHeardAgain` | 2 encoders, one of which turns, 4 counts per event, queue of 2 |
| `knobs`: `Sequencer`, a user who waits | `EditReachesShownNote`, `MenuShowsTheNote`, `CarefulEditsKeepRows`, `ImplementsSystemTask` | 3 columns, durations to 3, velocities 0-1 |
| `tasks`: `SystemTask`, any menu | `RowsSurviveAnyMenu`, `PressesMakeNotes` | 3 columns, durations 0-2 in edits |
| `tasks`: `BleClient` | `DiscoverySound`, `StreamSound`, `LooksAgain`, `DiscoveryEnds`, `StreamEnds` | 4 peripherals, pools of 2, 3 packets, 2 connections, 2 requests |
| `grid`: `GridViews` | `GridSound`, `QueryAnswersForNotes`, `WindowShowsNotes`, `TrackRestoresGrid`, `ImplementsNoteGrid` | 9 rows of which 2 used, 3 columns, durations 1-2, 2 velocities, 8 nodes, window of 2 columns, 96 ticks per column |
| `grid`: `GenericDLL` | `ListsSound`, `ImplementsRowLists`, `FreeingEnds` | 2 rows, 5 nodes |
| `files`: `FileSys` | `CacheSound`, `ContentsAsPromised`, `NoFileLeftOpen` | 3 names on 2 rows, 2 payloads, 4 units |
| `files`: `EspLittlefs` | `TableSound`, `StreamMissesNothing`, `DescriptorsKeepTheirFile` | 2 tasks, 2 names, 2 file structures, a table of 1 slot at first |
| `files`: `LfsFile` | `BlocksSound`, `ImplementsByteFile` | 7 blocks of 6 words programmed in one piece, one bad, files to 12 words, 9 operations, 2 kinds of opening of which 1 appends |
| `lfs_tree` | `VolumeSound`, `ImplementsNameTree`, `OperationsEnd` | 16 blocks, logs of 3 entries, directories two deep, five plans, `CalmRenames` |
| `switch_race` | `EnergizedColumnReported`, violated | as `panel` |
| `lost_note` | `EditsFindTheirNote`, violated | 3 columns |
| `load_halts` | `LoadRestoresGrid`, violated | as `grid` |
| `delta_time_bytes` | `DeltaTimeBytesCounted`, violated | as `grid` |
| `lfs_truncate` | `ImplementsByteFile`, violated | truncation to 6 words, the end of a block |
| `lfs_rename_power` | `ImplementsNameTree`, violated | the volume of `lfs_tree`, plans with a rename, `CalmRenames = FALSE` |

A run of several rows holds systems that share no state. Its MC module extends
their modules, whose names of state, initial condition and steps therefore
differ, and a variable `runs` chooses one of them for a whole behaviour; the
others stand still where they started. Each keeps its own next-state relation
and its own fairness, restricted to the behaviours in which it runs.

What they show, beyond their names:

- `panel`, scan: the column reported is exact when the handler ran while the
  task slept, and never more than one off when it ran later in the loop. A
  switch that is held is reported again and again.
- `switch_race`: a press just behind the look at the flag is reported for the
  next column.
- `panel`, menu: nothing is indexed that is not there on any path through the
  pages, also when a note is announced in the middle of an edit. The one halt it
  allows is the assertion at `menu.c:734`, on editing a name that starts with
  the last character of the set. The search for a default name ends on the first
  that is free.
- `knobs`, encoders: every event is backed by that many quarter steps of that
  encoder in that direction, whatever bounces or is dropped. (Phases are skipped
  only by the first event after power-up, when the handler does not know the
  shaft.)
- `knobs`, careful user: a user who waits for the screen edits the note shown
  and never halts the device. This user never meets a dropped or a late
  announcement; what happens then is in `tasks` and `lost_note`.
- `tasks`, any menu: whatever edits arrive, pairs stay paired, presses become
  notes, and the only assertion a user can fail is the one of `lost_note`. By
  `ImplementsSystemTask` this holds for the real note page.
- `tasks`, BLE: discovery finds exactly the attributes of the peer within the
  pools, ends, and gives everything back; packets are paced by answers; after a
  failed attempt or a lost link the client looks again.
- `grid`: callers that keep to the comments never fail an assertion, the pool is
  charged for exactly the notes, and for every window and every grid the LEDs
  show the notes; the loop that reads a saved track into an empty grid makes the
  rows it came from, up to the recorded number of columns, unless it miscounts
  the bytes of a delta time. The pointers below implement one sequence of nodes
  per row.
- `load_halts`: the function around that loop fails an assertion before it.
- `delta_time_bytes`: a delta time is miscounted as soon as two events are two
  columns apart.
- `files`, littlefs: reads return what was written, the committed content
  survives power loss, a bad block and a full device, and no block in use is
  handed out. `lfs_truncate` widens one bound and shows where that ends.
- `lfs_tree`: every operation happens entirely or not at all, and not before it
  was asked for nor again after it was answered; a mount always finds the
  global state the volume was left in; the list of pairs is the tree unless the
  orphan flag says that it may not be; no commit is made to a stale copy of a
  pair; open files follow their entries; every operation is answered. Power may
  go at any time but in a rename that has relocated a pair: `lfs_rename_power`
  shows that such a rename is not atomic.

Why the bounds are enough. Three columns give each search a first, a middle and
a last event, an insertion in front of, between and behind notes, and room for
a note to be stretched over another; eight nodes give room for three notes and
fail on the fourth, and on the second node of a note. The used rows of
`grid` lie above the columns, as in the code (rows from 0x34, columns
to 7). Five nodes in two rows exercise head, tail and middle of one list beside
another. A queue of two events is full after two and then drops. A name of four has
room for a hole behind a default name of two. Pools of two are smaller than what
one of the peripherals offers. A file of 12 words over
blocks of 6 has three blocks, the last of which has a second pointer; seven
blocks run out while a file is copied. In `lfs_tree` three entries fill a log and the
fourth splits it; two replaced blocks let a relocation cause another;
a plan begins with a few undisturbed requests (its script) so that the next
ones meet nested directories, a split directory in front of another, or an
open file whose entry is split off, and then allows each a number of replaced
blocks and losses of power.

Named constants keep known trouble out of two runs, so that the rest can be
checked; section 6 says what happens without them: `TruncateSizes`,
`SeeksAtBlockEnd` and `ProgSize` of `LfsFile`, and `CalmRenames`, `CalmRepairs`
and `TiredWhenFull` of `LfsTree`. For `TruncateSizes` and `CalmRenames` a
violated run exists.

Deadlock checking is off in `panel`, `knobs` and `tasks`, where the menu's user,
the careful user and the BLE client may really stop (a halt, or the bounds on
requests). It is on in `grid`, in `files`, where only the counted operations on
blocks may end (`StepsUsedUp`) and a lock that is never given back would be
found, and in `lfs_tree`, where `Rests` lets an idle volume be left alone and
nothing else: an operation can never be stuck.

## 4. Fairness

- `SwitchMatrix`: the scan task and the system task keep running, as each sleeps
  once per loop and so does every task on the core. Fingers owe nothing.
- `RotaryEncoders`: pending interrupts are taken, the debounce alarm fires, the
  menu task reads its queue. Shafts and contacts owe nothing.
- `GenericDLL`: a loop that has started goes on.
- `GuiMenu`: the menu loop goes on, and a user who is editing leaves the edit in
  the end; a loop in which no knob is moved is run again and again.
- `BleClient`: the NimBLE host and the API task go on; the answers of the host
  (a write's, a disconnect's) come in the end, although other events come in
  between (strong fairness), since every procedure has a time limit there.
- `LfsTree`: a function that was called goes on. The condition is
  `[]<>(call = Idle) \/ []<><<TRUE>>_vars`, which is weak fairness of `Steps`
  without its costly `ENABLED`: the deadlock check shows that a step is possible
  whenever an operation runs.

The other modules' properties are safety properties.

## 5. Proofs

`SwitchMatrixProofs`, for any number of columns, any rows and any queue length
(`StartColumnAssumption`, `QueueLengthAssumption`): `TypeCorrect`,
`ColumnAlwaysFollowsCounter` and `ReportedColumnKnown` (`ReportedColumn`). Neither
`ColumnFollowsCounter` nor `ReportedColumn` is inductive: what is reported at
`send` depends on what was latched a loop earlier. `IInv` adds where a latched
column stands relative to the task's copy at each `scanPc` (`LatchedFollows`), the
same for the item being prepared (`ItemFollows`), that the flag cannot be clear
at `clear` (`FlagHeld`) and that nothing moves before the counter was reset
(`SetupColumn`). The one arithmetic fact is `ClockIsPred`: a clock of the
counter, which wraps modulo the number of columns, is a decrement of the task's
copy, which wraps at 0.

`RotaryEncodersProofs`, for any encoders, any count per event and any queue
(`EncodersAssumption`, `CountAssumption`, `QueueSizeAssumption`):
`CountsBacked` is the inductive invariant, that what a handler has counted in a
direction never exceeds the distance the shaft has come in it since the last
event, up to where the handler last looked (`lead` behind the shaft), plus the
one step it may have guessed at power-up; `ReportedTurnsAreReal` follows from
it, step by step, for the action property `TurnsAreReal`.

`StorageProofs` on `FileSys`, for any names, payloads and limits
(`NamesAssumption`: names are finitely many and differ from "no name";
`PayloadsAssumption`: so do units from "no file"; `LimitsAssumption`: there is a
row), whatever calls fail and whenever power goes: `WritesAsPromised`,
`NothingLeftOpen` and `CacheStaysSound` (`CacheSound`).

- `ContentsAsPromised` alone is not inductive, because a close commits whatever
  the handle holds. `ContentsInv` follows the handle from opening to closing
  (`Under`): it holds what was on flash when it was opened, then what the write
  is to leave or, when the flush failed, still the former, each of which is
  promised. `NoFileLeftOpen` is inductive once it is known what a call looks
  like (`CallOK`).
- `CacheSound` says nothing of the cache while a file is being deleted or after
  a failure, yet every scan and opening relies on it. `CacheInv` adds that a row
  shows a file that is there or nothing (`RowsShowFiles`, so what the cache
  knows can be opened), that the open file is there (`OpenFileIsThere`, so a
  close brings no name back), and that the files fit the rows as long as no scan
  or creation failed (`FilesFitRows`): this is why the next scan, which checks
  no limit, overruns nothing. `InOrderIs` says that a scan lists each file once,
  `SizeIsNumber` that the space they take is a number.

`GenericDLLProofs`, for any rows that fit a byte (`ListRowsAssumption`) and a pool of
at least one node (`NumNodesAssumption`): `ListsStaySound` (`ListsSound`) and
`ListsImplementSequences` (`ImplementsRowLists`).

- `ListsSound` is not inductive: freeing asserts that the entries of the pool
  before `currNodeIdx` are empty, and the loop that frees a list reads back
  through `prev` of nodes no list holds any more. `ListInv` says that a layout
  explains the state (`Layout`): a sequence of nodes for every row, for the free
  nodes, for the one waiting to be linked and for the rest of a list being
  freed, with every node in exactly one place, and the pointers as they follow
  from these sequences (`RowIs`, `FreeIs`, `WaitingIs`, `FreeingIs`).
- Each operation then moves one node from place to place, or a whole list
  (`MovedOnce`, `MovedCovered`, `AllMovedFacts`), and what it assigns is what
  the pointers of the longer or shorter sequence are (`LinkedInsert`,
  `LinkedRemove`). `FreeStepKeeps` is why the loop frees the node it stands at,
  which it reaches through the one behind.
- The lists are read by walking them, and `WalkFollows` says that a walk along
  pointers that follow a sequence visits that sequence, by `UpTo` as below. So
  the lists `RowLists` sees are the rows of the layout (`Seen`), which gives the
  refinement; that a node handed out is one nobody has is `Once`.

`GridManagerProofs`, for any rows, pool, columns and durations that fit a byte:
`GridStaysSound` (`GridSound`), `ListsImplementNotes` (`ImplementsNoteGrid`),
`QueriesAnswerForNotes` (`QueryAnswersForNotes`), `WindowsShowNotes`
(`WindowShowsNotes`), `SavedTracksRead` (`TrackRestoresGrid`), and `NotesNeverOverlap`: the
notes in the lists of a careful caller have the columns, velocities and durations
a note may have and no two of a row overlap. That holds in `NoteGrid`
(`NotesTyped`, `NotesApartForever`) and reaches the lists through the refinement.
`GridAssumption` also says
that the rows in use are no columns, because the duplicate check of
`gridManager_addNewMidiEventToGrid` swaps the two (`:102`) and would otherwise
look into a row in use: presses come from the switches, whose columns are 0 to
7 and whose rows start at 0x34.

- Lists first. `Reach(l, c)` is how far the scan of a query gets; on a row whose
  events are in pairs with the note-ons in order (`Loose`) it is the last event
  at or before c (`ScanIsPrefix`), and so are the place of an insertion
  (`AddPointIs`) and the search for a note-on (`NoteOnAtIs`). What a query
  answers follows from the parity of that position (`NoteAtIs`).
- `GridSound` is not inductive: that a new pair of events goes between two notes
  and not into one follows from what the query answered, and from durations and
  distances that do not wrap in a byte. `GridInv` says that each row is a run of
  notes apart from one another (`RowOfNotes`), that the pool is charged for
  their total, and that the rows nobody uses are empty. `RowAdd`, `RowRemove`
  and `RowUpdate` say what each operation does to one row and to the notes in
  it (`NotesIn`); the invariant and the refinement are both read off them.
- A query meets `QueryAnswersForNotes` because the notes of a row are its
  positions with a note-on, and `NoteAtIs` names the position (`QueryOfRow`).
- `WindowsShowNotes` (`WindowShowsNotes`), for a panel of up to eight columns
  (`WidthAssumption`), follows from `GridInv` as it stands. Of one row: a note
  that starts inside the window lights its columns, and one that starts before
  it is ended by the first note-off the walk is at, or the walk stops at it and
  lights the row (`RowLights`); conversely a note-off the walk is at ends a note
  from before the window (`EventLightsNote`), and a row lit from edge to edge is
  covered or one of `Flooded` (`FloodsRow`). Of the drivers: the burst order
  undoes the routing of the current sinks (`SinkOrder`), and no two LEDs share a
  register (`RegistersApart`, `LedShowsImage`).
- `SavedTracksRead` (`TrackRestoresGrid`), about the loop of the reader from an
  empty grid, follows from `GridInv` under
  `FileConditions`: the rows are numbered from 0 on, a note's end, like its start, is
  not numbered as a row in use (the loader makes the swapped duplicate check for
  note-offs too, so the song has to end before column 0x34), and 510 columns of
  ticks fit a delta time of four bytes (the code has 96 ticks per column).
  Saving takes the rows from their fronts: `SavedUpTo` says so of the events
  saved so far, and `AllSaved` of all of them, column by column. The bytes of
  the events lie one behind the other (`FlattenIsLaid`). A delta time is read as it
  was written (`DeltaTimeIs`, from `VarLenIs`), and its length comes out right or
  one too short (`Miscounts`). So one turn of the loop reads one event and puts it
  behind its row, or stands at the last byte of the delta time, which is below
  128 and no status byte (`EventRead`); the file is read to its end or to the
  first miscounted time (`LoadedIs`).

`SequencerProofs`, for any columns and limits that fit a byte and a pool of more
than four nodes per column (`SystemTaskAssumption`; the code has 8 columns and
100 nodes). It uses the lemmas about rows of `GridManagerProofs`.

- `RowsSurvive` and `PressesAreHeard`, whatever a menu sends. After edits
  that went astray a row is neither in order nor without overlaps. What is left
  of it is `Rules!PressedRow`: events in pairs, note-ons in order, and at most
  two of them at a column, the second of which was pressed onto the first after
  an edit to length 0 and has length 1, since edits only find the first. So a
  query fails no assertion, a press that finds no note enters its pair where it
  keeps all this (`PressedAdd`), and no row is longer than four events per
  column (`PressedLength`), which is why the pool lasts. `SystemInv` adds what
  travels on the queues.
- `MenuIsAllowed`: each step of the menu task is one of `SystemTask`'s or leaves
  it alone, because what it sends is within the limits (`MenuInv`).
- `EditsReachTheirNote`, `MenuIsRight` and `CareKeepsRows`, for the user of
  `CarefulSpec`. None is inductive. `CareInv` joins what they need of each
  other: one thing at a time is on its way (`OneAtATime`), `midiEventParams` is
  the note the grid has under its column and fits in front of the next
  (`ParamsAreTheNote`), and the menu shows it but for the value being turned or
  just sent (`MenuFollows`). An edit then goes to the note shown, keeps it clear
  of the next (`Rules!ShownUpdate`), and leaves a query of that column
  answering with the edited values, which closes the circle.

`StorageProofs` on `EspLittlefs`, for any tasks, names, heap and initial table
(`PortAssumption`: names are positive and finitely many, the table starts with a
slot): `TableStaysSound`, `StreamsMissNothing` and `DescriptorsStay`.

- `TableSound` is not inductive: that a free slot is found after growing, and
  that a file leaves the list when its descriptor is freed, need that no file is
  in two slots or twice in the list. `TableInv` says so, `GrowKeeps`,
  `AllocateKeeps` and `FreeKeeps` that the three operations on the table keep it
  and move no other slot. `OwnersInv` is about the set of usable descriptors,
  those not left over from a failed close, and `OwnersChange` says what one more
  or one less does to it, for a task or for a truncate under way.
- An open file stays because the search by name sees it (`BusyIsOpen`): in front
  of its slot lie fewer slots in use than `fd_count`.
- The stream: `StreamInv` says that the id it stands at is no greater than the
  id of any entry it still owes. An id is one more than the number of entries
  before it, so a creation or a removal moves the ids behind it by one
  (`IdsAfter`), which is by how much the stream moves (`StreamOverCreate`,
  `StreamOverDelete`); a rename is three such steps.

`GuiMenuProofs`, for any character set, length of names (two at least, the
prefix and a number), limits and announcements (`NameAssumption`,
`LimitsAssumption`), and any lists of fewer files than there are default names
(`UniqueIDAssumption`):
`MenuStaysSound` (`MenuSound`) and `NewNameIsFree` (`DefaultNameIsFree`).

- `IndicatorOnPage` says nothing while a changed page waits for its redraw.
  `MenuInv` adds what the redraw leaves (`PageShown`, whenever the flag is
  clear), that the name page is entered with a name only (`NamePageHasName`, so
  the redraw finds one), and that who types stands on a character of the name
  (`Typing`): so the wheel fills no hole, and one step to the right leaves none.
- The search starts again at the first file after every match. `Searched` says
  what it knows: every number below `uniqueID` was found in the list, and the
  files in front of `fileIdx` differ from the name. So where it ends the name is
  free and those below are taken. It does not give up, because each taken
  number has a file of its own (`NamesDiffer`) and there are too few files
  (`FewTaken`).

`BleClientProofs`, for any peripherals, uuids, sizes of pools, handles and lengths
of a stream: `DiscoveryStaysSound` (`DiscoverySound`) and `StreamStaysSound`
(`StreamSound`). `DatabasesAssumption` says that the handles of a peripheral
ascend, services one after another with their characteristics and descriptors
inside, which is what GATT requires of one.

- `DiscoverySound` is not inductive: success claims everything was found, and
  while the search goes on some of it is not. `PeerInv` says that what is known
  is at all times a beginning of the database and that the running procedure
  stands at its end (`FindingServices`, `FindingChrs`, `FindingDscs`); that the
  search for characteristics does not go back (`ServicesBefore`), and that
  the blocks of a pool are accounted for, so that none stands in two places
  (`OnePlace`) and taking one changes nothing else. When a procedure has nothing
  left to report, all it was to find is held (`ServiceLeft`, `ChrLeft`,
  `DscLeft`), and a characteristic the search for descriptors passes over has
  none (`NotBare`).
- The code walks lists of lists. `FlattenLaid` says where an item of a sequence
  of sequences laid end to end stands, so that these walks become positions. It
  is proved once, by `UpTo`: a set with 0 and the successor of each of its
  numbers has every number.
- `StreamSound` needs that `characteristic_0` and `characteristic_1` point at the
  target from when the first is found until the link goes (`HoldsTarget`,
  `LinkControl`), and that each answer of the peripheral gives back one turn
  (`AnswersCounted`). `ClientInv` adds this to `PeerInv`.

Only model-checked: liveness and `ENABLED`, which the provers do not handle, and
the modules with recursive operators (`LfsCtz`, `LfsFile`, `LfsPairs`, `LfsTree`
and what they implement), so that `BlocksSound` and `VolumeSound` rest on TLC.

## 6. Behaviours worth knowing

TLC, or the translation itself, showed these. Where a run is named, it is one
whose property is violated, with the finding in `PROJECT.json`. The others are
stated in the properties as exceptions, kept out by a named constant, or concern
operations nothing calls yet.

Grid and menu:

- `lost_note`: enter an edit, press another switch before confirming, confirm.
  The value meant for the first note is written to the second without regard
  for the note that follows; the row is out of order, and the next edit fails
  an assertion (`gridManager.c:1244`). Waiting for the screen avoids it.
- `switch_race`: a press in the window between the scanner's look at the flag and
  its clock edge is reported for the next column to be scanned;
  `switchMatrix.c:40-41` promises the one energized at the time of the interrupt.
- A duration of 0 can be dialled (`menuData.c:33`); the next press of the step
  adds a second note-on at its coordinate.
- `load_halts`: `freeAllGridData` asserts on the first empty row (`:968`,
  `genericDLL.c:151`), which stops every load and
  `gridManager_resetSequencerGrid`. Stretching the last note leaves
  `totalGridColumns` behind (`:375`); the duplicate check looks at the
  transposed coordinate (`:102`).
- A row is lit from edge to edge when its walk ends beyond the window behind a
  note-on (`:789` and after), also where no note is; `DarkWithoutNote` says
  exactly when.
- `delta_time_bytes`: a delta time of 192 ticks takes two bytes; `midiHelper.c:66`
  says one. The file would then be taken for corrupt.

BLE: `isConnectedToTargetDevice` and the characteristic pointers outlive the
connection; a write that is refused stalls the stream until the next request;
a request in the middle of a stream lets the old write's answer pace the new
one; a connection attempt or scan that the host refuses at once is not repeated,
nor is a terminate after a failed discovery, which leaves a connection without
characteristics until it breaks; a service with room for characteristics and none
is asked again for ever (`Discoverable` excludes it).

Files: a failed write leaves the file open, and the next operation halts; after
a failed `opendir` the name cache is empty, and the next write of an existing
file empties it first; after a failed scan there may be more files than rows.
In the port, a failed close leaks its descriptor and its path stays busy; a
seek that fails in `pread` and `pwrite` keeps the lock; a stream whose next
entry is removed cannot be read until it is rewound.

littlefs, file data (`LfsFile`):

- `lfs_truncate`: truncation to a block boundary looks up the block after it
  (`lfs.c:3536`), which becomes the head of the shortened file.
- `SeeksAtBlockEnd = TRUE` (with `ReadSizes = {6}`): a reader at the end of a
  block takes the shortcut of a seek (`:3490`) into the next one and reads on in
  the old one. `ImplementsByteFile` is then violated.
- `ProgSize = 2`: a block fails after its first line, at the boundary the file
  has reached; the relocation does not see a block of the uncommitted branch and
  may be handed it (`:3380`, `:4328`). `ImplementsByteFile` is then violated.

littlefs, tree (`LfsTree`):

- `LFS_ASSERT(pdir)` (`lfs.c:2032`) fails when a rename relocates its target
  pair and the pair before it holds nothing but the moved file. It is the
  action `Asserts`, after which the system starts again.
- `lfs_rename_power` (`CalmRenames = FALSE`): with power lost in a rename that
  relocates, the single pass of `lfs_fs_deorphan` takes a directory that is named
  only in the new half of a half-orphan for an orphan and drops it. Two
  relocations in one rename leave a half-orphan without the flag.
- `CalmRepairs = FALSE`: the allocator does not see what only the new half of a
  half-orphan leads to (`:4245`), and a repair that allocates may hand it out.
- `TiredWhenFull = TRUE`: a worn pair on a full volume is compacted in place but
  treated as moved, and the flag for orphans is not written.
- A commit that fails after a pair split off in it took the global state leaves
  the state in RAM wrong. With `BlockCount = 12` TLC finds it; with 16 no
  operation of these plans fails halfway for lack of space.

## 7. Not modelled

Formatting and drawing, SPI and I2C transfers, fonts, logging, the contents of
strings, allocation failures at start-up (they stop the device before any task
runs), the boards. Of littlefs: attributes, the byte layout of its log, and the
migration from format 1, which is compiled out. The greater part of the lines
in the repository that no module covers is not in the firmware: littlefs's
Python scripts and the emulated block devices of its tests, the host program
`mklittlefs` with a vendored command line parser, and tables of glyphs.
`PROJECT.json` gives the reason part by part.

## 8. Plan

1. `EspLittlefs`: registering and unregistering partitions while other tasks
   use them.
2. `LfsTree` on larger volumes, with two open files, and the composition of
   `LfsFile` with `LfsTree` (an inline file that is outlined by a commit to its
   directory).
