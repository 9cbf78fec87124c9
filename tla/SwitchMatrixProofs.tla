------------------------- MODULE SwitchMatrixProofs -------------------------
(***************************************************************************)
(* Proofs about the switch matrix, for any number of columns and rows and  *)
(* any queue length.                                                       *)
(***************************************************************************)
EXTENDS SwitchMatrix, TLAPS

USE StartColumnAssumption, QueueLengthAssumption

(* The decrement stays within the columns, and undoes one clock of the     *)
(* counter.                                                                *)
LEMMA PredType == \A c \in MatrixColumns : Pred(c) \in MatrixColumns
  BY DEF MatrixColumns, Pred

LEMMA EnergizedType == \A q \in MatrixColumns : Energized(q) \in MatrixColumns
  BY DEF MatrixColumns, Energized

LEMMA ClockIsPred ==
  \A q \in MatrixColumns :
    /\ (q + 1) % (StartColumn + 1) \in MatrixColumns
    /\ Energized((q + 1) % (StartColumn + 1)) = Pred(Energized(q))
<1> SUFFICES ASSUME NEW q \in MatrixColumns
             PROVE  /\ (q + 1) % (StartColumn + 1) \in MatrixColumns
                    /\ Energized((q + 1) % (StartColumn + 1)) = Pred(Energized(q))
  OBVIOUS
<1>1. CASE q = StartColumn
  <2>1. (q + 1) % (StartColumn + 1) = 0
    BY <1>1
  <2> QED
    BY <2>1, <1>1 DEF MatrixColumns, Energized, Pred
<1>2. CASE q < StartColumn
  <2>1. (q + 1) % (StartColumn + 1) = q + 1
    BY <1>2 DEF MatrixColumns
  <2> QED
    BY <2>1, <1>2 DEF MatrixColumns, Energized, Pred
<1> QED
  BY <1>1, <1>2 DEF MatrixColumns

-----------------------------------------------------------------------------
(* What an interrupt leaves behind: a flag that was set stays, and a flag  *)
(* that gets set was latched from the counter as it now stands.            *)
LEMMA InterruptEffect ==
  ASSUME ScanTypeOK, Interrupt, counter' \in MatrixColumns
  PROVE  /\ flag' \in BOOLEAN /\ isrRow' \in IsrRows /\ latched' \in Latches
         /\ \/ UNCHANGED isrVars
            \/ /\ ~flag /\ flag'
               /\ latched' = [col |-> Energized(counter'), phase |-> Phase(scanPc')]
<1>1. CASE UNCHANGED isrVars
  BY <1>1 DEF ScanTypeOK, isrVars
<1>2. ASSUME ~flag, flag' = TRUE, NEW r \in RisingRows,
             isrRow' = r,
             latched' = [col |-> Energized(counter'), phase |-> Phase(scanPc')]
      PROVE  /\ flag' \in BOOLEAN /\ isrRow' \in IsrRows /\ latched' \in Latches
             /\ ~flag /\ flag'
             /\ latched' = [col |-> Energized(counter'), phase |-> Phase(scanPc')]
  BY <1>2, EnergizedType DEF RisingRows, Latches, Phases, Phase
<1> QED
  BY <1>1, <1>2 DEF Interrupt

-----------------------------------------------------------------------------
LEMMA TypeInit == ScanInit => ScanTypeOK
<1> SUFFICES ASSUME ScanInit PROVE ScanTypeOK
  OBVIOUS
<1>1. StartColumn \in MatrixColumns
  BY DEF MatrixColumns
<1>2. NoLatch \in Latches
  BY <1>1 DEF NoLatch, Latches, Phases
<1>3. scanQueue \in Seq(Keys) /\ Len(scanQueue) <= QueueLength
  BY DEF ScanInit
<1>4. switchEvent \in [row : IsrRows, from : Latches]
  BY <1>2 DEF ScanInit
<1> QED
  BY <1>1, <1>2, <1>3, <1>4 DEF ScanInit, ScanTypeOK

LEMMA TypeNext == ScanTypeOK /\ [ScanNext]_scanVars => ScanTypeOK'
<1> SUFFICES ASSUME ScanTypeOK, [ScanNext]_scanVars PROVE ScanTypeOK'
  OBVIOUS
<1> USE DEF ScanTypeOK, isrVars, taskVars
<1>1. CASE ResetCounter
  <2>1. counter' \in MatrixColumns
    BY <1>1 DEF ResetCounter, MatrixColumns
  <2> QED
    BY <1>1, <2>1, InterruptEffect DEF ResetCounter
<1>2. CASE ReadFlag
  BY <1>2 DEF ReadFlag
<1>3. CASE ClearFlag
  BY <1>3 DEF ClearFlag
<1>4. CASE SendEvent
  <2>1. [row |-> switchEvent.row, col |-> currentColumn] \in Keys
    BY DEF Keys
  <2> QED
    BY <1>4, <2>1 DEF SendEvent
<1>5. CASE ClockHigh
  <2>1. counter' \in MatrixColumns
    BY <1>5, ClockIsPred DEF ClockHigh
  <2> QED
    BY <1>5, <2>1, InterruptEffect DEF ClockHigh
<1>6. CASE FinishScan
  BY <1>6, PredType DEF FinishScan
<1>7. CASE SystemReceive
  BY <1>7 DEF SystemReceive
<1>8. ASSUME NEW k \in Keys, PressKey(k) PROVE ScanTypeOK'
  BY <1>8, InterruptEffect DEF PressKey
<1>9. ASSUME NEW k \in Keys, ReleaseKey(k) PROVE ScanTypeOK'
  BY <1>9 DEF ReleaseKey
<1>10. CASE UNCHANGED scanVars
  BY <1>10 DEF scanVars
<1> QED
  BY <1>1, <1>2, <1>3, <1>4, <1>5, <1>6, <1>7, <1>8, <1>9, <1>10 DEF ScanNext, Task

(* The task only ever reports switches the matrix has, and never queues    *)
(* more events than the queue holds.                                       *)
THEOREM TypeCorrect == ScanSpec => []ScanTypeOK
  BY TypeInit, TypeNext, PTL DEF ScanSpec

-----------------------------------------------------------------------------
(* Where the column stored by the handler stands relative to the task's    *)
(* copy, at each point of the task's loop. A column latched while the task *)
(* slept or looked at the flag is current until the task moves on; one     *)
(* latched later in the loop is found after the next decrement.            *)
SetupColumn == scanPc = "setup" => currentColumn = StartColumn

LatchedFollows ==
  flag =>
    /\ latched.phase = "settled" =>
         /\ scanPc \in {"scan", "clear"} => latched.col = currentColumn
         /\ scanPc = "delay" => latched.col = Pred(currentColumn)
         /\ scanPc \in {"delay", "scan", "clear"}
    /\ latched.phase = "race" =>
         /\ scanPc \in {"send", "clock", "delay"} => latched.col = currentColumn
         /\ scanPc \in {"scan", "clear"} => currentColumn = Pred(latched.col)
         /\ scanPc # "setup"

ItemFollows ==
  scanPc \in {"clear", "send"} =>
    /\ switchEvent.from.phase = "settled" => switchEvent.from.col = currentColumn
    /\ switchEvent.from.phase = "race"    => currentColumn = Pred(switchEvent.from.col)

(* No handler runs to effect between the task's look at the flag and the   *)
(* moment it clears it.                                                    *)
FlagHeld == scanPc = "clear" => flag

IInv ==
  /\ ScanTypeOK
  /\ SetupColumn
  /\ ColumnFollowsCounter
  /\ FlagHeld
  /\ LatchedFollows
  /\ ItemFollows

(* The steps in which the handler may run leave the task's column and item *)
(* alone, and keep what IInv says of a column latched by the handler.      *)
LEMMA InterruptKeepsLatch ==
  ASSUME ScanTypeOK, Interrupt, counter' \in MatrixColumns,
         scanPc' \in {"setup", "scan", "clear", "send", "clock", "delay"},
         scanPc' = "clear" => flag,
         currentColumn' = currentColumn,
         ColumnFollowsCounter',
         flag /\ UNCHANGED isrVars => LatchedFollows'
  PROVE  LatchedFollows'
<1>1. CASE UNCHANGED isrVars
  BY <1>1 DEF LatchedFollows, isrVars
<1>2. CASE /\ ~flag /\ flag'
           /\ latched' = [col |-> Energized(counter'), phase |-> Phase(scanPc')]
  <2>1. latched'.col = Energized(counter') /\ latched'.phase = Phase(scanPc')
    BY <1>2
  <2>2. Phase(scanPc') = "settled" => scanPc' \in {"delay", "scan"}
    BY DEF Phase
  <2>3. Phase(scanPc') = "race" => scanPc' \in {"send", "clock"}
    BY <1>2 DEF Phase
  <2> QED
    BY <2>1, <2>2, <2>3 DEF LatchedFollows, ColumnFollowsCounter
<1> QED
  BY <1>1, <1>2, InterruptEffect

LEMMA InitIInv == ScanInit => IInv
<1> SUFFICES ASSUME ScanInit PROVE IInv
  OBVIOUS
<1>1. ScanTypeOK
  BY TypeInit
<1> QED
  BY <1>1 DEF ScanInit, IInv, SetupColumn, ColumnFollowsCounter, FlagHeld,
              LatchedFollows, ItemFollows, NoLatch

LEMMA NextIInv == IInv /\ [ScanNext]_scanVars => IInv'
<1> SUFFICES ASSUME IInv, [ScanNext]_scanVars PROVE IInv'
  OBVIOUS
<1>t. ScanTypeOK'
  BY TypeNext DEF IInv
<1> USE <1>t DEF IInv, isrVars, taskVars
<1>1. CASE ResetCounter
  <2>1. Energized(0) = StartColumn
    BY DEF Energized
  <2>2. ColumnFollowsCounter' /\ SetupColumn' /\ FlagHeld' /\ ItemFollows'
    BY <1>1, <2>1 DEF ResetCounter, SetupColumn, ColumnFollowsCounter,
                      FlagHeld, ItemFollows
  <2>3. LatchedFollows'
    BY <1>1, <2>2, InterruptKeepsLatch DEF ResetCounter, LatchedFollows, ScanTypeOK
  <2> QED
    BY <2>2, <2>3
<1>2. CASE ReadFlag
  BY <1>2 DEF ReadFlag, ScanTypeOK, SetupColumn, ColumnFollowsCounter,
              FlagHeld, LatchedFollows, ItemFollows
<1>3. CASE ClearFlag
  BY <1>3 DEF ClearFlag, SetupColumn, ColumnFollowsCounter,
              FlagHeld, LatchedFollows, ItemFollows
<1>4. CASE SendEvent
  BY <1>4 DEF SendEvent, SetupColumn, ColumnFollowsCounter,
              FlagHeld, LatchedFollows, ItemFollows
<1>5. CASE ClockHigh
  <2>1. Energized(counter') = Pred(Energized(counter))
    BY <1>5, ClockIsPred DEF ClockHigh, ScanTypeOK
  <2>2. ColumnFollowsCounter' /\ SetupColumn' /\ FlagHeld' /\ ItemFollows'
    BY <1>5, <2>1 DEF ClockHigh, SetupColumn, ColumnFollowsCounter, FlagHeld, ItemFollows
  <2>3. LatchedFollows'
    BY <1>5, <2>2, InterruptKeepsLatch DEF ClockHigh, LatchedFollows, ScanTypeOK
  <2> QED
    BY <2>2, <2>3
<1>6. CASE FinishScan
  BY <1>6 DEF FinishScan, SetupColumn, ColumnFollowsCounter,
              FlagHeld, LatchedFollows, ItemFollows
<1>7. CASE SystemReceive
  BY <1>7 DEF SystemReceive, SetupColumn, ColumnFollowsCounter,
              FlagHeld, LatchedFollows, ItemFollows
<1>8. ASSUME NEW k \in Keys, PressKey(k) PROVE IInv'
  <2>1. ColumnFollowsCounter' /\ SetupColumn' /\ ItemFollows'
    BY <1>8 DEF PressKey, SetupColumn, ColumnFollowsCounter, ItemFollows
  <2>2. FlagHeld'
    BY <1>8 DEF PressKey, FlagHeld, Interrupt
  <2>3. LatchedFollows'
    BY <1>8, <2>1, InterruptKeepsLatch DEF PressKey, FlagHeld, LatchedFollows, ScanTypeOK
  <2> QED
    BY <2>1, <2>2, <2>3
<1>9. ASSUME NEW k \in Keys, ReleaseKey(k) PROVE IInv'
  BY <1>9 DEF ReleaseKey, SetupColumn, ColumnFollowsCounter,
              FlagHeld, LatchedFollows, ItemFollows
<1>10. CASE UNCHANGED scanVars
  BY <1>10 DEF scanVars, SetupColumn, ColumnFollowsCounter,
               FlagHeld, LatchedFollows, ItemFollows
<1> QED
  BY <1>1, <1>2, <1>3, <1>4, <1>5, <1>6, <1>7, <1>8, <1>9, <1>10 DEF ScanNext, Task

(* The task's copy of the column follows the external counter for ever,    *)
(* although it never reads it back.                                        *)
THEOREM ColumnAlwaysFollowsCounter == ScanSpec => []ColumnFollowsCounter
<1>1. IInv => ColumnFollowsCounter
  BY DEF IInv
<1> QED
  BY <1>1, InitIInv, NextIInv, PTL DEF ScanSpec

(* What the task reports for an interrupt is right if the handler ran in   *)
(* the scan delay, and no more than one column off wherever it ran.        *)
THEOREM ReportedColumnKnown == ScanSpec => []ReportedColumn
<1>1. IInv => ReportedColumn
  BY DEF IInv, ItemFollows, ReportedColumn
<1> QED
  BY <1>1, InitIInv, NextIInv, PTL DEF ScanSpec
=============================================================================
