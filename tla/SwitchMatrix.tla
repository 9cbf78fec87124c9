---------------------------- MODULE SwitchMatrix ----------------------------
(***************************************************************************)
(* The switch matrix component: a task that scans one column of switches   *)
(* per 30 ms by clocking an external decade counter, an interrupt handler  *)
(* that remembers the row of a rising edge, and the bounded queue by which *)
(* the task reports presses to the system task.                            *)
(*                                                                         *)
(* The task and the handler share g_switchEventFlagISR and                 *)
(* g_switchEventRowNumISR without a lock, and nothing stores the column:   *)
(* it is rebuilt from the task's own copy of the counter when the event is *)
(* sent, up to a scan period after the interrupt.                          *)
(***************************************************************************)
EXTENDS Integers, Sequences

CONSTANTS
  StartColumn,  \* KEY_MATRIX_START_COLUMN, the column wired to output Q0
  IsrRows,      \* rows whose input pin has an interrupt handler
  QueueLength   \* SWITCH_MATRIX_QUEUE_NUM_ITEMS

ASSUME StartColumnAssumption == StartColumn \in Nat \ {0}
ASSUME QueueLengthAssumption == QueueLength \in Nat \ {0}

MatrixColumns == 0 .. StartColumn
Keys == [row : IsrRows, col : MatrixColumns]

VARIABLES
  scanPc,         \* where the task stands in its loop
  currentColumn,  \* the task's copy of the energized column
  counter,        \* index of the energized output of the decade counter
  flag,           \* g_switchEventFlagISR
  isrRow,         \* g_switchEventRowNumISR
  switchEvent,    \* SwitchEventQueueItem being prepared by the task
  scanQueue,      \* g_SwitchMatrixQueueHandle
  held,           \* the switches that are down
  latched         \* history: where and when the handler stored isrRow

taskVars == <<scanPc, currentColumn, switchEvent>>
isrVars  == <<flag, isrRow, latched>>
scanVars ==
  <<scanPc, currentColumn, counter, flag, isrRow, switchEvent, scanQueue, held, latched>>

-----------------------------------------------------------------------------
(* Outputs Q0, Q1, ... of the counter drive columns StartColumn, ...        *)
(* downwards, so the columns are scanned from right to left.               *)
Energized(q) == StartColumn - q

(* Mutant: the wrap is tested one column early.                            *)
PredWrapsEarly(c) == IF c > 1 THEN c - 1 ELSE StartColumn

(* The task's decrement of currentColumn, which wraps to the start column. *)
Pred(c) == IF c > 0 THEN c - 1 ELSE StartColumn

(* An input row is high while a switch of the energized column is down.    *)
RowHigh(r, keys, q) == \E k \in keys : k.row = r /\ k.col = Energized(q)

RisingRows ==
  {r \in IsrRows : ~RowHigh(r, held, counter) /\ RowHigh(r, held', counter')}

(* History only: where the task stood when the handler ran.                *)
Phase(p) == CASE p = "setup"             -> "setup"
              [] p \in {"delay", "scan"} -> "settled"
              [] OTHER                   -> "race"

(* switchMatrixKeyPress_ISR runs at the rising edge. With several edges at *)
(* once the first handler to run wins; with the flag still set, none does. *)
Interrupt ==
  \/ /\ ~flag
     /\ \E r \in RisingRows :
          /\ isrRow' = r
          /\ latched' = [col |-> Energized(counter'), phase |-> Phase(scanPc')]
     /\ flag' = TRUE
  \/ /\ flag \/ RisingRows = {}
     /\ UNCHANGED isrVars

-----------------------------------------------------------------------------
(* Environment: fingers, and the system task taking events off the queue.  *)

PressKey(k) ==
  /\ k \notin held
  /\ held' = held \cup {k}
  /\ UNCHANGED <<taskVars, counter, scanQueue>>
  /\ Interrupt

ReleaseKey(k) ==
  /\ k \in held
  /\ held' = held \ {k}
  /\ UNCHANGED <<taskVars, counter, scanQueue, isrVars>>

SystemReceive ==
  /\ scanQueue # <<>>
  /\ scanQueue' = Tail(scanQueue)
  /\ UNCHANGED <<taskVars, counter, held, isrVars>>

-----------------------------------------------------------------------------
(* The task. Setup registers the handler before it resets the counter.     *)

ResetCounter ==
  /\ scanPc = "setup"
  /\ counter' = 0
  /\ scanPc' = "scan"
  /\ UNCHANGED <<currentColumn, switchEvent, scanQueue, held>>
  /\ Interrupt

ReadFlag ==
  /\ scanPc = "scan"
  /\ IF flag THEN /\ switchEvent' = [row |-> isrRow, from |-> latched]
                  /\ scanPc' = "clear"
             ELSE /\ scanPc' = "clock"
                  /\ UNCHANGED switchEvent
  /\ UNCHANGED <<currentColumn, counter, scanQueue, held, isrVars>>

(* Mutant: the flag is not reset.                                          *)
ClearFlagForgotten ==
  /\ scanPc = "clear"
  /\ scanPc' = "send"
  /\ UNCHANGED <<currentColumn, counter, flag, switchEvent, scanQueue, held, isrRow, latched>>

ClearFlag ==
  /\ scanPc = "clear"
  /\ flag' = FALSE
  /\ scanPc' = "send"
  /\ UNCHANGED <<currentColumn, counter, switchEvent, scanQueue, held, isrRow, latched>>

SendEventKeepsSlot ==
  /\ scanPc = "send"
  /\ scanQueue' = IF Len(scanQueue) < QueueLength - 1
                    THEN Append(scanQueue, [row |-> switchEvent.row, col |-> currentColumn])
                    ELSE scanQueue
  /\ scanPc' = "clock"
  /\ UNCHANGED <<currentColumn, counter, switchEvent, held, isrVars>>

(* xQueueSend with no wait: an event that finds the queue full is lost.    *)
SendEvent ==
  /\ scanPc = "send"
  /\ scanQueue' = IF Len(scanQueue) < QueueLength
                    THEN Append(scanQueue, [row |-> switchEvent.row, col |-> currentColumn])
                    ELSE scanQueue
  /\ scanPc' = "clock"
  /\ UNCHANGED <<currentColumn, counter, switchEvent, held, isrVars>>

(* The rising clock edge moves the counter to the next column; output      *)
(* StartColumn + 1 is wired to the counter's reset.                        *)
ClockHigh ==
  /\ scanPc = "clock"
  /\ counter' = (counter + 1) % (StartColumn + 1)
  /\ scanPc' = "delay"
  /\ UNCHANGED <<currentColumn, switchEvent, scanQueue, held>>
  /\ Interrupt

FinishScan ==
  /\ scanPc = "delay"
  /\ currentColumn' = Pred(currentColumn)
  /\ scanPc' = "scan"
  /\ UNCHANGED <<counter, switchEvent, scanQueue, held, isrVars>>

Task == ResetCounter \/ ReadFlag \/ ClearFlag \/ SendEvent \/ ClockHigh \/ FinishScan

-----------------------------------------------------------------------------
(* The counter powers up in an unknown position. No switch is down yet.    *)
NoLatch == [col |-> StartColumn, phase |-> "setup"]

ScanInit ==
  /\ scanPc = "setup"
  /\ currentColumn = StartColumn
  /\ counter \in MatrixColumns
  /\ flag = FALSE
  /\ isrRow \in IsrRows
  /\ switchEvent = [row |-> isrRow, from |-> NoLatch]
  /\ scanQueue = <<>>
  /\ held = {}
  /\ latched = NoLatch

ScanNext ==
  \/ Task
  \/ SystemReceive
  \/ \E k \in Keys : PressKey(k) \/ ReleaseKey(k)

ScanSpec == ScanInit /\ [][ScanNext]_scanVars

(* Every task of core 0 blocks in vTaskDelay once per loop, so the scanner *)
(* and the system task both keep running; fingers owe nothing.             *)
ScanFairSpec == ScanSpec /\ WF_scanVars(Task) /\ WF_scanVars(SystemReceive)

-----------------------------------------------------------------------------
Phases == {"setup", "settled", "race"}
Latches == [col : MatrixColumns, phase : Phases]

(* Types of the state.                                                     *)
ScanTypeOK ==
  /\ scanPc \in {"setup", "scan", "clear", "send", "clock", "delay"}
  /\ currentColumn \in MatrixColumns
  /\ counter \in MatrixColumns
  /\ flag \in BOOLEAN
  /\ isrRow \in IsrRows
  /\ switchEvent \in [row : IsrRows, from : Latches]
  /\ scanQueue \in Seq(Keys)
  /\ Len(scanQueue) <= QueueLength
  /\ held \in SUBSET Keys
  /\ latched \in Latches

(* The column the task is about to report for an interrupt is the one the  *)
(* handler ran under if it ran between a clock edge and the task's next    *)
(* look at the flag, and the event is never a scan older than that: no     *)
(* interrupt is reported more than one column from where it happened.      *)
ReportedColumn ==
  scanPc = "send" =>
    /\ switchEvent.from.phase = "settled" => currentColumn = switchEvent.from.col
    /\ switchEvent.from.phase = "race" =>
         currentColumn \in {switchEvent.from.col, Pred(switchEvent.from.col)}

(* What the comment over the task says (switchMatrix.c:40-41): the row of  *)
(* the interrupt goes with the column number "currently energized at time  *)
(* of interrupt".                                                          *)
EnergizedColumnReported ==
  scanPc = "send" /\ switchEvent.from.phase # "setup" => currentColumn = switchEvent.from.col

(* The counter is never read back: the task's copy follows it open loop    *)
(* ("the system must always know which output is energized").              *)
ColumnFollowsCounter ==
  /\ scanPc \notin {"setup", "delay"} => currentColumn = Energized(counter)
  /\ scanPc = "delay" => Pred(currentColumn) = Energized(counter)

(* A switch held down alone is reported again and again, whatever was      *)
(* dropped on a full queue or masked by other switches before.             *)
HeldKeyReported ==
  \A k \in Keys :
    <>[](held = {k}) => []<>(\E i \in DOMAIN scanQueue : scanQueue[i] = k)
=============================================================================
