--------------------------- MODULE RotaryEncoders ---------------------------
(***************************************************************************)
(* The rotary encoders (rotaryEncoders.c). There is no task: everything    *)
(* happens in interrupt handlers, one per switch and one per phase pin,    *)
(* and in the alarm of a debounce timer that the two switches share. The   *)
(* handlers put events into one queue, from which the menu task reads.     *)
(*                                                                         *)
(* Environment: shafts, which move in quarter steps (contact bounce is     *)
(* moving back and forth), switches, whose contacts may bounce at any      *)
(* time, the timer peripheral, and the menu task.                          *)
(***************************************************************************)
EXTENDS Integers, Sequences

CONSTANTS
  Encoders,          \* encoder0_event, encoder1_event
  Turned,            \* the encoders whose shafts move
  EncoderCountPerRev,
  EncoderQueueSize

ASSUME EncodersAssumption == Turned \subseteq Encoders
ASSUME CountAssumption == EncoderCountPerRev \in Nat \ {0}
ASSUME QueueSizeAssumption == EncoderQueueSize \in Nat \ {0}

Encodings  == 0 .. 3         \* PHA1 PHA0
Directions == {"cw", "ccw"}
Events     == Encoders \X {"sw", "cw", "ccw"}

VARIABLES
  phase,      \* levels of an encoder's two phase pins
  pending,    \* edges its handler has not been run for
  previous,   \* encoder0_previousState, encoder1_previousState
  cwCount, ccwCount,
  waiting,    \* g_isWaitingForDebounceTimer
  timer,      \* "stopped", "running", or "stuck": started beyond its alarm
  rawCount,   \* "zero", or "alarm" once the alarm count was reached
  queue,      \* g_EncodersQueueHandle
  lead,       \* environment: quarter steps since the handler last ran
  climbed,    \* history: steps cw above the lowest position since the last event
  fallen,     \* history: steps ccw below the highest position since then
  unsure,     \* history: no event yet since the handler guessed the phase
  lastMove    \* history: which shaft moved last, and which way

shaftVars   == <<phase, lead, climbed, fallen, unsure, lastMove>>
decoderVars == <<previous, cwCount, ccwCount>>
timerVars   == <<waiting, timer, rawCount>>
knobVars == <<shaftVars, pending, decoderVars, timerVars, queue>>

-----------------------------------------------------------------------------
(* Clockwise, the phases run through 00, 01, 11, 10.                       *)
Clockwise(p) == CASE p = 0 -> 1 [] p = 1 -> 3 [] p = 3 -> 2 [] p = 2 -> 0

Step(d)     == IF d = "cw" THEN 1 ELSE -1
Opposite(d) == IF d = "cw" THEN "ccw" ELSE "cw"

(* xQueueSendToBackFromISR: an event that finds the queue full is lost.    *)
SendFromISR(event) ==
  queue' = IF Len(queue) < EncoderQueueSize THEN Append(queue, event) ELSE queue

-----------------------------------------------------------------------------
(* Environment.                                                            *)

(* Bounds of the model: the handler runs before the shaft is two quarter   *)
(* steps away from where it was seen last (microseconds against            *)
(* milliseconds), and the histories saturate above a full turn.            *)
MaxLead == 1
Far     == EncoderCountPerRev + 2

Bounded(n) == IF n < 0 THEN 0 ELSE IF n > Far THEN Far ELSE n

Turn(e, d) ==
  /\ lead[e] + Step(d) \in -MaxLead .. MaxLead
  /\ \E p \in Encodings :
       /\ IF d = "cw" THEN p = Clockwise(phase[e]) ELSE phase[e] = Clockwise(p)
       /\ phase' = [phase EXCEPT ![e] = p]
  /\ pending' = [pending EXCEPT ![e] = TRUE]
  /\ lead' = [lead EXCEPT ![e] = @ + Step(d)]
  /\ climbed' = [climbed EXCEPT ![e] = Bounded(@ + Step(d))]
  /\ fallen' = [fallen EXCEPT ![e] = Bounded(@ - Step(d))]
  /\ lastMove' = <<e, d>>
  /\ UNCHANGED <<unsure, decoderVars, timerVars, queue>>

(* guiMenu's xQueueReceive.                                                *)
Receive ==
  /\ queue # <<>>
  /\ queue' = Tail(queue)
  /\ UNCHANGED <<shaftVars, pending, decoderVars, timerVars>>

-----------------------------------------------------------------------------
(* encoderPositionChange_ISR. A change of both phases at once counts for   *)
(* neither direction and resets neither count.                             *)

Moved(e, d) ==
  IF d = "cw" THEN phase[e] = Clockwise(previous[e])
              ELSE previous[e] = Clockwise(phase[e])

(* Mutant: the count of the other direction is kept.                       *)
CountedKeepsOther(e, d) ==
  LET n == IF d = "cw" THEN cwCount[e] ELSE ccwCount[e]
  IN CASE Moved(e, d) -> n + 1 [] OTHER -> n

Counted(e, d) ==
  LET n == IF d = "cw" THEN cwCount[e] ELSE ccwCount[e]
  IN CASE Moved(e, d)           -> n + 1
       [] Moved(e, Opposite(d)) -> 0
       [] OTHER                 -> n

Reached(e, d) == Counted(e, d) >= EncoderCountPerRev

SendTurn(e, d) ==
  /\ Reached(e, d)
  /\ d = "ccw" => ~Reached(e, "cw")
  /\ SendFromISR(<<e, d>>)
  /\ cwCount'  = [cwCount EXCEPT ![e] = IF d = "cw" THEN 0 ELSE Counted(e, "cw")]
  /\ ccwCount' = [ccwCount EXCEPT ![e] = IF d = "ccw" THEN 0 ELSE Counted(e, "ccw")]
  /\ climbed'  = [climbed EXCEPT ![e] = 0]
  /\ fallen'   = [fallen EXCEPT ![e] = 0]
  /\ unsure'   = [unsure EXCEPT ![e] = FALSE]

(* Mutant: the counts are cleared whether or not an event was sent.        *)
NoTurnYetClears(e) ==
  /\ ~Reached(e, "cw") /\ ~Reached(e, "ccw")
  /\ cwCount'  = [cwCount EXCEPT ![e] = 0]
  /\ ccwCount' = [ccwCount EXCEPT ![e] = 0]
  /\ UNCHANGED <<queue, climbed, fallen, unsure>>

NoTurnYet(e) ==
  /\ ~Reached(e, "cw") /\ ~Reached(e, "ccw")
  /\ cwCount'  = [cwCount EXCEPT ![e] = Counted(e, "cw")]
  /\ ccwCount' = [ccwCount EXCEPT ![e] = Counted(e, "ccw")]
  /\ UNCHANGED <<queue, climbed, fallen, unsure>>

(* The two pins are read one after the other; the shaft moves one of them  *)
(* at a time, so the reading is the phase before or after the step, and a  *)
(* step behind the first read leaves an edge pending.                      *)
PositionChange(e) ==
  /\ pending[e]
  /\ (\E d \in Directions : SendTurn(e, d)) \/ NoTurnYet(e)
  /\ pending'  = [pending EXCEPT ![e] = FALSE]
  /\ previous' = [previous EXCEPT ![e] = phase[e]]
  /\ lead'     = [lead EXCEPT ![e] = 0]
  /\ UNCHANGED <<phase, lastMove, timerVars>>

-----------------------------------------------------------------------------
(* encoderSwitchEvent_ISR: an edge of either switch, bouncing or not, is   *)
(* ignored until the timer started by the last one is through.             *)
SwitchEvent(e) ==
  /\ ~waiting
  /\ SendFromISR(<<e, "sw">>)
  /\ waiting' = TRUE
  /\ timer' = IF rawCount = "zero" THEN "running" ELSE "stuck"
  /\ UNCHANGED <<rawCount, shaftVars, pending, decoderVars>>

(* Mutant: the raw count is left where it is. The alarm compares for       *)
(* equality, and a count that starts beyond it does not reach it.          *)
AlarmKeepsCount ==
  /\ timer = "running"
  /\ timer' = "stopped"
  /\ rawCount' = "alarm"
  /\ waiting' = FALSE
  /\ UNCHANGED <<shaftVars, pending, decoderVars, queue>>

(* alarmISR                                                                *)
Alarm ==
  /\ timer = "running"
  /\ timer' = "stopped"
  /\ rawCount' = "zero"
  /\ waiting' = FALSE
  /\ UNCHANGED <<shaftVars, pending, decoderVars, queue>>

-----------------------------------------------------------------------------
(* The handler takes the shaft to be at 00 when the device starts.         *)
KnobsInit ==
  /\ phase \in [Encoders -> Encodings]
  /\ pending  = [e \in Encoders |-> FALSE]
  /\ previous = [e \in Encoders |-> 0]
  /\ cwCount  = [e \in Encoders |-> 0]
  /\ ccwCount = [e \in Encoders |-> 0]
  /\ waiting = FALSE /\ timer = "stopped" /\ rawCount = "zero"
  /\ queue = <<>>
  /\ lead = [e \in Encoders |-> 0]
  /\ climbed = [e \in Encoders |-> 0]
  /\ fallen  = [e \in Encoders |-> 0]
  /\ unsure  = [e \in Encoders |-> phase[e] # 0]
  /\ lastMove \in Encoders \X Directions

KnobsNext ==
  \/ \E e \in Turned, d \in Directions : Turn(e, d)
  \/ \E e \in Encoders : PositionChange(e) \/ SwitchEvent(e)
  \/ Alarm
  \/ Receive

KnobsSpec == KnobsInit /\ [][KnobsNext]_knobVars

(* A pending interrupt is served, a started timer reaches its alarm, and   *)
(* the menu task, which never blocks for ever, empties the queue.          *)
KnobsFairSpec ==
  /\ KnobsSpec
  /\ \A e \in Encoders : WF_knobVars(PositionChange(e))
  /\ WF_knobVars(Alarm)
  /\ WF_knobVars(Receive)

-----------------------------------------------------------------------------
KnobsTypeOK ==
  /\ phase \in [Encoders -> Encodings]
  /\ pending \in [Encoders -> BOOLEAN]
  /\ previous \in [Encoders -> Encodings]
  /\ cwCount \in [Encoders -> 0 .. EncoderCountPerRev - 1]
  /\ ccwCount \in [Encoders -> 0 .. EncoderCountPerRev - 1]
  /\ waiting \in BOOLEAN
  /\ timer \in {"stopped", "running", "stuck"}
  /\ rawCount \in {"zero", "alarm"}
  /\ queue \in Seq(Events)
  /\ Len(queue) <= EncoderQueueSize
  /\ lead \in [Encoders -> -MaxLead .. MaxLead]
  /\ climbed \in [Encoders -> 0 .. Far]
  /\ fallen \in [Encoders -> 0 .. Far]
  /\ unsure \in [Encoders -> BOOLEAN]
  /\ lastMove \in Encoders \X Directions

(* A turn reported to the menu was made: the shaft has come a full count   *)
(* of quarter steps in the direction reported from where it stood at some  *)
(* time since the encoder's last event, however it bounced on the way and  *)
(* whenever the handler got to read it. At power-up the handler guesses    *)
(* the phase, and the first event may come a quarter step early.           *)
Gained(e, d) ==
  (IF d = "cw" THEN climbed[e] ELSE fallen[e]) + (IF unsure[e] THEN 1 ELSE 0)

TurnsAreReal ==
  [][\A e \in Encoders, d \in Directions :
       queue' = Append(queue, <<e, d>>) => Gained(e, d) >= EncoderCountPerRev]_knobVars

(* A shaft that is turned on and on in one direction, with nothing else    *)
(* happening, is reported again and again, whatever was counted, missed or *)
(* dropped before.                                                         *)
SteadyTurnHeard ==
  \A e \in Turned, d \in Directions :
    (<>[](lastMove = <<e, d>> /\ ~waiting) /\ \A p \in Encodings : []<>(phase[e] = p))
      => []<>(\E i \in DOMAIN queue : queue[i] = <<e, d>>)

(* After a press the switches of both encoders are listened to again.      *)
PressesHeardAgain == waiting ~> ~waiting
=============================================================================
