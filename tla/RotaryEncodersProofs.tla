------------------------ MODULE RotaryEncodersProofs ------------------------
(***************************************************************************)
(* Every turn reported to the menu was made, for any number of encoders,   *)
(* any count per turn and any queue: the argument is that an encoder's     *)
(* count never exceeds the distance its shaft has come in that direction,  *)
(* up to the last time the handler looked.                                 *)
(***************************************************************************)
EXTENDS RotaryEncoders, TLAPS

USE EncodersAssumption, CountAssumption, QueueSizeAssumption

(* Types of what the counts depend on.                                     *)
DecoderTypeOK ==
  /\ phase \in [Encoders -> Encodings]
  /\ previous \in [Encoders -> Encodings]
  /\ cwCount \in [Encoders -> 0 .. EncoderCountPerRev - 1]
  /\ ccwCount \in [Encoders -> 0 .. EncoderCountPerRev - 1]
  /\ lead \in [Encoders -> -1 .. 1]
  /\ climbed \in [Encoders -> 0 .. Far]
  /\ fallen \in [Encoders -> 0 .. Far]
  /\ unsure \in [Encoders -> BOOLEAN]

(* The handler's phase is the shaft's, lead steps behind.                  *)
Aligned(e) ==
  /\ lead[e] = 1  => phase[e] = Clockwise(previous[e])
  /\ lead[e] = 0  => phase[e] = previous[e]
  /\ lead[e] = -1 => previous[e] = Clockwise(phase[e])

Slack(e) == IF unsure[e] THEN 1 ELSE 0

(* The strengthening: counts are backed by steps made. Until its first run *)
(* the handler may be wrong about the phase, but has counted nothing.      *)
Backed(e) ==
  /\ Aligned(e) \/ (unsure[e] /\ cwCount[e] = 0 /\ ccwCount[e] = 0)
  /\ cwCount[e]  <= climbed[e] - lead[e] + Slack(e)
  /\ ccwCount[e] <= fallen[e] + lead[e] + Slack(e)

IInv == DecoderTypeOK /\ \A e \in Encoders : Backed(e)

(* The clockwise order is a cycle of the four phases.                      *)
LEMMA ClockwiseCycle ==
  /\ \A p \in Encodings : Clockwise(p) \in Encodings /\ Clockwise(p) # p
  /\ \A p, q \in Encodings : Clockwise(p) = Clockwise(q) => p = q
  /\ \A p, q \in Encodings : ~(Clockwise(p) = q /\ Clockwise(q) = p)
<1>1. Clockwise(0) = 1 /\ Clockwise(1) = 3 /\ Clockwise(3) = 2 /\ Clockwise(2) = 0
  BY DEF Clockwise
<1>2. Encodings = {0, 1, 2, 3}
  BY DEF Encodings
<1> QED
  BY <1>1, <1>2

(* The invariant holds at power-up, whatever phase the shafts are in.      *)
LEMMA InitBacked == KnobsInit => IInv
<1> SUFFICES ASSUME KnobsInit PROVE IInv
  OBVIOUS
<1>1. DecoderTypeOK
  BY DEF KnobsInit, DecoderTypeOK, Encodings, Far
<1>2. ASSUME NEW e \in Encoders PROVE Backed(e)
  <2>1. /\ lead[e] = 0 /\ previous[e] = 0 /\ cwCount[e] = 0 /\ ccwCount[e] = 0
        /\ climbed[e] = 0 /\ fallen[e] = 0
    BY <1>2 DEF KnobsInit
  <2>2. Aligned(e) \/ unsure[e]
    <3>1. CASE phase[e] = 0
      BY <2>1, <3>1 DEF Aligned
    <3>2. CASE phase[e] # 0
      BY <1>2, <3>2, Zenon DEF KnobsInit
    <3> QED
      BY <3>1, <3>2
  <2>3. Slack(e) \in {0, 1}
    BY DEF Slack
  <2> QED
    BY <2>1, <2>2, <2>3 DEF Backed
<1> QED
  BY <1>1, <1>2 DEF IInv

(* A quarter step moves the shaft and the distance together.               *)
LEMMA TurnBacked ==
  ASSUME IInv, NEW e \in Turned, NEW d \in Directions, Turn(e, d)
  PROVE  IInv'
<1> USE DEF MaxLead, Far
<1>1. e \in Encoders
  OBVIOUS
<1>2. PICK p \in Encodings :
        /\ IF d = "cw" THEN p = Clockwise(phase[e]) ELSE phase[e] = Clockwise(p)
        /\ phase' = [phase EXCEPT ![e] = p]
  BY DEF Turn
<1>3. DecoderTypeOK'
  BY <1>1, <1>2 DEF Turn, IInv, DecoderTypeOK, Step, Bounded, decoderVars, Directions
<1>4. ASSUME NEW f \in Encoders, f # e PROVE Backed(f)'
  BY <1>1, <1>2, <1>4 DEF Turn, IInv, DecoderTypeOK, Backed, Aligned, Slack, decoderVars
<1>5. Backed(e)'
  <2>1. (Aligned(e) \/ (unsure[e] /\ cwCount[e] = 0 /\ ccwCount[e] = 0))'
    <3>1. CASE Aligned(e)
      <4>1. Aligned(e)'
        <5> DEFINE q == previous[e]
        <5>1. q \in Encodings /\ phase[e] \in Encodings /\ lead[e] \in -1 .. 1
          BY <1>1 DEF IInv, DecoderTypeOK
        <5>2. previous'[e] = q /\ phase'[e] = p /\ lead'[e] = lead[e] + Step(d)
          BY <1>1, <1>2 DEF Turn, IInv, DecoderTypeOK, decoderVars
        <5>3. lead[e] + Step(d) \in -1 .. 1
          BY DEF Turn
        <5> QED
          BY <1>2, <3>1, <5>1, <5>2, <5>3, ClockwiseCycle DEF Aligned, Step, Directions
      <4> QED
        BY <4>1
    <3>2. CASE unsure[e] /\ cwCount[e] = 0 /\ ccwCount[e] = 0
      BY <3>2 DEF Turn, decoderVars
    <3> QED
      BY <3>1, <3>2, <1>1 DEF IInv, Backed
  <2>2. (cwCount[e] <= climbed[e] - lead[e] + Slack(e))'
    BY <1>1 DEF Turn, IInv, DecoderTypeOK, Backed, Slack, Step, Bounded, decoderVars, Directions
  <2>3. (ccwCount[e] <= fallen[e] + lead[e] + Slack(e))'
    BY <1>1 DEF Turn, IInv, DecoderTypeOK, Backed, Slack, Step, Bounded, decoderVars, Directions
  <2> QED
    BY <2>1, <2>2, <2>3 DEF Backed
<1> QED
  BY <1>3, <1>4, <1>5 DEF IInv

(* What the handler counts for a direction is backed by the shaft, and the *)
(* two directions are never counted together.                              *)
LEMMA CountedBacked ==
  ASSUME IInv, NEW e \in Encoders
  PROVE  /\ Counted(e, "cw") \in 0 .. EncoderCountPerRev
         /\ Counted(e, "ccw") \in 0 .. EncoderCountPerRev
         /\ Counted(e, "cw") <= climbed[e] + Slack(e)
         /\ Counted(e, "ccw") <= fallen[e] + Slack(e)
         /\ Reached(e, "cw") => Counted(e, "ccw") = 0
         /\ Reached(e, "ccw") => Counted(e, "cw") = 0
<1> DEFINE q == previous[e]  p == phase[e]
<1>1. q \in Encodings /\ p \in Encodings /\ lead[e] \in -1 .. 1
      /\ cwCount[e] \in 0 .. EncoderCountPerRev - 1
      /\ ccwCount[e] \in 0 .. EncoderCountPerRev - 1
      /\ climbed[e] \in Nat /\ fallen[e] \in Nat /\ unsure[e] \in BOOLEAN
  BY DEF IInv, DecoderTypeOK, Far
<1>2. Backed(e)
  BY DEF IInv
<1>3. Moved(e, "cw") <=> p = Clockwise(q)
  BY DEF Moved
<1>4. Moved(e, "ccw") <=> q = Clockwise(p)
  BY DEF Moved
<1>5. ~(Moved(e, "cw") /\ Moved(e, "ccw"))
  BY <1>1, <1>3, <1>4, ClockwiseCycle
<1>6. CASE Moved(e, "cw")
  <2>1. Counted(e, "cw") = cwCount[e] + 1 /\ Counted(e, "ccw") = 0
    BY <1>5, <1>6 DEF Counted, Opposite
  <2>2. cwCount[e] + 1 <= climbed[e] + Slack(e)
    <3>1. CASE Aligned(e)
      BY <1>1, <1>2, <1>3, <1>6, <3>1, ClockwiseCycle DEF Aligned, Backed, Slack
    <3>2. CASE unsure[e] /\ cwCount[e] = 0
      BY <1>1, <3>2 DEF Slack
    <3> QED
      BY <1>2, <3>1, <3>2 DEF Backed
  <2> QED
    BY <1>1, <2>1, <2>2 DEF Reached, Slack
<1>7. CASE Moved(e, "ccw")
  <2>1. Counted(e, "ccw") = ccwCount[e] + 1 /\ Counted(e, "cw") = 0
    BY <1>5, <1>7 DEF Counted, Opposite
  <2>2. ccwCount[e] + 1 <= fallen[e] + Slack(e)
    <3>1. CASE Aligned(e)
      BY <1>1, <1>2, <1>4, <1>7, <3>1, ClockwiseCycle DEF Aligned, Backed, Slack
    <3>2. CASE unsure[e] /\ ccwCount[e] = 0
      BY <1>1, <3>2 DEF Slack
    <3> QED
      BY <1>2, <3>1, <3>2 DEF Backed
  <2> QED
    BY <1>1, <2>1, <2>2 DEF Reached, Slack
<1>8. CASE ~Moved(e, "cw") /\ ~Moved(e, "ccw")
  <2>1. Counted(e, "cw") = cwCount[e] /\ Counted(e, "ccw") = ccwCount[e]
    BY <1>8 DEF Counted, Opposite
  <2>2. cwCount[e] <= climbed[e] + Slack(e) /\ ccwCount[e] <= fallen[e] + Slack(e)
    <3>1. CASE Aligned(e)
      BY <1>1, <1>2, <1>3, <1>4, <1>8, <3>1 DEF Aligned, Backed, Slack
    <3>2. CASE unsure[e] /\ cwCount[e] = 0 /\ ccwCount[e] = 0
      BY <1>1, <3>2 DEF Slack
    <3> QED
      BY <1>2, <3>1, <3>2 DEF Backed
  <2> QED
    BY <1>1, <2>1, <2>2 DEF Reached, Slack
<1> QED
  BY <1>6, <1>7, <1>8

(* The handler catches up with the shaft.                                  *)
LEMMA PositionChangeBacked ==
  ASSUME IInv, NEW e \in Encoders, PositionChange(e)
  PROVE  IInv'
<1>1. /\ previous' = [previous EXCEPT ![e] = phase[e]]
      /\ lead' = [lead EXCEPT ![e] = 0]
      /\ phase' = phase
  BY DEF PositionChange
<1>2. CASE \E d \in Directions : SendTurn(e, d)
  <2>1. PICK d \in Directions : SendTurn(e, d)
    BY <1>2
  <2>2. cwCount' = [cwCount EXCEPT ![e] = 0] /\ ccwCount' = [ccwCount EXCEPT ![e] = 0]
    BY <2>1, CountedBacked DEF SendTurn, Directions
  <2>3. /\ climbed' = [climbed EXCEPT ![e] = 0] /\ fallen' = [fallen EXCEPT ![e] = 0]
        /\ unsure' = [unsure EXCEPT ![e] = FALSE]
    BY <2>1 DEF SendTurn
  <2> QED
    BY <1>1, <2>2, <2>3 DEF IInv, DecoderTypeOK, Backed, Aligned, Slack, Far
<1>3. CASE NoTurnYet(e)
  <2>1. /\ cwCount'  = [cwCount EXCEPT ![e] = Counted(e, "cw")]
        /\ ccwCount' = [ccwCount EXCEPT ![e] = Counted(e, "ccw")]
        /\ UNCHANGED <<climbed, fallen, unsure>>
        /\ ~(Counted(e, "cw") >= EncoderCountPerRev)
        /\ ~(Counted(e, "ccw") >= EncoderCountPerRev)
    BY <1>3 DEF NoTurnYet, Reached
  <2>2. DecoderTypeOK'
    BY <1>1, <2>1, CountedBacked DEF IInv, DecoderTypeOK
  <2>3. ASSUME NEW f \in Encoders, f # e PROVE Backed(f)'
    BY <1>1, <2>1, <2>3 DEF IInv, DecoderTypeOK, Backed, Aligned, Slack
  <2>4. Backed(e)'
    BY <1>1, <2>1, CountedBacked DEF IInv, DecoderTypeOK, Backed, Aligned, Slack, Far
  <2> QED
    BY <2>2, <2>3, <2>4 DEF IInv
<1> QED
  BY <1>2, <1>3 DEF PositionChange

(* No step, and no pause, leaves a count without the movement behind it.   *)
LEMMA NextBacked == IInv /\ [KnobsNext]_knobVars => IInv'
<1> SUFFICES ASSUME IInv, [KnobsNext]_knobVars PROVE IInv'
  OBVIOUS
<1>1. ASSUME NEW e \in Turned, NEW d \in Directions, Turn(e, d) PROVE IInv'
  BY <1>1, TurnBacked
<1>2. ASSUME NEW e \in Encoders, PositionChange(e) PROVE IInv'
  BY <1>2, PositionChangeBacked
<1>3. ASSUME UNCHANGED <<shaftVars, decoderVars>> PROVE IInv'
  BY <1>3 DEF IInv, DecoderTypeOK, Backed, Aligned, Slack, shaftVars, decoderVars
<1>4. ASSUME NEW e \in Encoders, SwitchEvent(e) PROVE IInv'
  BY <1>3, <1>4 DEF SwitchEvent
<1>5. CASE Alarm
  BY <1>3, <1>5 DEF Alarm
<1>6. CASE Receive
  BY <1>3, <1>6 DEF Receive
<1>7. CASE UNCHANGED knobVars
  BY <1>3, <1>7 DEF knobVars
<1> QED
  BY <1>1, <1>2, <1>4, <1>5, <1>6, <1>7 DEF KnobsNext

(* Counts are always backed by movement of the shaft.                      *)
THEOREM CountsBacked == KnobsSpec => []IInv
<1> QED
  BY InitBacked, NextBacked, PTL DEF KnobsSpec

(* A step that queues a turn is the handler's, and the turn was made.      *)
LEMMA TurnQueuedIsReal ==
  ASSUME IInv, KnobsNext, NEW e \in Encoders, NEW d \in Directions,
         queue \in Seq(Events), queue' = Append(queue, <<e, d>>)
  PROVE  Gained(e, d) >= EncoderCountPerRev
<1>1. queue' # queue
  <2>1. Len(Append(queue, <<e, d>>)) = Len(queue) + 1 /\ Len(queue) \in Nat
    OBVIOUS
  <2> QED
    BY <2>1
<1>2. PICK s \in Encoders \X {"sw", "cw", "ccw"} : queue' = Append(queue, s) => s = <<e, d>>
  BY DEF Events, Directions
<1>3. ASSUME NEW f \in Encoders, NEW x \in {"sw", "cw", "ccw"},
             queue' = Append(queue, <<f, x>>)
      PROVE  f = e /\ x = d
  <2>1. queue'[Len(queue) + 1] = <<f, x>>
    BY <1>3 DEF Events
  <2>2. queue'[Len(queue) + 1] = <<e, d>>
    BY DEF Events, Directions
  <2> QED
    BY <2>1, <2>2
<1>4. ASSUME NEW f \in Encoders, NEW x \in Directions, SendTurn(f, x)
      PROVE  Gained(e, d) >= EncoderCountPerRev
  <2>1. queue' = Append(queue, <<f, x>>)
    BY <1>1, <1>4 DEF SendTurn, SendFromISR
  <2>2. f = e /\ x = d
    BY <1>3, <2>1 DEF Directions
  <2>3. Counted(e, d) >= EncoderCountPerRev
    BY <1>4, <2>2 DEF SendTurn, Reached
  <2>4. climbed[e] \in Nat /\ fallen[e] \in Nat
    BY DEF IInv, DecoderTypeOK, Far
  <2> QED
    BY <2>3, <2>4, CountedBacked DEF Gained, Slack, Directions
<1>5. ASSUME NEW f \in Encoders, SwitchEvent(f) PROVE FALSE
  <2>1. queue' = Append(queue, <<f, "sw">>)
    BY <1>1, <1>5 DEF SwitchEvent, SendFromISR
  <2> QED
    BY <1>3, <2>1 DEF Directions
<1>6. CASE Receive
  <2>1. Len(Tail(queue)) = Len(queue) - 1 /\ Len(Append(queue, <<e, d>>)) = Len(queue) + 1
        /\ Len(queue) \in Nat
    BY <1>6 DEF Receive
  <2> QED
    BY <1>6, <2>1 DEF Receive
<1>7. ASSUME NEW f \in Encoders, NoTurnYet(f) PROVE FALSE
  BY <1>1, <1>7 DEF NoTurnYet
<1>8. ASSUME NEW f \in Turned, NEW x \in Directions, Turn(f, x) PROVE FALSE
  BY <1>1, <1>8 DEF Turn
<1>9. CASE Alarm
  BY <1>1, <1>9 DEF Alarm
<1> QED
  BY <1>4, <1>5, <1>6, <1>7, <1>8, <1>9 DEF KnobsNext, PositionChange

(* The queue only ever holds events of the encoders.                       *)
QueueTypeOK == queue \in Seq(Events)

LEMMA QueueTyped == KnobsSpec => []QueueTypeOK
<1>1. KnobsInit => QueueTypeOK
  BY DEF KnobsInit, QueueTypeOK
<1>2. QueueTypeOK /\ [KnobsNext]_knobVars => QueueTypeOK'
  <2> SUFFICES ASSUME queue \in Seq(Events), [KnobsNext]_knobVars PROVE queue' \in Seq(Events)
    BY DEF QueueTypeOK
  <2>1. ASSUME NEW f \in Encoders, NEW x \in {"sw", "cw", "ccw"}, SendFromISR(<<f, x>>)
        PROVE  queue' \in Seq(Events)
    BY <2>1 DEF SendFromISR, Events
  <2>2. ASSUME NEW f \in Encoders, PositionChange(f) PROVE queue' \in Seq(Events)
    BY <2>1, <2>2 DEF PositionChange, SendTurn, NoTurnYet, Directions
  <2>3. ASSUME NEW f \in Encoders, SwitchEvent(f) PROVE queue' \in Seq(Events)
    BY <2>1, <2>3 DEF SwitchEvent
  <2>4. CASE Receive
    BY <2>4 DEF Receive
  <2>5. CASE Alarm \/ UNCHANGED knobVars
    BY <2>5 DEF Alarm, knobVars
  <2>6. ASSUME NEW f \in Turned, NEW x \in Directions, Turn(f, x) PROVE queue' \in Seq(Events)
    BY <2>6 DEF Turn
  <2> QED
    BY <2>2, <2>3, <2>4, <2>5, <2>6 DEF KnobsNext
<1> QED
  BY <1>1, <1>2, PTL DEF KnobsSpec

(* A turn reported to the menu was made, however the shaft bounced and     *)
(* whenever the handler got to run.                                        *)
THEOREM ReportedTurnsAreReal == KnobsSpec => TurnsAreReal
<1>1. IInv /\ QueueTypeOK /\ [KnobsNext]_knobVars =>
        [\A e \in Encoders, d \in Directions :
           queue' = Append(queue, <<e, d>>) => Gained(e, d) >= EncoderCountPerRev]_knobVars
  <2> SUFFICES ASSUME IInv, QueueTypeOK, KnobsNext, ~UNCHANGED knobVars,
                      NEW e \in Encoders, NEW d \in Directions,
                      queue' = Append(queue, <<e, d>>)
               PROVE  Gained(e, d) >= EncoderCountPerRev
    OBVIOUS
  <2> QED
    BY TurnQueuedIsReal DEF QueueTypeOK
<1> QED
  BY <1>1, CountsBacked, QueueTyped, PTL DEF KnobsSpec, TurnsAreReal
=============================================================================
