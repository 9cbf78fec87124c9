------------------------------ MODULE MCKnobs -------------------------------
(* The rotary encoders, and the system and menu tasks with a user who      *)
(* waits, for TLC: in a behaviour one of the two runs and the other stands *)
(* still. The encoders have both switches, one moving shaft and a queue of *)
(* two events: the shafts share nothing but the queue, and the other       *)
(* shaft's events fill it as the presses do.                               *)
EXTENDS RotaryEncoders, Sequencer

VARIABLE runs

MCInit ==
  /\ KnobsInit /\ Init /\ runs \in {"knobs", "careful"}
  /\ runs # "knobs" => lastMove = <<0, "cw">> /\ \A e \in Encoders : phase[e] = 0

MCNext ==
  \/ runs = "knobs" /\ KnobsNext /\ UNCHANGED <<vars, runs>>
  \/ runs = "careful" /\ CarefulNext /\ UNCHANGED <<knobVars, runs>>

(* KnobsFairSpec where it runs; CarefulSpec states no fairness.            *)
MCSpec ==
  /\ MCInit /\ [][MCNext]_<<knobVars, vars, runs>>
  /\ \A e \in Encoders : WF_knobVars(runs = "knobs" /\ PositionChange(e))
  /\ WF_knobVars(runs = "knobs" /\ Alarm)
  /\ WF_knobVars(runs = "knobs" /\ Receive)
=============================================================================
