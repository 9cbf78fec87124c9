------------------------------ MODULE MCTasks -------------------------------
(* The system task with any menu at the other end of its queues, and the   *)
(* BLE client, for TLC: in a behaviour one of the two runs and the other   *)
(* stands still.                                                           *)
EXTENDS SystemTask, BleClient

VARIABLE runs

-----------------------------------------------------------------------------
(* The peripherals: the target, one without the second characteristic but  *)
(* with more than the pools hold, and one with a service that has room for *)
(* characteristics and none.                                               *)
Chr(d, u, ds) == [def |-> d, val |-> d + 1, uuid |-> u, dscs |-> ds]

Target ==
  << [start |-> 1, end |-> 1, uuid |-> "gap", chrs |-> <<>>],
     [start |-> 10, end |-> 19, uuid |-> "target",
      chrs |-> <<Chr(11, "c0", <<13>>), Chr(15, "c1", <<>>)>>] >>

Other ==
  << [start |-> 1, end |-> 9, uuid |-> "target",
      chrs |-> <<Chr(2, "x", <<>>), Chr(4, "c0", <<6>>)>>] >>

Big ==
  << [start |-> 1, end |-> 9, uuid |-> "target",
      chrs |-> <<Chr(2, "c0", <<>>), Chr(4, "c1", <<>>), Chr(6, "x", <<>>)>>] >>

Bare == << [start |-> 1, end |-> 5, uuid |-> "gap", chrs |-> <<>>] >>

MCDatabases == {Target, Other, Big, Bare}

-----------------------------------------------------------------------------
MCInit == SystemInit /\ ClientInit /\ runs \in {"system", "client"}

MCNext ==
  \/ runs = "system" /\ SystemNext /\ UNCHANGED <<clientVars, runs>>
  \/ runs = "client" /\ ClientNext /\ UNCHANGED <<systemVars, runs>>

(* SystemSpec, which states no fairness, and ClientSpec.                   *)
MCSpec ==
  /\ MCInit /\ [][MCNext]_<<systemVars, clientVars, runs>>
  /\ WF_clientVars(runs = "client" /\ OnSync)
  /\ WF_clientVars(runs = "client" /\ ConnectOutcome)
  /\ WF_clientVars(runs = "client" /\ DiscoverUnrefused)
  /\ WF_clientVars(runs = "client" /\ DiscoveryProcessComplete)
  /\ WF_clientVars(runs = "client" /\ ApiTask)
  /\ SF_clientVars(runs = "client" /\ WriteAnswered)
  /\ SF_clientVars(runs = "client" /\ Disconnected)
=============================================================================
