------------------------------ MODULE MCPanel -------------------------------
(* Two parts of the panel, for TLC: the scan of the switch matrix and the  *)
(* pages of the menu. In a behaviour one of the two runs and the other     *)
(* stands still. Only row 0 of the matrix has a handler in the code        *)
(* (switchMatrix.c:124); the menu has four characters, names of up to four *)
(* and two files.                                                          *)
EXTENDS SwitchMatrix, GuiMenu

VARIABLE runs

(* One list has its names in descending order, one leaves a gap.           *)
MCFileLists ==
  {<<DefaultName(1), DefaultName(0)>>, <<DefaultName(0), DefaultName(2)>>}

MCAnnouncements ==
  {[note |-> 0, velocity |-> 1, duration |-> 1, max |-> 1]}

MCInit ==
  /\ ScanInit /\ Init /\ runs \in {"scan", "menu"}
  /\ runs # "scan" => counter = 0
  /\ runs # "menu" => files = <<DefaultName(0), DefaultName(2)>>

MCNext ==
  \/ runs = "scan" /\ ScanNext /\ UNCHANGED <<vars, runs>>
  \/ runs = "menu" /\ Next /\ UNCHANGED <<scanVars, runs>>

(* ScanFairSpec and FairSpec, each where it runs.                          *)
MCSpec ==
  /\ MCInit /\ [][MCNext]_<<scanVars, vars, runs>>
  /\ WF_scanVars(runs = "scan" /\ Task)
  /\ WF_scanVars(runs = "scan" /\ SystemReceive)
  /\ WF_vars(runs = "menu" /\ fault = "none" /\ NoInput)
  /\ WF_vars(runs = "menu" /\ Loop)
=============================================================================
