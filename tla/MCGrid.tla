------------------------------- MODULE MCGrid -------------------------------
(* The grid with what is derived from it, and the linked lists it is kept  *)
(* in, for TLC: in a behaviour one of the two runs and the other stands    *)
(* still. Of the code's lists two rows are enough, and a pool of a few     *)
(* nodes.                                                                  *)
EXTENDS GridViews, GenericDLL

VARIABLE runs

(* The rows the user works on start above the columns, as rows 0x34 ..     *)
(* 0x39 lie above columns 0 .. 7 in the code.                              *)
MCRows == 0 .. 8

ASSUME MCFileConditions == FileConditions

MCInit == Init /\ PoolInit /\ runs \in {"grid", "lists"}

MCNext ==
  \/ runs = "grid" /\ CallerNext /\ UNCHANGED <<listVars, runs>>
  \/ runs = "lists" /\ Next /\ UNCHANGED <<vars, runs>>

MCSpec ==
  /\ MCInit /\ [][MCNext]_<<vars, listVars, runs>>
  /\ WF_listVars(runs = "lists" /\ FreeStep)
=============================================================================
