----------------------------- MODULE MCStorage ------------------------------
(* The three layers of file storage, for TLC: the file system component,   *)
(* the littlefs port with several tasks, and the blocks of one littlefs    *)
(* file. In a behaviour one of them runs and the others stand still.       *)
EXTENDS FileSys, EspLittlefs, LfsFile

VARIABLE runs

MCFileNames == 1 .. 3
MCPayloads  == {<<1>>, <<1, 2>>}
MCNames     == 1 .. 2

MCInit == Init /\ PortInit /\ BlocksInit /\ runs \in {"component", "port", "blocks"}

(* The steps of the third are counted, and it stops at the bound.          *)
StepsUsedUp == runs = "blocks" /\ steps = MaxSteps /\ UNCHANGED <<vars, portVars, blocksVars, runs>>

MCNext ==
  \/ runs = "component" /\ Next /\ UNCHANGED <<portVars, blocksVars, runs>>
  \/ runs = "port" /\ PortNext /\ UNCHANGED <<vars, blocksVars, runs>>
  \/ runs = "blocks" /\ BlocksNext /\ UNCHANGED <<vars, portVars, runs>>
  \/ StepsUsedUp

MCSpec == MCInit /\ [][MCNext]_<<vars, portVars, blocksVars, runs>>
=============================================================================
