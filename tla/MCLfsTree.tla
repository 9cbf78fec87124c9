----------------------------- MODULE MCLfsTree ------------------------------
(* LfsTree on 16 blocks for TLC. Its plans let names share a full pair,    *)
(* directories be nested, a directory be split in front of another pair,   *)
(* and an open file's entry be split off.                                  *)
EXTENDS LfsTree

MCPaths == {<<1>>, <<2>>, <<3>>, <<4>>, <<1, 1>>, <<2, 1>>}

Plan(script, steps, moves, losses) ==
  [script |-> script, steps |-> steps, moves |-> moves, losses |-> losses]

TwoDirs  == <<<<"mkdir", <<1>>>>, <<"mkdir", <<2>>>>, <<"create", <<1, 1>>>>>>
Files    == <<<<"create", <<2>>>>, <<"create", <<3>>>>, <<"create", <<4>>>>>>
WithOpen == Append(Files, <<"open", <<3>>>>)

MCPlans ==
  {Plan(<<>>, 2, 2, 1), Plan(TwoDirs, 2, 1, 1), Plan(TwoDirs, 1, 2, 2),
   Plan(Files, 1, 1, 1), Plan(WithOpen, 2, 0, 0)}

(* One loss of power anywhere, in a rename that replaces a block too.      *)
MCRenamePlans == {Plan(<<<<"mkdir", <<1>>>>, <<"mkdir", <<2>>>>>>, 2, 1, 1)}
=============================================================================
