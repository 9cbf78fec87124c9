------------------------------- MODULE NameTree -------------------------------
(***************************************************************************)
(* What the directory operations of littlefs promise: a tree of names in   *)
(* which every operation happens entirely or not at all, even if power is  *)
(* lost in the middle of it, is answered only when it has happened, and is *)
(* refused for a reason. A file that is open stays the same file wherever  *)
(* commits to its directory take its entry.                                *)
(***************************************************************************)
EXTENDS Naturals, SequencesExt

CONSTANTS Paths, Contents

VARIABLES
  tree,  \* pairs of a path and what is there: "dir" or a content
  open,  \* content of the open file, if there is one
  call,  \* what the operation that runs would make of both, and its answer
  ret

vars == <<tree, open, call, ret>>

Entry(t, path) == {e[2] : e \in {o \in t : o[1] = path}}
IsDir(t, path) == path = <<>> \/ Entry(t, path) = {"dir"}
Below(t, path) == {e \in t : IsPrefix(path, e[1])}
Lonely(t, path) == \A e \in Below(t, path) : e[1] = path

Idle == [answer |-> "none"]
Goal(t, o, why) == [answer |-> why, tree |-> t, open |-> o]

Made(t, o, path, what) == Goal(t \cup {<<path, what>>}, o, "ok")

Gone(t, o, path) ==
  IF Lonely(t, path) THEN Goal(t \ Below(t, path), o, "ok") ELSE Goal(t, o, "notempty")

Moved(t, old, new) ==
  {<<new \o SubSeq(e[1], Len(old) + 1, Len(e[1])), e[2]>> : e \in Below(t, old)}

Renamed(t, o, old, new) ==
  IF Entry(t, new) # {} /\ IsDir(t, old) # IsDir(t, new) THEN Goal(t, o, "isdir")
  ELSE IF old # new /\ ~Lonely(t, new) THEN Goal(t, o, "notempty")
  ELSE Goal((t \ (Below(t, old) \cup Below(t, new))) \cup Moved(t, old, new), o, "ok")

Synced(t, o, data) ==
  Goal({IF e[2] \in o THEN <<e[1], data>> ELSE e : e \in t}, {data}, "ok")

Unused(t) == {data \in Contents : \A e \in t : e[2] # data}
Taken(t)  == {path \in Paths : Entry(t, path) # {}}
Vacant(t) == {path \in Paths \ Taken(t) : IsDir(t, Front(path))}

Asked(t, o) ==
  {Made(t, o, path, what) : path \in Vacant(t), what \in Unused(t) \cup {"dir"}}
    \cup {Gone(t, o, path) : path \in Taken(t)}
    \cup {Renamed(t, o, old, new) : old \in Taken(t), new \in Taken(t) \cup Vacant(t)}
    \cup {Goal(t, Entry(t, path), "ok") : path \in Taken(t)}
    \cup {Synced(t, o, data) : data \in Unused(t)}

Begin == call = Idle /\ call' \in Asked(tree, open) /\ UNCHANGED <<tree, open, ret>>

Happen == call # Idle /\ tree' = call.tree /\ UNCHANGED <<open, call, ret>>

Return ==
  /\ call # Idle /\ tree = call.tree
  /\ tree' = tree /\ open' = call.open /\ ret' = call.answer /\ call' = Idle

(* A full volume: the operation is given up, whether it happened or not.   *)
GiveUp ==
  call # Idle /\ ret' = "nospc" /\ call' = Idle /\ open' \subseteq open /\ UNCHANGED tree

PowerLoss == call' = Idle /\ open' = {} /\ ret' = "power" /\ UNCHANGED tree

Init == open = {} /\ call = Idle /\ ret = "ok" /\ tree = {}

Next == Begin \/ Happen \/ Return \/ GiveUp \/ PowerLoss

Spec == Init /\ [][Next]_vars
=============================================================================
