--------------------------- MODULE StorageProofs ----------------------------
(***************************************************************************)
(* The file component and the littlefs port under it.                      *)
(*                                                                         *)
(* The file component keeps what it promises of contents, and leaves no    *)
(* file open unless something failed, for any names, payloads and limits.  *)
(* The argument is about the handle: from the opening to the closing of an *)
(* operation it holds what the operation is to leave, or what was on flash *)
(* when it was opened, and the names in between are not touched. The names *)
(* it caches are the files there are, and fit their rows, unless a scan or *)
(* a creation failed.                                                      *)
(*                                                                         *)
(* In the port, the table of descriptors, the list of open files and their *)
(* count agree however often the table grows and in whatever order         *)
(* descriptors come and go; no descriptor is lost, shared or moved; and a  *)
(* directory stream that can be read misses no entry. For any tasks, names *)
(* and sizes.                                                              *)
(***************************************************************************)
EXTENDS FileSys, EspLittlefs, SequenceTheorems, FiniteSetTheorems, TLAPS

-----------------------------------------------------------------------------
(* FileSys.                                                                *)

(* A file in the middle of an operation. What was opened to be written may *)
(* be left as it is or as intended; what is read, as it is.                *)
Under(n) ==
  /\ n \in FileNames /\ handle = [name |-> n, content |-> handle.content]
  /\ call.at = "opened"  => call.name = n /\ handle.content = disk[n]
                              /\ call.intended = Over(call.data, handle.content)
                              /\ call.intended \in promised[n]
  /\ call.at = "written" => call.name = n /\ handle.content = call.intended
                              /\ call.intended \in promised[n]
  /\ call.at \in {"lost", "read"} => handle.content \in promised[n]

CallOK ==
  /\ call = [at |-> call.at, name |-> call.name, data |-> call.data, intended |-> call.intended]
  /\ call.at \in {"idle", "opened", "written", "lost", "read"}

ContentsInv ==
  /\ DOMAIN disk = FileNames /\ DOMAIN promised = FileNames
  /\ CallOK
  /\ call.at # "idle" => Under(handle.name)
  /\ ContentsAsPromised

(* Nothing is on flash yet, and nothing is open.                           *)
LEMMA InitContents == Init => ContentsInv
  BY DEF Init, ContentsInv, CallOK, ContentsAsPromised, Idle

(* A step that touches neither flash nor promises nor what is open.        *)
LEMMA UntouchedContents ==
  ASSUME ContentsInv, UNCHANGED <<disk, promised, handle, call>>
  PROVE  ContentsInv'
  BY DEF ContentsInv, CallOK, ContentsAsPromised, Under

(* Closing commits what the handle holds, or leaves everything.            *)
LEMMA CloseContents ==
  ASSUME ContentsInv, Close, call.at \in {"written", "lost", "read"}
  PROVE  /\ DOMAIN disk' = FileNames
         /\ \A n \in FileNames : disk'[n] \in promised[n]
<1>1. handle.name \in FileNames /\ handle.content \in promised[handle.name]
  BY DEF ContentsInv, Under
<1>2. CASE disk' = [disk EXCEPT ![handle.name] = handle.content]
  BY <1>1, <1>2 DEF ContentsInv, ContentsAsPromised
<1>3. CASE UNCHANGED disk
  BY <1>3 DEF ContentsInv, ContentsAsPromised
<1> QED
  BY <1>2, <1>3 DEF Close

(* Every step keeps the contents as promised.                              *)
LEMMA NextContents == ContentsInv /\ [Next]_vars => ContentsInv'
<1> SUFFICES ASSUME ContentsInv, [Next]_vars PROVE ContentsInv'
  OBVIOUS
<1>1. CASE Mount
  BY <1>1 DEF Mount, ContentsInv, CallOK, ContentsAsPromised, Idle
<1>2. CASE MountFails \/ (\E createNew \in BOOLEAN : OpenHalts(createNew)) \/ ReadHalts
  BY <1>2, UntouchedContents DEF MountFails, OpenHalts, ReadHalts, Halt
<1>3. CASE Unmount
  <2>1. CASE Halt("open")
    BY <2>1, UntouchedContents DEF Halt
  <2>2. CASE call' = Idle /\ UNCHANGED <<disk, promised>>
    BY <2>2 DEF ContentsInv, CallOK, ContentsAsPromised, Idle
  <2> QED
    BY <1>3, <2>1, <2>2 DEF Unmount
<1>4. ASSUME NEW n \in FileNames, NEW data, NEW createNew, WriteOpens(n, data, createNew)
      PROVE  ContentsInv'
  <2>1. /\ disk' = IF Cached(n) THEN disk ELSE [disk EXCEPT ![n] = <<>>]
        /\ handle' = [name |-> n, content |-> disk'[n]]
        /\ call' = [at |-> "opened", name |-> n, data |-> data, intended |-> Intended(n, data)]
        /\ promised' = [promised EXCEPT ![n] = MayLeave(n, data)]
    BY <1>4 DEF WriteOpens, Fopen
  <2>2. Intended(n, data) = Over(data, disk'[n])
    BY <2>1 DEF Intended, ContentsInv
  <2>3. disk'[n] \in promised'[n] /\ Intended(n, data) \in promised'[n]
    BY <2>1 DEF MayLeave, ContentsInv, ContentsAsPromised
  <2>4. ContentsAsPromised'
    BY <2>1, <2>3 DEF ContentsInv, ContentsAsPromised
  <2>5. Under(n)'
    BY <2>1, <2>2, <2>3 DEF Under
  <2> QED
    BY <2>1, <2>4, <2>5 DEF ContentsInv, CallOK
<1>5. ASSUME NEW n \in FileNames, NEW data, NEW createNew, WriteUnopened(n, data, createNew)
      PROVE  ContentsInv'
  <2>1. CASE UNCHANGED <<disk, promised, handle, call>>
    BY <2>1, UntouchedContents
  <2>2. CASE /\ disk' = [disk EXCEPT ![n] = <<>>] /\ promised' = [promised EXCEPT ![n] = {<<>>}]
             /\ UNCHANGED <<handle, call>>
    <3>1. call.at = "idle"
      BY <1>5 DEF WriteUnopened, Ready
    <3> QED
      BY <2>2, <3>1 DEF ContentsInv, CallOK, ContentsAsPromised
  <2> QED
    BY <1>5, <2>1, <2>2 DEF WriteUnopened, Halt
<1>6. CASE WriteData
  <2>1. UNCHANGED <<disk, promised>> /\ call.at = "opened" /\ Under(handle.name)
    BY <1>6 DEF WriteData, ContentsInv
  <2>2. CASE call' = Idle
    BY <2>1, <2>2 DEF ContentsInv, CallOK, ContentsAsPromised, Idle
  <2>3. CASE /\ handle' = [handle EXCEPT !.content = Over(call.data, @)]
             /\ call' = [call EXCEPT !.at = "written"]
    <3>1. handle' = [name |-> handle.name, content |-> call.intended]
      BY <2>1, <2>3 DEF Under
    <3>2. call' = [at |-> "written", name |-> call.name, data |-> call.data,
                   intended |-> call.intended]
      BY <2>3 DEF ContentsInv, CallOK
    <3>3. Under(handle.name)'
      BY <2>1, <3>1, <3>2 DEF Under
    <3> QED
      BY <2>1, <3>1, <3>2, <3>3 DEF ContentsInv, CallOK, ContentsAsPromised
  <2>4. CASE call' = [call EXCEPT !.at = "lost"] /\ UNCHANGED handle
    <3>1. call' = [at |-> "lost", name |-> call.name, data |-> call.data,
                   intended |-> call.intended]
      BY <2>4 DEF ContentsInv, CallOK
    <3>2. handle.content \in promised[handle.name]
      BY <2>1 DEF Under, ContentsInv, ContentsAsPromised
    <3>3. Under(handle.name)'
      BY <2>1, <2>4, <3>1, <3>2 DEF Under
    <3> QED
      BY <2>1, <2>4, <3>1, <3>3 DEF ContentsInv, CallOK, ContentsAsPromised
  <2> QED
    BY <1>6, <2>2, <2>3, <2>4 DEF WriteData, Return
<1>7. CASE WriteCloses
  <2>1. Close /\ call.at \in {"written", "lost"} /\ call' = Idle
    BY <1>7 DEF WriteCloses, Return
  <2>2. /\ DOMAIN disk' = FileNames
        /\ \A n \in FileNames : disk'[n] \in promised[n]
    BY <2>1, CloseContents
  <2>3. DOMAIN promised' = FileNames
    BY <1>7 DEF WriteCloses, ContentsInv
  <2>4. ContentsAsPromised'
    <3>1. CASE UNCHANGED promised
      BY <2>2, <3>1 DEF ContentsAsPromised
    <3>2. CASE /\ handle' = NoHandle /\ call.at = "written"
               /\ promised' = [promised EXCEPT ![call.name] = {call.intended}]
      <4>1. call.name = handle.name /\ handle.name \in FileNames
              /\ handle.content = call.intended /\ handle.name # NoName
        BY <3>2, NamesAssumption DEF ContentsInv, Under, NoName
      <4>2. handle # handle'
        BY <4>1, <3>2 DEF NoHandle
      <4>3. disk' = [disk EXCEPT ![handle.name] = handle.content]
        BY <2>1, <4>2 DEF Close
      <4> QED
        BY <2>2, <3>2, <4>1, <4>3 DEF ContentsAsPromised, ContentsInv
    <3> QED
      BY <1>7, <3>1, <3>2 DEF WriteCloses
  <2> QED
    BY <2>1, <2>2, <2>3, <2>4 DEF ContentsInv, CallOK, Idle
<1>8. CASE ReadCloses
  <2>1. Close /\ call.at = "read" /\ call' = Idle /\ UNCHANGED promised
    BY <1>8 DEF ReadCloses, Return
  <2> QED
    BY <2>1, CloseContents DEF ContentsInv, CallOK, Idle, ContentsAsPromised
<1>9. ASSUME NEW n \in FileNames, ReadOpens(n) PROVE ContentsInv'
  <2>1. /\ disk' = disk /\ promised' = promised
        /\ handle' = [name |-> n, content |-> disk'[n]]
        /\ call' = [at |-> "read", name |-> NoName, data |-> <<>>, intended |-> <<>>]
    BY <1>9 DEF ReadOpens, Fopen, Idle
  <2>2. Under(n)'
    BY <2>1 DEF Under, ContentsInv, ContentsAsPromised
  <2> QED
    BY <2>1, <2>2 DEF ContentsInv, CallOK, ContentsAsPromised
<1>10. ASSUME NEW n \in FileNames, Delete(n) PROVE ContentsInv'
  <2>1. call' = Idle
    BY <1>10 DEF Delete, Return
  <2>2. CASE UNCHANGED <<disk, promised>>
    BY <2>1, <2>2 DEF ContentsInv, CallOK, Idle, ContentsAsPromised
  <2>3. CASE disk' = [disk EXCEPT ![n] = None] /\ promised' = [promised EXCEPT ![n] = {None}]
    BY <2>1, <2>3 DEF ContentsInv, CallOK, Idle, ContentsAsPromised
  <2> QED
    BY <1>10, <2>2, <2>3 DEF Delete
<1>11. CASE PowerLoss
  BY <1>11 DEF PowerLoss, Reset, ContentsInv, CallOK, Idle, ContentsAsPromised
<1>12. CASE UNCHANGED vars
  BY <1>12, UntouchedContents DEF vars
<1> QED
  BY <1>1, <1>2, <1>3, <1>4, <1>5, <1>6, <1>7, <1>8, <1>9, <1>10, <1>11, <1>12 DEF Next

(* Every step but a failing one leaves no file open between operations: a *)
(* write or a read ends in a close, and the only way to halt over an open  *)
(* handle is to have left it there before.                                 *)
LEMMA NextLeavesNothing ==
  CallOK /\ NoFileLeftOpen /\ [Next]_vars => NoFileLeftOpen'
<1> SUFFICES ASSUME CallOK, NoFileLeftOpen, [Next]_vars PROVE NoFileLeftOpen'
  OBVIOUS
<1> USE DEF NoFileLeftOpen
<1>1. ASSUME NEW content, Refresh(content)
      PROVE  (halted' = halted \/ halted' = "overflow") /\ trouble \subseteq trouble'
  <2> DEFINE found == InOrder({n \in FileNames : content[n] # None})
  <2>1. \/ \E k \in 0 .. Len(found) :
             /\ trouble' = IF k = Len(found) THEN trouble ELSE trouble \cup {"scan"}
             /\ halted' = IF k > MaxNumFiles THEN "overflow" ELSE halted
        \/ UNCHANGED halted /\ trouble' = trouble \cup {"scan"}
    BY <1>1 DEF Refresh
  <2>2. trouble' = trouble \/ trouble' = trouble \cup {"scan"}
    BY <2>1
  <2>3. halted' = halted \/ halted' = "overflow"
    BY <2>1
  <2> QED
    BY <2>2, <2>3
<1>2. CASE Mount
  BY <1>1, <1>2 DEF Mount
<1>3. CASE MountFails \/ (\E createNew \in BOOLEAN : OpenHalts(createNew)) \/ ReadHalts
  BY <1>3 DEF MountFails, OpenHalts, OpenFault, Ready, ReadHalts, Halt
<1>4. CASE Unmount
  BY <1>4 DEF Unmount, Halt
<1>5. ASSUME NEW n \in FileNames, NEW data, NEW createNew,
             WriteOpens(n, data, createNew) \/ ReadOpens(n)
      PROVE  NoFileLeftOpen'
  <2>1. CASE WriteOpens(n, data, createNew)
    BY <2>1 DEF WriteOpens
  <2>2. CASE ReadOpens(n)
    <3>1. call' = [at |-> "read", name |-> NoName, data |-> <<>>, intended |-> <<>>]
      BY <2>2 DEF ReadOpens, Idle
    <3> QED
      BY <3>1
  <2> QED
    BY <1>5, <2>1, <2>2
<1>6. ASSUME NEW n \in FileNames, NEW data, NEW createNew, WriteUnopened(n, data, createNew)
      PROVE  NoFileLeftOpen'
  BY <1>6 DEF WriteUnopened, Halt
<1>7. CASE WriteData
  <2>1. CASE trouble' = trouble \cup {"left"}
    BY <2>1
  <2>2. CASE call' = [call EXCEPT !.at = "written"] \/ call' = [call EXCEPT !.at = "lost"]
    <3>1. call'.at \in {"written", "lost"}
      BY <2>2 DEF CallOK
    <3> QED
      BY <3>1
  <2> QED
    BY <1>7, <2>1, <2>2 DEF WriteData
<1>8. CASE WriteCloses \/ ReadCloses
  BY <1>8 DEF WriteCloses, ReadCloses, Close
<1>9. ASSUME NEW n \in FileNames, Delete(n) PROVE NoFileLeftOpen'
  <2>1. /\ call.at = "idle" /\ mounted /\ halted = "no"
        /\ UNCHANGED <<mounted, handle, path, openSize>>
    BY <1>9 DEF Delete, Ready
  <2>2. (halted' = halted \/ halted' = "overflow") /\ trouble \subseteq trouble'
    BY <1>1, <1>9 DEF Delete
  <2> QED
    BY <2>1, <2>2
<1>10. CASE PowerLoss
  BY <1>10 DEF PowerLoss, Reset
<1>11. CASE UNCHANGED vars
  BY <1>11 DEF vars
<1> QED
  BY <1>2, <1>3, <1>4, <1>5, <1>6, <1>7, <1>8, <1>9, <1>10, <1>11 DEF Next

-----------------------------------------------------------------------------
(* The inductive invariant holds in every state.                           *)
LEMMA Contented == Spec => []ContentsInv
  BY InitContents, NextContents, PTL DEF Spec

(* A write that is interrupted leaves the file as it was or as it is to    *)
(* be, and one that worked is on flash and stays there (fileSys.c:88-126). *)
THEOREM WritesAsPromised == Spec => []ContentsAsPromised
<1>1. ContentsInv => ContentsAsPromised
  BY DEF ContentsInv
<1> QED
  BY Contented, <1>1, PTL

(* Between two operations no file is open, unless a write or a close went  *)
(* wrong since mounting (fileSys.c:88-126, 349-368): nothing else makes    *)
(* the next opening halt over a file left open.                            *)
THEOREM NothingLeftOpen == Spec => []NoFileLeftOpen
<1>1. Init => NoFileLeftOpen
  BY DEF Init, NoFileLeftOpen
<1>2. ContentsInv => CallOK
  BY DEF ContentsInv
<1> QED
  BY Contented, NextLeavesNothing, <1>1, <1>2, PTL DEF Spec

-----------------------------------------------------------------------------
(* The cache of names.                                                     *)

LEMMA LeastNatural ==
  ASSUME NEW S, S \subseteq Nat, S # {}
  PROVE  \E x \in S : \A y \in S : x <= y
<1>1. \E x \in S : \A y \in S : ~ (<<y, x>> \in OpToRel(<, Nat))
  BY NatLessThanWellFounded, WFMin
<1>2. PICK x \in S : \A y \in S : ~(y < x)
  BY <1>1 DEF OpToRel
<1>3. \A y \in S : x <= y
  BY <1>2
<1> QED
  BY <1>3

LEMMA FileNamesFacts ==
  ASSUME NEW S, S \subseteq FileNames
  PROVE  /\ IsFiniteSet(S) /\ Cardinality(S) \in Nat
         /\ \A n \in S : n \in Nat /\ n # NoName
  BY NamesAssumption, FS_Subset, FS_CardinalityType DEF NoName

Smaller(S, n) == {m \in S : m < n}

(* A list of names in order has each of them once: their places are the    *)
(* numbers of names before them.                                           *)
LEMMA InOrderIs ==
  ASSUME NEW S, S \subseteq FileNames
  PROVE  /\ InOrder(S) \in [1 .. Cardinality(S) -> S]
         /\ {InOrder(S)[i] : i \in 1 .. Cardinality(S)} = S
         /\ Len(InOrder(S)) = Cardinality(S)
<1> DEFINE N == Cardinality(S)
           place == [n \in S |-> 1 + Cardinality(Smaller(S, n))]
<1>1. IsFiniteSet(S) /\ N \in Nat /\ \A n \in S : n \in Nat
  BY FileNamesFacts
<1>2. \A n \in S : /\ IsFiniteSet(Smaller(S, n)) /\ Cardinality(Smaller(S, n)) \in Nat
                   /\ Smaller(S, n) \in SUBSET S /\ n \notin Smaller(S, n)
  <2> SUFFICES ASSUME NEW n \in S
               PROVE  /\ IsFiniteSet(Smaller(S, n)) /\ Cardinality(Smaller(S, n)) \in Nat
                      /\ Smaller(S, n) \in SUBSET S /\ n \notin Smaller(S, n)
    OBVIOUS
  <2>1. Smaller(S, n) \in SUBSET S /\ n \notin Smaller(S, n)
    BY <1>1 DEF Smaller
  <2> QED
    BY <1>1, <2>1, FS_Subset, FS_CardinalityType
<1>3. place \in [S -> 1 .. N]
  <2> SUFFICES ASSUME NEW n \in S PROVE 1 + Cardinality(Smaller(S, n)) \in 1 .. N
    OBVIOUS
  <2>1. Cardinality(Smaller(S, n)) <= N /\ Cardinality(Smaller(S, n)) # N
    BY <1>1, <1>2, FS_Subset
  <2> QED
    BY <1>1, <1>2, <2>1
<1>4. ASSUME NEW m \in S, NEW n \in S, m < n
      PROVE  Cardinality(Smaller(S, m)) < Cardinality(Smaller(S, n))
  <2>1. Smaller(S, m) \in SUBSET Smaller(S, n) /\ m \in Smaller(S, n) /\ m \notin Smaller(S, m)
    BY <1>1, <1>4 DEF Smaller
  <2>2. /\ Cardinality(Smaller(S, m)) <= Cardinality(Smaller(S, n))
        /\ Cardinality(Smaller(S, m)) # Cardinality(Smaller(S, n))
    BY <1>2, <2>1, FS_Subset
  <2> QED
    BY <1>2, <2>2
<1>5. ASSUME NEW m \in S, NEW n \in S, place[m] = place[n] PROVE m = n
  <2>1. Cardinality(Smaller(S, m)) = Cardinality(Smaller(S, n))
    BY <1>2, <1>5
  <2>2. ~(m < n) /\ ~(n < m)
    BY <1>2, <1>4, <2>1
  <2> QED
    BY <1>1, <2>2
<1>6. place \in Injection(S, 1 .. N)
  <2> HIDE DEF place
  <2> QED
    BY <1>3, <1>5 DEF Injection, IsInjective
<1>7. place \in Surjection(S, 1 .. N)
  <2>1. IsFiniteSet(1 .. N) /\ Cardinality(1 .. N) = N
    BY <1>1, FS_Interval
  <2> HIDE DEF place
  <2> QED
    BY <1>6, <2>1, FS_Injection
<1>8. \A i \in 1 .. N : \E n \in S : place[n] = i
  <2> HIDE DEF place
  <2> QED
    BY <1>7 DEF Surjection
<1>9. \A n \in S : place[n] - 1 = Cardinality(Smaller(S, n)) /\ place[n] \in 1 .. N
  BY <1>2, <1>3
<1> HIDE DEF place
<1>10. ASSUME NEW i \in 1 .. N, NEW n \in S
       PROVE  Cardinality(Smaller(S, n)) = i - 1 <=> place[n] = i
  <2>1. place[n] - 1 = Cardinality(Smaller(S, n)) /\ place[n] \in Int /\ i \in Int
    BY <1>9
  <2> QED
    BY <2>1
<1>11. DOMAIN InOrder(S) = 1 .. N
  BY DEF InOrder
<1>12. \A i \in 1 .. N : InOrder(S)[i] \in S /\ place[InOrder(S)[i]] = i
  <2> SUFFICES ASSUME NEW i \in 1 .. N PROVE InOrder(S)[i] \in S /\ place[InOrder(S)[i]] = i
    OBVIOUS
  <2>1. InOrder(S)[i] = CHOOSE n \in S : Cardinality(Smaller(S, n)) = i - 1
    BY DEF InOrder, Smaller
  <2>2. \E n \in S : Cardinality(Smaller(S, n)) = i - 1
    BY <1>8, <1>10
  <2>3. InOrder(S)[i] \in S /\ Cardinality(Smaller(S, InOrder(S)[i])) = i - 1
    BY <2>1, <2>2
  <2> QED
    BY <1>10, <2>3
<1>13. InOrder(S) \in [1 .. N -> S]
  BY <1>11, <1>12 DEF InOrder
<1>14. ASSUME NEW n \in S PROVE \E i \in 1 .. N : InOrder(S)[i] = n
  <2>1. place[n] \in 1 .. N
    BY <1>9
  <2>2. InOrder(S)[place[n]] \in S /\ place[InOrder(S)[place[n]]] = place[n]
    BY <1>12, <2>1
  <2>3. InOrder(S)[place[n]] = n
    BY <1>5, <2>2
  <2> QED
    BY <2>1, <2>3
<1>15. Len(InOrder(S)) = N
  BY <1>1, <1>13
<1> QED
  BY <1>12, <1>13, <1>14, <1>15

(* The space files take is a number, whatever order MapThenSumSet adds     *)
(* their sizes in.                                                         *)
One(s) == CHOOSE x \in s : TRUE

SizeOfFiles(content, S) ==
  CHOOSE f : f = [s \in SUBSET S |->
                    IF s = {} THEN 0 ELSE Len(content[One(s)]) + f[s \ {One(s)}]]

LEMMA LessOne ==
  ASSUME NEW S, S \subseteq FileNames, NEW s \in SUBSET S, s # {}
  PROVE  /\ One(s) \in s /\ s \ {One(s)} \in SUBSET S
         /\ Cardinality(s) \in Nat /\ Cardinality(s) # 0
         /\ Cardinality(s \ {One(s)}) = Cardinality(s) - 1
<1>1. One(s) \in s
  BY DEF One
<1>2. IsFiniteSet(s) /\ Cardinality(s) \in Nat
  BY FileNamesFacts
<1>3. Cardinality(s \ {One(s)}) = Cardinality(s) - 1
  BY <1>1, <1>2, FS_RemoveElement
<1>4. Cardinality(s) # 0
  BY <1>2, FS_EmptySet
<1> QED
  BY <1>1, <1>2, <1>3, <1>4

LEMMA SizeIsNumber ==
  ASSUME NEW S, S \subseteq FileNames, NEW content, \A n \in S : Len(content[n]) \in Nat
  PROVE  SizeOfFiles(content, S)[S] \in Nat
<1> DEFINE Small(n) == {s \in SUBSET S : Cardinality(s) <= n}
           Sums(f, n) == \A s \in Small(n) :
                           f[s] = IF s = {} THEN 0 ELSE Len(content[One(s)]) + f[s \ {One(s)}]
           P(n) == \E f \in [Small(n) -> Nat] : Sums(f, n)
           B == {n \in Nat : ~P(n)}
<1>1. P(0)
  <2>1. Small(0) \subseteq {{}}
    <3> SUFFICES ASSUME NEW s \in Small(0), s # {} PROVE FALSE
      OBVIOUS
    <3>1. s \in SUBSET S /\ Cardinality(s) <= 0
      OBVIOUS
    <3>2. Cardinality(s) \in Nat /\ Cardinality(s) # 0
      BY <3>1, LessOne
    <3> QED
      BY <3>1, <3>2
  <2> DEFINE f == [s \in Small(0) |-> 0]
  <2>2. f \in [Small(0) -> Nat] /\ Sums(f, 0)
    BY <2>1
  <2> QED
    BY <2>2
<1>2. ASSUME NEW n \in Nat, P(n) PROVE P(n + 1)
  <2>1. PICK f \in [Small(n) -> Nat] : Sums(f, n)
    BY <1>2
  <2> DEFINE g == [s \in Small(n + 1) |->
                     IF s = {} THEN 0 ELSE Len(content[One(s)]) + f[s \ {One(s)}]]
  <2>2. ASSUME NEW s \in Small(n + 1), s # {}
        PROVE  /\ s \ {One(s)} \in Small(n) /\ s \ {One(s)} \in Small(n + 1)
               /\ Len(content[One(s)]) \in Nat
    <3>1. /\ One(s) \in s /\ s \ {One(s)} \in SUBSET S /\ Cardinality(s) \in Nat
          /\ Cardinality(s \ {One(s)}) = Cardinality(s) - 1
      BY <2>2, LessOne
    <3>2. Cardinality(s) - 1 <= n /\ Cardinality(s) - 1 <= n + 1
      BY <3>1
    <3> QED
      BY <3>1, <3>2
  <2>3. g \in [Small(n + 1) -> Nat]
    <3> SUFFICES ASSUME NEW s \in Small(n + 1), s # {}
                 PROVE  Len(content[One(s)]) + f[s \ {One(s)}] \in Nat
      OBVIOUS
    <3>1. Len(content[One(s)]) \in Nat /\ s \ {One(s)} \in Small(n)
      BY <2>2
    <3>2. f[s \ {One(s)}] \in Nat
      BY <3>1
    <3> QED
      BY <3>1, <3>2
  <2>4. ASSUME NEW t \in Small(n) PROVE t \in Small(n + 1) /\ g[t] = f[t]
    <3>1. t \in Small(n + 1)
      <4>1. Cardinality(t) \in Nat
        BY FileNamesFacts
      <4> QED
        BY <4>1
    <3> QED
      BY <2>1, <3>1
  <2>5. Sums(g, n + 1)
    BY <2>2, <2>4
  <2> QED
    BY <2>3, <2>5
<1> DEFINE N == Cardinality(S)
<1>3. N \in Nat /\ Small(N) = SUBSET S
  BY FileNamesFacts, FS_Subset
<1>4. P(N)
  <2> HIDE DEF P
  <2>1. B = {}
    <3> SUFFICES ASSUME B # {} PROVE FALSE
      OBVIOUS
    <3>1. PICK m \in B : \A x \in B : m <= x
      BY LeastNatural
    <3>2. m \in Nat /\ ~P(m) /\ \A x \in Nat : ~P(x) => m <= x
      BY <3>1
    <3>3. m # 0
      BY <1>1, <3>2
    <3>4. m - 1 \in Nat /\ (m - 1) + 1 = m /\ ~(m <= m - 1)
      BY <3>2, <3>3
    <3>5. P(m - 1)
      BY <3>2, <3>4
    <3>6. P((m - 1) + 1)
      BY <1>2, <3>4, <3>5
    <3> QED
      BY <3>2, <3>4, <3>6
  <2> QED
    BY <1>3, <2>1
<1>5. PICK f \in [SUBSET S -> Nat] :
        \A s \in SUBSET S : f[s] = IF s = {} THEN 0 ELSE Len(content[One(s)]) + f[s \ {One(s)}]
  BY <1>3, <1>4
<1>6. f = [s \in SUBSET S |-> IF s = {} THEN 0 ELSE Len(content[One(s)]) + f[s \ {One(s)}]]
  BY <1>5
<1> DEFINE F == SizeOfFiles(content, S)
<1>7. F = [s \in SUBSET S |->
             IF s = {} THEN 0 ELSE Len(content[One(s)]) + F[s \ {One(s)}]]
  BY <1>6 DEF SizeOfFiles
<1> HIDE DEF P, B, N, Small, Sums, F
<1>8. \A s \in SUBSET S : F[s] = IF s = {} THEN 0 ELSE Len(content[One(s)]) + F[s \ {One(s)}]
  BY <1>7
<1> DEFINE bad == {s \in SUBSET S : F[s] \notin Nat}
           sizes == {Cardinality(s) : s \in bad}
<1>9. bad = {}
  <2> SUFFICES ASSUME bad # {} PROVE FALSE
    OBVIOUS
  <2>1. sizes \subseteq Nat /\ sizes # {}
    BY FileNamesFacts
  <2>2. PICK k \in sizes : \A x \in sizes : k <= x
    BY <2>1, LeastNatural
  <2>3. PICK s \in bad : Cardinality(s) = k
    BY <2>2
  <2>4. s \in SUBSET S /\ F[s] \notin Nat /\ s # {}
    <3>1. s \in SUBSET S /\ F[s] \notin Nat
      BY <2>3
    <3>2. s = {} => F[s] = 0
      BY <1>8, <3>1
    <3>3. 0 \in Nat
      OBVIOUS
    <3> HIDE DEF F
    <3> QED
      BY <3>1, <3>2, <3>3
  <2>5. /\ One(s) \in s /\ s \ {One(s)} \in SUBSET S /\ Cardinality(s) \in Nat
        /\ Cardinality(s \ {One(s)}) = Cardinality(s) - 1
    BY <2>4, LessOne
  <2>6. F[s \ {One(s)}] \notin Nat
    <3>1. F[s] = Len(content[One(s)]) + F[s \ {One(s)}] /\ Len(content[One(s)]) \in Nat
      BY <1>8, <2>4, <2>5
    <3> QED
      BY <2>4, <3>1
  <2>7. Cardinality(s) - 1 \in sizes
    <3>1. s \ {One(s)} \in bad
      BY <2>5, <2>6
    <3>2. Cardinality(s \ {One(s)}) \in sizes
      BY <3>1
    <3> QED
      BY <2>5, <3>2
  <2> HIDE DEF sizes, bad
  <2> QED
    BY <2>2, <2>3, <2>5, <2>7
<1> QED
  BY <1>9 DEF F

LEMMA UnitsAreNumber ==
  ASSUME NEW content, \A n \in FileNames : content[n] # None => Len(content[n]) \in Nat
  PROVE  UnitsOn(content) \in Nat
<1> DEFINE S == {n \in FileNames : content[n] # None}
<1>1. UnitsOn(content) = SizeOfFiles(content, S)[S]
  BY DEF UnitsOn, MapThenSumSet, MapThenFoldSet, SizeOfFiles, One
<1>2. SizeOfFiles(content, S)[S] \in Nat
  BY SizeIsNumber
<1> QED
  BY <1>1, <1>2

-----------------------------------------------------------------------------
(* Contents.                                                               *)

LEMMA UnitsAre == \A u \in Units : u \in Nat /\ u # 0
<1> SUFFICES ASSUME NEW u \in Units PROVE u \in Nat /\ u # 0
  OBVIOUS
<1>1. PICK data \in Payloads : \E i \in DOMAIN data : u = data[i]
  BY DEF Units, ToSet
<1>2. data \in Seq(Nat \ {0})
  BY PayloadsAssumption
<1> QED
  BY <1>1, <1>2

LEMMA NoneIs ==
  /\ None \notin Seq(Units) /\ Len(None) = 1
  /\ <<>> \in Seq(Units) /\ Len(<<>>) = 0 /\ <<>> # None
<1>1. Len(None) = 1 /\ None[1] = 0
  BY DEF None
<1>2. ASSUME None \in Seq(Units) PROVE FALSE
  <2>1. None[1] \in Units
    BY <1>1, <1>2
  <2> QED
    BY <1>1, <2>1, UnitsAre
<1> QED
  BY <1>1, <1>2

LEMMA ContentsAre ==
  \A c : c \in Contents <=> c = None \/ (c \in Seq(Units) /\ Len(c) <= MaxFileSize)
<1>1. MaxFileSize \in Nat
  BY LimitsAssumption
<1>2. ASSUME NEW c, c \in UNION {[1 .. m -> Units] : m \in 0 .. MaxFileSize}
      PROVE  c \in Seq(Units) /\ Len(c) <= MaxFileSize
  <2>1. PICK m \in 0 .. MaxFileSize : c \in [1 .. m -> Units]
    BY <1>2
  <2>2. c \in Seq(Units) /\ Len(c) = m
    BY <1>1, <2>1
  <2> QED
    BY <1>1, <2>2
<1>3. ASSUME NEW c \in Seq(Units), Len(c) <= MaxFileSize
      PROVE  c \in UNION {[1 .. m -> Units] : m \in 0 .. MaxFileSize}
  <2>1. Len(c) \in 0 .. MaxFileSize /\ c \in [1 .. Len(c) -> Units]
    BY <1>1, <1>3
  <2> QED
    BY <2>1
<1> QED
  BY <1>2, <1>3 DEF Contents, BoundedSeq, SeqOf

LEMMA OverIs ==
  ASSUME NEW data \in Seq(Units), NEW content \in Seq(Units)
  PROVE  /\ Over(data, content) \in Seq(Units)
         /\ \A k \in Nat : Len(data) <= k /\ Len(content) <= k => Len(Over(data, content)) <= k
<1>1. Len(data) \in Nat /\ Len(content) \in Nat
  OBVIOUS
<1> DEFINE rest == SubSeq(content, Len(data) + 1, Len(content))
<1>2. rest \in Seq(Units)
  <2>1. \A i \in Len(data) + 1 .. Len(content) : content[i] \in Units
    BY <1>1
  <2> QED
    BY <1>1, <2>1, SubSeqProperties
<1>3. Len(rest) = IF Len(data) + 1 <= Len(content) THEN Len(content) - Len(data) ELSE 0
  BY <1>1, SubSeqProperties
<1>4. data \o rest \in Seq(Units) /\ Len(data \o rest) = Len(data) + Len(rest)
  BY <1>2, ConcatProperties
<1>5. Over(data, content) = data \o rest
  BY DEF Over
<1> HIDE DEF rest
<1> QED
  BY <1>1, <1>3, <1>4, <1>5

-----------------------------------------------------------------------------
(* The inductive invariant of the cache. A row shows a file that is there  *)
(* or nothing, the open file is there, and unless a scan or a creation     *)
(* failed there are no more files than rows.                               *)
NothingMissed == trouble \cap {"scan", "orphan", "past"} = {}

RowsShowFiles ==
  halted = "no" =>
    /\ numFiles <= MaxNumFiles
    /\ \A i \in 1 .. numFiles : names[i] \in OnDisk \cup {NoName}

OpenFileIsThere ==
  handle.name \in FileNames => disk[handle.name] # None /\ handle.content # None

FilesFitRows == NothingMissed => Cardinality(OnDisk) <= MaxNumFiles

ListInv == CacheIsDirectory /\ RowsSuffice /\ RowsShowFiles /\ FilesFitRows

CacheInv == TypeOK /\ call.data \in Seq(Units) /\ OpenFileIsThere /\ ListInv

ListType ==
  /\ names \in [Rows -> FileNames \cup {NoName}] /\ numFiles \in Nat
  /\ trouble \subseteq {"past", "scan", "orphan", "left"}

LEMMA OnDiskFacts ==
  /\ OnDisk \subseteq FileNames /\ IsFiniteSet(OnDisk) /\ Cardinality(OnDisk) \in Nat
  /\ MaxNumFiles \in Nat \ {0} /\ NoName \notin FileNames
<1>1. OnDisk \subseteq FileNames
  BY DEF OnDisk
<1> QED
  BY <1>1, FileNamesFacts, LimitsAssumption, NamesAssumption DEF NoName

(* A step that touches no list, no file and no failure.                    *)
LEMMA SameList ==
  ASSUME ListInv, OnDisk' = OnDisk, UNCHANGED <<mounted, names, numFiles, halted>>,
         trouble' = trouble \/ trouble' = trouble \cup {"left"}
  PROVE  ListInv'
<1>1. /\ trouble' \cap {"scan", "orphan"} = trouble \cap {"scan", "orphan"}
      /\ trouble' \cap {"scan", "orphan", "past"} = trouble \cap {"scan", "orphan", "past"}
  OBVIOUS
<1>2. CacheIsDirectory'
  BY <1>1 DEF ListInv, CacheIsDirectory
<1>3. RowsSuffice'
  BY <1>1 DEF ListInv, RowsSuffice
<1>4. RowsShowFiles'
  BY <1>1 DEF ListInv, RowsShowFiles
<1>5. FilesFitRows'
  BY <1>1 DEF ListInv, FilesFitRows, NothingMissed
<1> QED
  BY <1>2, <1>3, <1>4, <1>5 DEF ListInv

(* Halting on an assertion changes nothing else.                           *)
LEMMA HaltKeepsCache ==
  ASSUME CacheInv, NEW reason \in {"open", "fault"}, Halt(reason)
  PROVE  CacheInv'
<1>1. TypeOK' /\ (call.data \in Seq(Units))' /\ OpenFileIsThere'
  BY DEF CacheInv, Halt, TypeOK, OpenFileIsThere
<1>2. OnDisk' = OnDisk
  BY DEF Halt, OnDisk
<1>3. halted' # "no" /\ halted' # "overflow"
  BY DEF Halt
<1>4. CacheIsDirectory' /\ RowsSuffice' /\ RowsShowFiles'
  BY <1>3 DEF CacheIsDirectory, RowsSuffice, RowsShowFiles
<1>5. FilesFitRows'
  BY <1>2 DEF CacheInv, ListInv, FilesFitRows, NothingMissed, Halt
<1> QED
  BY <1>1, <1>4, <1>5 DEF CacheInv, ListInv

(* A scan of the directory lists the files in order, as many as it sees.   *)
LEMMA RefreshKeepsList ==
  ASSUME ListType, ListInv, halted = "no", OnDisk' \subseteq OnDisk,
         NEW content, content = disk', Refresh(content)
  PROVE  ListType' /\ ListInv'
<1>1. PICK S : S = OnDisk'
  OBVIOUS
<1>2. PICK s : s = InOrder(S)
  OBVIOUS
<1>3. S \subseteq FileNames /\ IsFiniteSet(S) /\ Cardinality(S) \in Nat
  BY <1>1, FileNamesFacts DEF OnDisk
<1>4. /\ s \in [1 .. Cardinality(S) -> S] /\ {s[i] : i \in 1 .. Cardinality(S)} = S
      /\ Len(s) = Cardinality(S)
  BY <1>2, <1>3, InOrderIs
<1>5. Cardinality(S) <= Cardinality(OnDisk)
  BY <1>1, OnDiskFacts, FS_Subset
<1>6. /\ Cardinality(OnDisk) \in Nat /\ MaxNumFiles \in Nat /\ NoName \notin FileNames
      /\ (NothingMissed => Cardinality(S) <= MaxNumFiles)
  BY <1>3, <1>5, OnDiskFacts DEF ListInv, FilesFitRows
<1>7. {n \in FileNames : content[n] # None} = S
  BY <1>1 DEF OnDisk
<1>8. CASE \E k \in 0 .. Len(s) :
             /\ names' = [i \in Rows |-> IF i <= k THEN s[i] ELSE NoName]
             /\ numFiles' = k
             /\ trouble' = IF k = Len(s) THEN trouble ELSE trouble \cup {"scan"}
             /\ halted' = IF k > MaxNumFiles THEN "overflow" ELSE halted
  <2>1. PICK k \in 0 .. Len(s) :
             /\ names' = [i \in Rows |-> IF i <= k THEN s[i] ELSE NoName]
             /\ numFiles' = k
             /\ trouble' = IF k = Len(s) THEN trouble ELSE trouble \cup {"scan"}
             /\ halted' = IF k > MaxNumFiles THEN "overflow" ELSE halted
    BY <1>8
  <2>2. k \in Nat /\ k <= Cardinality(S) /\ \A i \in 1 .. k : s[i] \in S
    BY <1>3, <1>4
  <2>3. \A i \in Rows : i <= k => names'[i] = s[i] /\ s[i] \in S
    BY <1>6, <2>1, <2>2 DEF Rows
  <2>4. ListType'
    <3>1. \A i \in Rows : i <= k => s[i] \in FileNames
      BY <1>3, <2>3
    <3>2. names' \in [Rows -> FileNames \cup {NoName}]
      BY <2>1, <3>1
    <3>3. trouble' \subseteq {"past", "scan", "orphan", "left"}
      BY <2>1 DEF ListType
    <3> QED
      BY <2>1, <2>2, <3>2, <3>3 DEF ListType
  <2>5. halted' = "no" => k <= MaxNumFiles
    BY <1>6, <2>1, <2>2
  <2>6. k <= MaxNumFiles => \A i \in 1 .. k : names'[i] = s[i] /\ s[i] \in S
    BY <1>6, <2>2, <2>3 DEF Rows
  <2>7. CacheIsDirectory'
    <3> SUFFICES ASSUME halted' = "no", trouble' \cap {"scan", "orphan"} = {}
                 PROVE  /\ {names'[i] : i \in 1 .. numFiles'} = OnDisk'
                        /\ numFiles' = Cardinality(OnDisk')
      BY DEF CacheIsDirectory
    <3>1. k = Len(s)
      BY <2>1
    <3>2. \A i \in 1 .. k : names'[i] = s[i]
      BY <2>5, <2>6
    <3>3. {names'[i] : i \in 1 .. k} = {s[i] : i \in 1 .. k}
      BY <3>2
    <3>4. k = Cardinality(S)
      BY <1>4, <3>1
    <3> QED
      BY <1>1, <1>4, <2>1, <3>3, <3>4
  <2>8. RowsShowFiles'
    BY <1>1, <2>1, <2>5, <2>6 DEF RowsShowFiles
  <2>9. RowsSuffice'
    <3> SUFFICES ASSUME k > MaxNumFiles PROVE trouble' \cap {"scan", "orphan", "past"} # {}
      BY <2>1 DEF RowsSuffice
    <3>1. ~(Cardinality(S) <= MaxNumFiles)
      BY <1>3, <1>6, <2>2
    <3>2. ~NothingMissed
      BY <1>6, <3>1
    <3> QED
      BY <2>1, <3>2 DEF NothingMissed
  <2>10. FilesFitRows'
    <3>1. NothingMissed' => NothingMissed
      BY <2>1 DEF NothingMissed
    <3> QED
      BY <1>1, <1>6, <3>1 DEF FilesFitRows
  <2> QED
    BY <2>4, <2>7, <2>8, <2>9, <2>10 DEF ListInv
<1>9. CASE names' = NoNames /\ UNCHANGED <<numFiles, halted>> /\ trouble' = trouble \cup {"scan"}
  <2>1. ListType'
    BY <1>9 DEF ListType, NoNames
  <2>2. CacheIsDirectory' /\ RowsSuffice' /\ FilesFitRows'
    BY <1>9 DEF CacheIsDirectory, RowsSuffice, FilesFitRows, NothingMissed
  <2>3. RowsShowFiles'
    <3>1. numFiles \in Nat /\ numFiles <= MaxNumFiles /\ numFiles' = numFiles
      BY <1>9 DEF ListType, ListInv, RowsShowFiles
    <3>2. \A i \in 1 .. numFiles : i \in Rows
      BY <1>6, <3>1 DEF Rows
    <3>3. \A i \in 1 .. numFiles : names'[i] = NoName
      BY <1>9, <3>2 DEF NoNames
    <3> QED
      BY <3>1, <3>3 DEF RowsShowFiles
  <2> QED
    BY <2>1, <2>2, <2>3 DEF ListInv
<1>10. Refresh(content)
  OBVIOUS
<1> QED
  BY <1>2, <1>7, <1>8, <1>9, <1>10 DEF Refresh

LEMMA ContentFacts ==
  /\ <<>> \in Contents /\ <<>> # None /\ None \in Contents
  /\ \A c \in Contents : c # None => c \in Seq(Units) /\ Len(c) \in 0 .. MaxFileSize
<1>1. MaxFileSize \in Nat
  BY LimitsAssumption
<1>2. ASSUME NEW c \in Contents, c # None PROVE c \in Seq(Units) /\ Len(c) \in 0 .. MaxFileSize
  <2>1. c \in Seq(Units) /\ Len(c) <= MaxFileSize
    BY <1>2, ContentsAre
  <2>2. Len(c) \in Nat
    BY <2>1, LenProperties
  <2> QED
    BY <1>1, <2>1, <2>2
<1>3. <<>> \in Contents /\ <<>> # None /\ None \in Contents
  <2>1. <<>> \in Seq(Units) /\ Len(<<>>) <= MaxFileSize
    BY <1>1, NoneIs
  <2> QED
    BY <2>1, ContentsAre, NoneIs
<1> QED
  BY <1>2, <1>3

(* A name the cache knows is on the partition.                             *)
LEMMA CachedIsThere ==
  ASSUME CacheInv, halted = "no", NEW n \in FileNames, Cached(n)
  PROVE  n \in OnDisk /\ disk[n] # None
<1>1. n \in OnDisk \cup {NoName} /\ n # NoName
  BY OnDiskFacts DEF CacheInv, ListInv, RowsShowFiles, Cached
<1> QED
  BY <1>1 DEF OnDisk

(* A name the cache gets: the file is there from now on.                   *)
LEMMA NewNameKeepsList ==
  ASSUME TypeOK, ListInv, NEW n \in FileNames, mounted, halted = "no", ~Cached(n),
         numFiles < MaxNumFiles, disk' = [disk EXCEPT ![n] = <<>>], numFiles' = numFiles + 1,
         names' = [names EXCEPT ![numFiles + 1] = n], UNCHANGED <<mounted, halted, trouble>>
  PROVE  /\ names' \in [Rows -> FileNames \cup {NoName}] /\ numFiles' \in Nat
         /\ ListInv'
<1>1. /\ numFiles \in Nat /\ MaxNumFiles \in Nat /\ names \in [Rows -> FileNames \cup {NoName}]
      /\ numFiles + 1 \in Rows
  BY OnDiskFacts DEF TypeOK, Rows
<1>2. OnDisk' = OnDisk \cup {n}
  BY NoneIs DEF OnDisk, TypeOK
<1>3. names'[numFiles + 1] = n /\ \A i \in 1 .. numFiles : names'[i] = names[i] /\ names[i] # n
  <2>1. \A i \in 1 .. numFiles : i \in Rows /\ i # numFiles + 1
    BY <1>1 DEF Rows
  <2> QED
    BY <1>1, <2>1 DEF Cached
<1>4. \A i \in 1 .. numFiles + 1 : i \in 1 .. numFiles \/ i = numFiles + 1
  BY <1>1
<1>5. \A i \in 1 .. numFiles : i \in 1 .. numFiles + 1
  BY <1>1
<1>6. numFiles + 1 \in 1 .. numFiles + 1
  BY <1>1
<1>7. {names'[i] : i \in 1 .. numFiles + 1} = {names[i] : i \in 1 .. numFiles} \cup {n}
  BY <1>3, <1>4, <1>5, <1>6
<1>8. ASSUME trouble \cap {"scan", "orphan"} = {}
      PROVE  /\ {names'[i] : i \in 1 .. numFiles + 1} = OnDisk'
             /\ numFiles + 1 = Cardinality(OnDisk')
  <2>1. {names[i] : i \in 1 .. numFiles} = OnDisk /\ numFiles = Cardinality(OnDisk)
    BY <1>8 DEF ListInv, CacheIsDirectory
  <2>2. n \notin OnDisk
    BY <1>3, <2>1
  <2>3. Cardinality(OnDisk \cup {n}) = Cardinality(OnDisk) + 1
    BY <2>2, OnDiskFacts, FS_AddElement
  <2> QED
    BY <1>2, <1>7, <2>1, <2>3
<1>9. CacheIsDirectory'
  BY <1>8 DEF CacheIsDirectory
<1>10. RowsSuffice'
  BY DEF RowsSuffice
<1>11. RowsShowFiles'
  <2>1. numFiles + 1 <= MaxNumFiles
    BY <1>1
  <2>2. \A i \in 1 .. numFiles : names'[i] \in OnDisk' \cup {NoName}
    BY <1>2, <1>3 DEF ListInv, RowsShowFiles
  <2>3. \A i \in 1 .. numFiles + 1 : names'[i] \in OnDisk' \cup {NoName}
    BY <1>2, <1>3, <1>4, <2>2
  <2> QED
    BY <2>1, <2>3 DEF RowsShowFiles
<1>12. FilesFitRows'
  BY <1>1, <1>8 DEF FilesFitRows, NothingMissed
<1>13. names' \in [Rows -> FileNames \cup {NoName}] /\ numFiles' \in Nat
  BY <1>1
<1> QED
  BY <1>9, <1>10, <1>11, <1>12, <1>13 DEF ListInv

(* An open file is on the partition, whether it was or not.                *)
LEMMA OpeningKeepsCache ==
  ASSUME CacheInv, NEW n \in FileNames, NEW createNew, MayOpen(n, createNew),
         mounted, halted = "no", Fopen(n), UNCHANGED <<mounted, used, halted, trouble>>
  PROVE  /\ disk' \in [FileNames -> Contents]
         /\ names' \in [Rows -> FileNames \cup {NoName}] /\ numFiles' \in Nat
         /\ handle'.name \in FileNames \cup {NoName} /\ handle'.content \in Contents
         /\ path' \in FileNames \cup {NoName} /\ openSize' \in 0 .. MaxFileSize
         /\ OpenFileIsThere' /\ ListInv'
<1>1. /\ disk \in [FileNames -> Contents] /\ openSize \in 0 .. MaxFileSize
      /\ names \in [Rows -> FileNames \cup {NoName}] /\ numFiles \in Nat
  BY DEF CacheInv, TypeOK
<1>2. disk' \in [FileNames -> Contents] /\ disk'[n] \in Contents /\ disk'[n] # None
  <2>1. CASE Cached(n)
    BY <1>1, <2>1, CachedIsThere DEF Fopen
  <2>2. CASE ~Cached(n)
    BY <1>1, <2>2, ContentFacts DEF Fopen
  <2> QED
    BY <2>1, <2>2
<1>3. handle' = [name |-> n, content |-> disk'[n]]
  BY DEF Fopen
<1>4. path' \in FileNames \cup {NoName}
  BY DEF Fopen
<1>5. openSize' \in 0 .. MaxFileSize
  <2>1. Len(disk'[n]) \in 0 .. MaxFileSize
    BY <1>2, ContentFacts
  <2>2. openSize' = openSize \/ openSize' = Len(disk'[n])
    BY DEF Fopen
  <2> QED
    BY <1>1, <2>1, <2>2
<1>6. OpenFileIsThere'
  BY <1>2, <1>3 DEF OpenFileIsThere
<1>7. names' \in [Rows -> FileNames \cup {NoName}] /\ numFiles' \in Nat /\ ListInv'
  <2>1. CASE Cached(n)
    <3>1. UNCHANGED <<disk, names, numFiles>>
      BY <2>1 DEF Fopen
    <3>2. OnDisk' = OnDisk
      BY <3>1 DEF OnDisk
    <3> QED
      BY <1>1, <3>1, <3>2, SameList DEF CacheInv
  <2>2. CASE ~Cached(n)
    <3>1. numFiles < MaxNumFiles
      BY <2>2 DEF MayOpen
    <3>2. /\ disk' = [disk EXCEPT ![n] = <<>>] /\ numFiles' = numFiles + 1
          /\ names' = [names EXCEPT ![numFiles + 1] = n]
      BY <2>2 DEF Fopen
    <3> QED
      BY <2>2, <3>1, <3>2, NewNameKeepsList DEF CacheInv
  <2> QED
    BY <2>1, <2>2
<1> QED
  BY <1>2, <1>3, <1>4, <1>5, <1>6, <1>7

(* Closing puts an open file's content where there was one.                *)
LEMMA ClosingKeepsCache ==
  ASSUME ContentsInv, CacheInv, Close, call.at # "idle",
         UNCHANGED <<mounted, names, numFiles, used, halted>>
  PROVE  /\ disk' \in [FileNames -> Contents]
         /\ handle'.name \in FileNames \cup {NoName} /\ handle'.content \in Contents
         /\ path' \in FileNames \cup {NoName} /\ openSize' \in 0 .. MaxFileSize
         /\ trouble' \subseteq {"past", "scan", "orphan", "left"}
         /\ OpenFileIsThere' /\ ListInv'
<1>1. /\ disk \in [FileNames -> Contents] /\ openSize \in 0 .. MaxFileSize
      /\ handle.content \in Contents /\ path \in FileNames \cup {NoName}
      /\ trouble \subseteq {"past", "scan", "orphan", "left"}
  BY DEF CacheInv, TypeOK
<1>2. handle.name \in FileNames
  BY DEF ContentsInv, Under
<1>3. disk[handle.name] # None /\ handle.content # None
  BY <1>2 DEF CacheInv, OpenFileIsThere
<1>4. CASE /\ disk' = [disk EXCEPT ![handle.name] = handle.content]
           /\ handle' = NoHandle /\ path' = NoName /\ openSize' = 0
           /\ UNCHANGED trouble
  <2>1. OnDisk' = OnDisk
    BY <1>1, <1>2, <1>3, <1>4 DEF OnDisk
  <2>2. ListInv'
    BY <1>4, <2>1, SameList DEF CacheInv
  <2>3. OpenFileIsThere'
    BY <1>4, OnDiskFacts DEF OpenFileIsThere, NoHandle
  <2>4. openSize' \in 0 .. MaxFileSize
    BY <1>4, LimitsAssumption
  <2> QED
    BY <1>1, <1>2, <1>4, <2>2, <2>3, <2>4, ContentFacts DEF NoHandle
<1>5. CASE trouble' = trouble \cup {"left"} /\ UNCHANGED <<disk, handle, path, openSize>>
  <2>1. OnDisk' = OnDisk
    BY <1>5 DEF OnDisk
  <2>2. ListInv'
    BY <1>5, <2>1, SameList DEF CacheInv
  <2> QED
    BY <1>1, <1>2, <1>5, <2>2 DEF CacheInv, OpenFileIsThere
<1> QED
  BY <1>4, <1>5 DEF Close

(* What a write is to leave is made of units.                              *)
LEMMA PromisedIsUnits ==
  ASSUME CacheInv, halted = "no", NEW n \in FileNames, NEW data \in Payloads
  PROVE  /\ data \in Seq(Units)
         /\ MayLeave(n, data) \in SUBSET ({None} \cup Seq(Units))
<1>1. data \in Seq(Units)
  <2>1. data \in Seq(Nat \ {0})
    BY PayloadsAssumption
  <2>2. Len(data) \in Nat /\ data \in [1 .. Len(data) -> Nat \ {0}]
    BY <2>1, LenProperties
  <2>3. \A i \in 1 .. Len(data) : data[i] \in Units
    BY <2>2 DEF Units, ToSet
  <2> QED
    BY <2>2, <2>3
<1>2. Intended(n, data) \in Seq(Units)
  <2>1. Cached(n) => disk[n] \in Seq(Units)
    BY CachedIsThere, ContentFacts DEF CacheInv, TypeOK
  <2>2. PICK old : old = IF Cached(n) THEN disk[n] ELSE <<>>
    OBVIOUS
  <2>3. old \in Seq(Units)
    BY <2>1, <2>2
  <2>4. Over(data, old) \in Seq(Units)
    BY <1>1, <2>3, OverIs
  <2> QED
    BY <2>2, <2>4 DEF Intended
<1>3. promised[n] \in SUBSET ({None} \cup Seq(Units))
  BY DEF CacheInv, TypeOK
<1>4. <<>> \in Seq(Units)
  BY NoneIs
<1> QED
  BY <1>1, <1>2, <1>3, <1>4 DEF MayLeave

LEMMA InitCache == Init => CacheInv
<1> SUFFICES ASSUME Init PROVE CacheInv
  OBVIOUS
<1> USE DEF Init
<1>1. None \in Contents /\ <<>> \in Contents /\ MaxFileSize \in Nat
  BY ContentFacts, LimitsAssumption
<1>2. TypeOK
  <2>1. disk \in [FileNames -> Contents]
    BY <1>1
  <2>2. promised \in [FileNames -> SUBSET ({None} \cup Seq(Units))]
    OBVIOUS
  <2>3. mounted \in BOOLEAN /\ names \in [Rows -> FileNames \cup {NoName}]
    BY DEF NoNames
  <2>4. numFiles \in Nat /\ used \in Nat /\ path \in FileNames \cup {NoName}
          /\ openSize \in 0 .. MaxFileSize
    BY <1>1
  <2>5. handle.name \in FileNames \cup {NoName} /\ handle.content \in Contents
    BY <1>1 DEF NoHandle
  <2>6. call.at \in {"idle", "opened", "written", "lost", "read"}
    BY DEF Idle
  <2> QED
    BY <2>1, <2>2, <2>3, <2>4, <2>5, <2>6 DEF TypeOK
<1>3. OnDisk = {}
  BY DEF OnDisk
<1>4. Cardinality(OnDisk) = 0 /\ MaxNumFiles \in Nat
  BY <1>3, FS_EmptySet, OnDiskFacts
<1>5. ListInv
  BY <1>4 DEF ListInv, CacheIsDirectory, RowsSuffice, RowsShowFiles, FilesFitRows
<1>6. OpenFileIsThere
  BY OnDiskFacts DEF OpenFileIsThere, NoHandle
<1>7. call.data \in Seq(Units)
  BY NoneIs DEF Idle
<1> QED
  BY <1>2, <1>5, <1>6, <1>7 DEF CacheInv

(* Every step keeps the cache.                                             *)
LEMMA NextCache == ContentsInv /\ CacheInv /\ [Next]_vars => CacheInv'
<1> SUFFICES ASSUME ContentsInv, CacheInv, [Next]_vars PROVE CacheInv'
  OBVIOUS
<1>1. ContentsInv'
  BY NextContents
<1>2. /\ call'.at \in {"idle", "opened", "written", "lost", "read"}
      /\ call.at \in {"idle", "opened", "written", "lost", "read"}
      /\ call = [at |-> call.at, name |-> call.name, data |-> call.data,
                 intended |-> call.intended]
  BY <1>1 DEF ContentsInv, CallOK
<1>3. TypeOK /\ call.data \in Seq(Units) /\ OpenFileIsThere /\ ListInv
  BY DEF CacheInv
<1>4. ListType
  BY <1>3 DEF TypeOK, ListType
<1>5. /\ NoNames \in [Rows -> FileNames \cup {NoName}] /\ NoName \notin FileNames
      /\ 0 \in 0 .. MaxFileSize /\ <<>> \in Contents /\ None \in Contents
      /\ <<>> \in Seq(Units) /\ None # <<>>
      /\ MaxFileSize \in Nat /\ MaxNumFiles \in Nat
  BY ContentFacts, OnDiskFacts, LimitsAssumption, NoneIs DEF NoNames
<1>6. ASSUME /\ disk' \in [FileNames -> Contents]
             /\ promised' \in [FileNames -> SUBSET ({None} \cup Seq(Units))]
             /\ mounted' \in BOOLEAN /\ used' \in Nat /\ ListType'
             /\ handle'.name \in FileNames \cup {NoName} /\ handle'.content \in Contents
             /\ path' \in FileNames \cup {NoName} /\ openSize' \in 0 .. MaxFileSize
             /\ call'.data \in Seq(Units) /\ OpenFileIsThere' /\ ListInv'
      PROVE  CacheInv'
  BY <1>2, <1>6 DEF CacheInv, TypeOK, ListType
<1>7. CASE Mount
  <2>1. disk' \in [FileNames -> Contents] /\ OnDisk' \subseteq OnDisk
    BY <1>3, <1>5, <1>7 DEF Mount, TypeOK, OnDisk
  <2>2. promised' \in [FileNames -> SUBSET ({None} \cup Seq(Units))]
    <3>1. \A n \in FileNames : disk'[n] \in {None} \cup Seq(Units)
      BY <2>1, ContentFacts
    <3> QED
      BY <1>7, <3>1 DEF Mount
  <2>3. used' \in Nat
    <3>1. PICK content : content = disk'
      OBVIOUS
    <3>2. \A n \in FileNames : content[n] # None => content[n] \in Seq(Units)
      BY <2>1, <3>1, ContentFacts
    <3>3. \A n \in FileNames : content[n] # None => Len(content[n]) \in Nat
      BY <3>2, LenProperties
    <3>4. UnitsOn(content) \in Nat
      BY <3>3, UnitsAreNumber
    <3> QED
      BY <1>7, <3>1, <3>4 DEF Mount
  <2>4. Refresh(disk') /\ halted = "no"
    BY <1>7 DEF Mount
  <2>5. ListType' /\ ListInv'
    BY <1>3, <1>4, <2>1, <2>4, RefreshKeepsList
  <2>6. OpenFileIsThere'
    BY <1>5, <1>7 DEF Mount, OpenFileIsThere, NoHandle
  <2> QED
    BY <1>5, <1>6, <1>7, <2>1, <2>2, <2>3, <2>5, <2>6 DEF Mount, NoHandle, Idle
<1>8. CASE MountFails \/ (\E createNew \in BOOLEAN : OpenHalts(createNew)) \/ ReadHalts
  <2>1. Halt("open") \/ Halt("fault")
    BY <1>8 DEF MountFails, OpenHalts, ReadHalts
  <2> QED
    BY <2>1, HaltKeepsCache
<1>9. CASE Unmount
  <2>1. CASE Halt("open")
    BY <2>1, HaltKeepsCache
  <2>2. CASE ~Halt("open")
    <3>1. /\ mounted' = FALSE /\ names' = NoNames /\ numFiles' = 0 /\ used' = 0
          /\ path' = NoName /\ openSize' = 0 /\ trouble' = Past /\ call' = Idle
          /\ UNCHANGED <<disk, handle, halted, promised>> /\ halted = "no"
      BY <1>9, <2>2 DEF Unmount
    <3>2. OnDisk' = OnDisk
      BY <3>1 DEF OnDisk
    <3>3. ListInv'
      BY <1>3, <1>5, <3>1, <3>2
      DEF ListInv, CacheIsDirectory, RowsSuffice, RowsShowFiles, FilesFitRows, NothingMissed, Past
    <3>4. ListType'
      BY <1>5, <3>1 DEF ListType, Past
    <3>5. OpenFileIsThere'
      BY <1>3, <3>1 DEF OpenFileIsThere
    <3> QED
      BY <1>3, <1>5, <1>6, <3>1, <3>3, <3>4, <3>5 DEF TypeOK, Idle
  <2> QED
    BY <2>1, <2>2
<1>10. ASSUME NEW n \in FileNames, NEW data \in Payloads, NEW createNew \in BOOLEAN,
              WriteOpens(n, data, createNew)
       PROVE  CacheInv'
  <2>1. /\ mounted /\ halted = "no" /\ MayOpen(n, createNew) /\ Fopen(n)
        /\ UNCHANGED <<mounted, used, halted, trouble>>
    BY <1>10 DEF WriteOpens, Ready
  <2>2. /\ disk' \in [FileNames -> Contents]
        /\ names' \in [Rows -> FileNames \cup {NoName}] /\ numFiles' \in Nat
        /\ handle'.name \in FileNames \cup {NoName} /\ handle'.content \in Contents
        /\ path' \in FileNames \cup {NoName} /\ openSize' \in 0 .. MaxFileSize
        /\ OpenFileIsThere' /\ ListInv'
    BY <2>1, OpeningKeepsCache
  <2>3. data \in Seq(Units) /\ MayLeave(n, data) \in SUBSET ({None} \cup Seq(Units))
    BY <2>1, PromisedIsUnits
  <2>4. promised' \in [FileNames -> SUBSET ({None} \cup Seq(Units))]
    BY <1>3, <1>10, <2>3 DEF WriteOpens, TypeOK
  <2>5. call'.data \in Seq(Units)
    BY <1>10, <2>3 DEF WriteOpens
  <2>6. ListType' /\ mounted' \in BOOLEAN /\ used' \in Nat
    BY <1>3, <1>4, <2>1, <2>2 DEF ListType, TypeOK
  <2> QED
    BY <1>6, <2>2, <2>4, <2>5, <2>6
<1>11. ASSUME NEW n \in FileNames, NEW data \in Payloads, NEW createNew \in BOOLEAN,
              WriteUnopened(n, data, createNew)
       PROVE  CacheInv'
  <2>1. CASE Halt("fault")
    BY <2>1, HaltKeepsCache
  <2>2. CASE /\ trouble' = trouble \cup {"left"}
             /\ UNCHANGED <<disk, mounted, names, numFiles, used, handle, path, openSize, call,
                            halted, promised>>
    <3>1. OnDisk' = OnDisk
      BY <2>2 DEF OnDisk
    <3>2. ListInv'
      BY <1>3, <2>2, <3>1, SameList
    <3>3. ListType' /\ OpenFileIsThere'
      BY <1>3, <1>4, <2>2 DEF ListType, OpenFileIsThere
    <3> QED
      BY <1>3, <1>6, <2>2, <3>2, <3>3 DEF TypeOK
  <2>3. CASE /\ disk' = [disk EXCEPT ![n] = <<>>]
             /\ promised' = [promised EXCEPT ![n] = {<<>>}]
             /\ trouble' = trouble \cup {"left", "orphan"}
             /\ UNCHANGED <<mounted, names, numFiles, used, handle, path, openSize, call, halted>>
    <3>1. disk' \in [FileNames -> Contents] /\ OnDisk \subseteq OnDisk'
      BY <1>3, <1>5, <2>3 DEF TypeOK, OnDisk
    <3>2. promised' \in [FileNames -> SUBSET ({None} \cup Seq(Units))]
      BY <1>3, <1>5, <2>3 DEF TypeOK
    <3>3. ListInv'
      BY <1>3, <2>3, <3>1
      DEF ListInv, CacheIsDirectory, RowsSuffice, RowsShowFiles, FilesFitRows, NothingMissed
    <3>4. OpenFileIsThere'
      BY <1>3, <1>5, <2>3 DEF TypeOK, OpenFileIsThere
    <3>5. ListType'
      BY <1>4, <2>3 DEF ListType
    <3> QED
      BY <1>3, <1>6, <2>3, <3>1, <3>2, <3>3, <3>4, <3>5 DEF TypeOK
  <2> QED
    BY <1>11, <2>1, <2>2, <2>3 DEF WriteUnopened
<1>12. CASE WriteData
  <2>1. /\ call.at = "opened" /\ handle.name \in FileNames
        /\ handle = [name |-> handle.name, content |-> handle.content]
    BY <1>12 DEF WriteData, ContentsInv, Under
  <2>2. /\ UNCHANGED <<disk, mounted, names, numFiles, used, path, halted, promised>>
        /\ (trouble' = trouble \/ trouble' = trouble \cup {"left"})
    BY <1>12 DEF WriteData
  <2>3. OnDisk' = OnDisk
    BY <2>2 DEF OnDisk
  <2>4. ListType' /\ ListInv'
    BY <1>3, <1>4, <2>2, <2>3, SameList DEF ListType
  <2>5. call'.data \in Seq(Units)
    <3>1. \/ call' = Idle
          \/ call' = [call EXCEPT !.at = "written"] \/ call' = [call EXCEPT !.at = "lost"]
      BY <1>12 DEF WriteData, Return
    <3>2. Idle.data = <<>>
      BY DEF Idle
    <3>3. call'.data = <<>> \/ call'.data = call.data
      BY <1>2, <3>1, <3>2
    <3> QED
      BY <1>3, <1>5, <3>3
  <2>6. /\ handle'.name = handle.name /\ handle'.content \in Contents
        /\ handle'.content # None /\ openSize' \in 0 .. MaxFileSize
    <3>1. handle.content \in Contents /\ handle.content # None /\ openSize \in 0 .. MaxFileSize
      BY <1>3, <2>1 DEF TypeOK, OpenFileIsThere
    <3>2. CASE UNCHANGED <<handle, openSize>>
      BY <3>1, <3>2
    <3>3. CASE ~TooLarge(call.data) /\ openSize' = openSize + Len(call.data)
               /\ (handle' = [handle EXCEPT !.content = Over(call.data, @)] \/ UNCHANGED handle)
      <4>1. Len(call.data) \in Nat
        BY <1>3, LenProperties
      <4>2. openSize' \in 0 .. MaxFileSize /\ Len(call.data) <= MaxFileSize
        BY <1>5, <3>1, <3>3, <4>1 DEF TooLarge
      <4>3. handle.content \in Seq(Units) /\ Len(handle.content) <= MaxFileSize
        BY <3>1, ContentFacts
      <4>4. /\ Over(call.data, handle.content) \in Seq(Units)
            /\ Len(Over(call.data, handle.content)) <= MaxFileSize
        BY <1>3, <1>5, <4>2, <4>3, OverIs
      <4>5. Over(call.data, handle.content) \in Contents /\ Over(call.data, handle.content) # None
        BY <4>4, ContentsAre, NoneIs
      <4>6. handle' = [name |-> handle.name, content |-> Over(call.data, handle.content)]
              \/ UNCHANGED handle
        BY <2>1, <3>3
      <4> QED
        BY <3>1, <4>2, <4>5, <4>6
    <3> QED
      BY <1>12, <3>2, <3>3 DEF WriteData
  <2>7. OpenFileIsThere'
    BY <1>3, <2>1, <2>2, <2>6 DEF OpenFileIsThere
  <2> QED
    BY <1>3, <1>6, <2>1, <2>2, <2>4, <2>5, <2>6, <2>7 DEF TypeOK
<1>13. CASE WriteCloses \/ ReadCloses
  <2>1. /\ Close /\ call.at # "idle" /\ call' = Idle
        /\ UNCHANGED <<mounted, names, numFiles, used, halted>>
    BY <1>13 DEF WriteCloses, ReadCloses, Return
  <2>2. /\ disk' \in [FileNames -> Contents]
        /\ handle'.name \in FileNames \cup {NoName} /\ handle'.content \in Contents
        /\ path' \in FileNames \cup {NoName} /\ openSize' \in 0 .. MaxFileSize
        /\ trouble' \subseteq {"past", "scan", "orphan", "left"}
        /\ OpenFileIsThere' /\ ListInv'
    BY <2>1, ClosingKeepsCache
  <2>3. promised' \in [FileNames -> SUBSET ({None} \cup Seq(Units))]
    <3>1. CASE UNCHANGED promised
      BY <1>3, <3>1 DEF TypeOK
    <3>2. CASE /\ call.at = "written"
               /\ promised' = [promised EXCEPT ![call.name] = {call.intended}]
      <4>1. call.name \in FileNames /\ call.intended \in promised[call.name]
        BY <3>2 DEF ContentsInv, Under
      <4>2. call.intended \in {None} \cup Seq(Units)
        BY <1>3, <4>1 DEF TypeOK
      <4> QED
        BY <1>3, <3>2, <4>1, <4>2 DEF TypeOK
    <3> QED
      BY <1>13, <3>1, <3>2 DEF WriteCloses, ReadCloses
  <2>4. ListType' /\ mounted' \in BOOLEAN /\ used' \in Nat
    BY <1>3, <1>4, <2>1, <2>2 DEF ListType, TypeOK
  <2>5. call'.data \in Seq(Units)
    BY <1>5, <2>1 DEF Idle
  <2> QED
    BY <1>6, <2>2, <2>3, <2>4, <2>5
<1>14. ASSUME NEW n \in FileNames, ReadOpens(n) PROVE CacheInv'
  <2>1. /\ mounted /\ halted = "no" /\ MayOpen(n, FALSE) /\ Fopen(n)
        /\ UNCHANGED <<mounted, used, halted, trouble, promised>>
    BY <1>14 DEF ReadOpens, Ready, MayOpen
  <2>2. /\ disk' \in [FileNames -> Contents]
        /\ names' \in [Rows -> FileNames \cup {NoName}] /\ numFiles' \in Nat
        /\ handle'.name \in FileNames \cup {NoName} /\ handle'.content \in Contents
        /\ path' \in FileNames \cup {NoName} /\ openSize' \in 0 .. MaxFileSize
        /\ OpenFileIsThere' /\ ListInv'
    BY <2>1, OpeningKeepsCache
  <2>3. call'.data \in Seq(Units)
    BY <1>5, <1>14 DEF ReadOpens, Idle
  <2>4. ListType' /\ mounted' \in BOOLEAN /\ used' \in Nat
        /\ promised' \in [FileNames -> SUBSET ({None} \cup Seq(Units))]
    BY <1>3, <1>4, <2>1, <2>2 DEF ListType, TypeOK
  <2> QED
    BY <1>6, <2>2, <2>3, <2>4
<1>15. ASSUME NEW n \in FileNames, Delete(n) PROVE CacheInv'
  <2>1. /\ UNCHANGED <<mounted, used, handle, path, openSize>> /\ call' = Idle /\ halted = "no"
    BY <1>15 DEF Delete, Return, Ready
  <2>2. call'.data \in Seq(Units)
    BY <1>5, <2>1 DEF Idle
  <2>3. CASE UNCHANGED <<disk, names, numFiles, halted, trouble, promised>>
    <3>1. OnDisk' = OnDisk
      BY <2>3 DEF OnDisk
    <3>2. ListInv' /\ ListType'
      BY <1>3, <1>4, <2>1, <2>3, <3>1, SameList DEF ListType
    <3>3. OpenFileIsThere'
      BY <1>3, <2>1, <2>3 DEF OpenFileIsThere
    <3> QED
      BY <1>3, <1>6, <2>1, <2>2, <2>3, <3>2, <3>3 DEF TypeOK
  <2>4. CASE /\ handle.name # n /\ disk' = [disk EXCEPT ![n] = None]
             /\ promised' = [promised EXCEPT ![n] = {None}] /\ Refresh(disk')
    <3>1. disk' \in [FileNames -> Contents] /\ OnDisk' \subseteq OnDisk
      BY <1>3, <1>5, <2>4 DEF TypeOK, OnDisk
    <3>2. ListType' /\ ListInv'
      BY <1>3, <1>4, <2>1, <2>4, <3>1, RefreshKeepsList
    <3>3. OpenFileIsThere'
      BY <1>3, <2>1, <2>4 DEF OpenFileIsThere, TypeOK
    <3>4. promised' \in [FileNames -> SUBSET ({None} \cup Seq(Units))]
      BY <1>3, <2>4 DEF TypeOK
    <3> QED
      BY <1>3, <1>6, <2>1, <2>2, <3>1, <3>2, <3>3, <3>4 DEF TypeOK
  <2> QED
    BY <1>15, <2>3, <2>4 DEF Delete
<1>16. CASE PowerLoss
  <2>1. /\ mounted' = FALSE /\ names' = NoNames /\ numFiles' = 0 /\ used' = 0
        /\ handle' = NoHandle /\ path' = NoName /\ openSize' = 0
        /\ call' = Idle /\ halted' = "no" /\ trouble' = Past /\ disk' = disk
        /\ promised' = [n \in FileNames |-> {disk[n]}]
    BY <1>16 DEF PowerLoss, Reset
  <2>2. OnDisk' = OnDisk
    BY <2>1 DEF OnDisk
  <2>3. ListInv'
    BY <1>3, <1>5, <2>1, <2>2
    DEF ListInv, CacheIsDirectory, RowsSuffice, RowsShowFiles, FilesFitRows, NothingMissed, Past
  <2>4. ListType'
    BY <1>5, <2>1 DEF ListType, Past
  <2>5. OpenFileIsThere'
    BY <1>5, <2>1 DEF OpenFileIsThere, NoHandle
  <2>6. promised' \in [FileNames -> SUBSET ({None} \cup Seq(Units))]
    <3>1. \A n \in FileNames : disk[n] \in {None} \cup Seq(Units)
      BY <1>3, ContentFacts DEF TypeOK
    <3> QED
      BY <2>1, <3>1
  <2> QED
    BY <1>3, <1>5, <1>6, <2>1, <2>3, <2>4, <2>5, <2>6 DEF TypeOK, NoHandle, Idle
<1>17. CASE UNCHANGED vars
  <2>1. UNCHANGED <<disk, mounted, names, numFiles, used, handle, path, openSize, call, halted,
                    trouble, promised>>
    BY <1>17 DEF vars
  <2>2. OnDisk' = OnDisk
    BY <2>1 DEF OnDisk
  <2>3. ListInv' /\ ListType'
    BY <1>3, <1>4, <2>1, <2>2, SameList DEF ListType
  <2>4. OpenFileIsThere'
    BY <1>3, <2>1 DEF OpenFileIsThere
  <2> QED
    BY <1>3, <1>6, <2>1, <2>3, <2>4 DEF TypeOK
<1> QED
  BY <1>7, <1>8, <1>9, <1>10, <1>11, <1>12, <1>13, <1>14, <1>15, <1>16, <1>17 DEF Next

(* The list of files the menu is given is right and fits its rows, however *)
(* files come and go and whichever call fails (fileSys.c:195-296, 374-421). *)
THEOREM CacheStaysSound == Spec => []CacheSound
<1>1. CacheInv => CacheSound
  BY DEF CacheInv, ListInv, CacheSound
<1> QED
  BY Contented, InitCache, NextCache, <1>1, PTL DEF Spec

-----------------------------------------------------------------------------
(* EspLittlefs.                                                            *)

(* Ids of entries: the names before an entry are counted.                  *)

Before(entries, n) == {m \in Present(entries) : m < n}

LEMMA NamesFacts ==
  /\ \A n \in Names : n \in Nat /\ n # 0
  /\ IsFiniteSet(Names) /\ Cardinality(Names) \in Nat
BY PortAssumption, FS_CardinalityType

LEMMA BeforeFinite ==
  ASSUME NEW entries, NEW n
  PROVE  /\ IsFiniteSet(Present(entries)) /\ Cardinality(Present(entries)) \in Nat
         /\ Cardinality(Present(entries)) <= Cardinality(Names)
         /\ IsFiniteSet(Before(entries, n)) /\ Cardinality(Before(entries, n)) \in Nat
         /\ IdOf(entries, n) = 1 + Cardinality(Before(entries, n))
<1>1. Present(entries) \in SUBSET Names
  BY DEF Present
<1>2. /\ IsFiniteSet(Present(entries)) /\ Cardinality(Present(entries)) <= Cardinality(Names)
      /\ Cardinality(Present(entries)) \in Nat
  BY <1>1, NamesFacts, FS_Subset, FS_CardinalityType
<1>3. Before(entries, n) \in SUBSET Present(entries)
  BY DEF Before
<1>4. IsFiniteSet(Before(entries, n)) /\ Cardinality(Before(entries, n)) \in Nat
  BY <1>2, <1>3, FS_Subset, FS_CardinalityType
<1> QED
  BY <1>2, <1>4 DEF IdOf, Before

(* An entry before another has a smaller id, and all ids are within the    *)
(* number of entries.                                                      *)
LEMMA IdsOrdered ==
  ASSUME NEW entries, NEW m \in Present(entries), NEW n \in Names, m < n
  PROVE  IdOf(entries, m) < IdOf(entries, n)
<1>1. m \in Nat /\ n \in Nat /\ \A k \in Present(entries) : k \in Nat
  BY NamesFacts DEF Present
<1>2. Before(entries, m) \in SUBSET Before(entries, n) /\ m \in Before(entries, n)
      /\ m \notin Before(entries, m)
  <2>1. \A k \in Present(entries) : k < m => k < n
    BY <1>1
  <2>2. ~(m < m)
    BY <1>1
  <2> QED
    BY <2>1, <2>2 DEF Before
<1>3. /\ Cardinality(Before(entries, m)) <= Cardinality(Before(entries, n))
      /\ Cardinality(Before(entries, m)) # Cardinality(Before(entries, n))
  BY <1>2, BeforeFinite, FS_Subset
<1> QED
  BY <1>3, BeforeFinite

LEMMA IdsWithin ==
  ASSUME NEW entries, NEW m \in Present(entries)
  PROVE  /\ IdOf(entries, m) \in Nat /\ 1 <= IdOf(entries, m)
         /\ IdOf(entries, m) <= Cardinality(Present(entries))
<1>1. m \notin Before(entries, m) /\ Before(entries, m) \in SUBSET Present(entries)
  BY NamesFacts DEF Present, Before
<1>2. /\ Cardinality(Before(entries, m)) <= Cardinality(Present(entries))
      /\ Cardinality(Before(entries, m)) # Cardinality(Present(entries))
  BY <1>1, BeforeFinite, FS_Subset
<1> QED
  BY <1>2, BeforeFinite

(* What creating and deleting an entry does to the others' ids.            *)
OneMore(entries, others, n) ==
  /\ \A m \in Names :
       /\ n < m => IdOf(others, m) = IdOf(entries, m) + 1
       /\ ~(n < m) => IdOf(others, m) = IdOf(entries, m)
  /\ Present(others) = Present(entries) \cup {n}
  /\ Cardinality(Present(others)) = Cardinality(Present(entries)) + 1

LEMMA IdsAfter ==
  ASSUME NEW entries \in [Names -> {"none", "file", "dir"}], NEW n \in Names, NEW k,
         NEW others, others = [entries EXCEPT ![n] = k], k # "none", entries[n] = "none"
  PROVE  OneMore(entries, others, n)
<1>1. n \in Nat /\ \A i \in Names : i \in Nat
  BY NamesFacts
<1>2. Present(others) = Present(entries) \cup {n} /\ n \notin Present(entries)
  BY DEF Present
<1>3. Cardinality(Present(others)) = Cardinality(Present(entries)) + 1
  BY <1>2, BeforeFinite, FS_AddElement
<1>4. \A i \in Names : ~(n < i) => Before(others, i) = Before(entries, i)
  BY <1>1, <1>2 DEF Before
<1>5. ASSUME NEW m \in Names, n < m PROVE IdOf(others, m) = IdOf(entries, m) + 1
  <2>1. Before(others, m) = Before(entries, m) \cup {n} /\ n \notin Before(entries, m)
    BY <1>1, <1>2, <1>5 DEF Before
  <2>2. Cardinality(Before(others, m)) = Cardinality(Before(entries, m)) + 1
    BY <2>1, BeforeFinite, FS_AddElement
  <2> QED
    BY <2>2, BeforeFinite
<1>6. \A i \in Names : ~(n < i) => IdOf(others, i) = IdOf(entries, i)
  BY <1>4, BeforeFinite
<1> QED
  BY <1>2, <1>3, <1>5, <1>6 DEF OneMore

-----------------------------------------------------------------------------
(* The stream stands somewhere in the directory; what it can still read is *)
(* what it has to return and more.                                         *)
StreamInv(s, entries) ==
  /\ s \in [open : BOOLEAN, id : 0 .. Cardinality(Names) + 1, broken : BOOLEAN, due : SUBSET Names]
  /\ s.due \subseteq Present(entries)
  /\ ~s.open => s.due = {}
  /\ s.open /\ ~s.broken =>
       /\ s.id <= Cardinality(Present(entries)) + 1
       /\ \A n \in s.due : s.id <= IdOf(entries, n)

LEMMA StreamOverDelete ==
  ASSUME NEW entries \in [Names -> {"none", "file", "dir"}], NEW n \in Present(entries), NEW s,
         StreamInv(s, entries)
  PROVE  StreamInv(AfterDelete(s, entries, n), [entries EXCEPT ![n] = "none"])
<1> DEFINE others == [entries EXCEPT ![n] = "none"]
           t == AfterDelete(s, entries, n)
           id == IdOf(entries, n)
<1>1. n \in Names /\ entries[n] # "none" /\ others \in [Names -> {"none", "file", "dir"}]
      /\ entries = [others EXCEPT ![n] = entries[n]] /\ others[n] = "none"
  BY DEF Present
<1>2. \A m \in Names :
        /\ n < m => IdOf(entries, m) = IdOf(others, m) + 1
        /\ ~(n < m) => IdOf(entries, m) = IdOf(others, m)
        /\ IdOf(others, m) \in Nat
  BY <1>1, IdsAfter, BeforeFinite DEF OneMore
<1>3. /\ Present(entries) = Present(others) \cup {n}
      /\ Cardinality(Present(entries)) = Cardinality(Present(others)) + 1
      /\ Cardinality(Present(others)) \in Nat /\ Cardinality(Present(entries)) \in Nat
      /\ Cardinality(Present(entries)) <= Cardinality(Names) /\ Cardinality(Names) \in Nat
  BY <1>1, IdsAfter, BeforeFinite, NamesFacts DEF OneMore
<1>4. id \in Nat /\ 1 <= id /\ id <= Cardinality(Present(entries))
  BY IdsWithin
<1>5. s.id \in Nat /\ s.id <= Cardinality(Names) + 1
  BY <1>3 DEF StreamInv
<1>6. /\ s \in [open : BOOLEAN, id : 0 .. Cardinality(Names) + 1, broken : BOOLEAN, due : SUBSET Names]
      /\ s.due \subseteq Present(entries) /\ (~s.open => s.due = {})
      /\ s.open /\ ~s.broken => s.id <= Cardinality(Present(entries)) + 1
      /\ \A m \in Names : s.open /\ ~s.broken /\ m \in s.due => s.id <= IdOf(entries, m)
  BY DEF StreamInv
<1>7. CASE ~s.open
  <2>1. t = s
    BY <1>7 DEF AfterDelete
  <2> HIDE DEF t, others
  <2>2. StreamInv(s, others)
    BY <1>6, <1>7 DEF StreamInv
  <2> QED
    BY <2>1, <2>2 DEF t, others
<1>8. CASE s.open
  <2> DEFINE newId == IF s.id > id THEN s.id - 1 ELSE s.id
             broke == s.broken \/ s.id = id
  <2>1. /\ t.open = s.open /\ t.broken = broke /\ t.id = newId /\ t.due = s.due \ {n}
        /\ t \in [open : BOOLEAN, id : {newId}, broken : BOOLEAN, due : SUBSET Names]
    BY <1>6, <1>8 DEF AfterDelete
  <2> HIDE DEF id, t, others
  <2>2. newId \in 0 .. Cardinality(Names) + 1
    BY <1>3, <1>4, <1>5
  <2>3. s.due \ {n} \subseteq Present(others)
    BY <1>3, <1>6
  <2>4. ASSUME ~broke
        PROVE  /\ newId <= Cardinality(Present(others)) + 1
               /\ \A m \in s.due \ {n} : newId <= IdOf(others, m)
    <3>1. s.id <= Cardinality(Present(entries)) + 1 /\ s.id # id
      BY <1>6, <1>8, <2>4
    <3>2. newId <= Cardinality(Present(others)) + 1
      BY <1>3, <1>4, <1>5, <3>1
    <3>3. ASSUME NEW m \in s.due \ {n} PROVE newId <= IdOf(others, m)
      <4>1. m \in Names /\ m \in Nat /\ n \in Nat /\ m # n /\ s.id <= IdOf(entries, m)
            /\ IdOf(entries, m) \in Nat
        BY <1>1, <1>6, <1>8, <2>4, <3>3, NamesFacts, BeforeFinite
      <4>2. CASE n < m
        <5>1. id < IdOf(entries, m) /\ IdOf(entries, m) = IdOf(others, m) + 1 /\ IdOf(others, m) \in Nat
          BY <1>2, <4>1, <4>2, IdsOrdered DEF id
        <5> QED
          BY <1>4, <1>5, <3>1, <4>1, <5>1
      <4>3. CASE ~(n < m)
        <5>1. m < n /\ m \in Present(entries)
          BY <1>6, <4>1, <4>3, <3>3
        <5>2. IdOf(entries, m) < id /\ IdOf(entries, m) = IdOf(others, m)
          BY <1>1, <1>2, <4>1, <4>3, <5>1, IdsOrdered DEF id
        <5> QED
          BY <1>4, <1>5, <4>1, <5>2
      <4> QED
        BY <4>2, <4>3
    <3> QED
      BY <3>2, <3>3
  <2> HIDE DEF newId, broke
  <2>5. StreamInv(t, others)
    BY <1>8, <2>1, <2>2, <2>3, <2>4 DEF StreamInv
  <2> QED
    BY <2>5 DEF t, others
<1> QED
  BY <1>7, <1>8

LEMMA StreamOverCreate ==
  ASSUME NEW entries \in [Names -> {"none", "file", "dir"}], NEW n \in Names, NEW s, NEW k,
         k \in {"file", "dir"}, entries[n] = "none", StreamInv(s, entries)
  PROVE  StreamInv(AfterCreate(s, entries, n), [entries EXCEPT ![n] = k])
<1> DEFINE others == [entries EXCEPT ![n] = k]
           t == AfterCreate(s, entries, n)
           id == IdOf(entries, n)
<1>1. /\ \A m \in Names :
            /\ n < m => IdOf(others, m) = IdOf(entries, m) + 1
            /\ ~(n < m) => IdOf(others, m) = IdOf(entries, m)
            /\ IdOf(others, m) \in Nat /\ IdOf(entries, m) \in Nat
      /\ Present(others) = Present(entries) \cup {n}
      /\ Cardinality(Present(others)) = Cardinality(Present(entries)) + 1
      /\ Cardinality(Present(others)) \in Nat /\ Cardinality(Present(entries)) \in Nat
      /\ Cardinality(Present(others)) <= Cardinality(Names) /\ Cardinality(Names) \in Nat
  <2>1. others = [entries EXCEPT ![n] = k] /\ k # "none"
    OBVIOUS
  <2> HIDE DEF others
  <2>2. OneMore(entries, others, n)
    BY <2>1, IdsAfter, ZenonT(30)
  <2>4. \A m \in Names : IdOf(others, m) \in Nat /\ IdOf(entries, m) \in Nat
    BY BeforeFinite
  <2>5. /\ Cardinality(Present(others)) \in Nat /\ Cardinality(Present(entries)) \in Nat
        /\ Cardinality(Present(others)) <= Cardinality(Names) /\ Cardinality(Names) \in Nat
    BY BeforeFinite, NamesFacts
  <2> QED
    BY <2>2, <2>4, <2>5 DEF OneMore
<1>2. id \in Nat
  BY <1>1
<1>3. /\ s \in [open : BOOLEAN, id : 0 .. Cardinality(Names) + 1, broken : BOOLEAN, due : SUBSET Names]
      /\ s.due \subseteq Present(entries) /\ (~s.open => s.due = {})
      /\ s.open /\ ~s.broken => s.id <= Cardinality(Present(entries)) + 1
      /\ \A m \in Names : s.open /\ ~s.broken /\ m \in s.due => s.id <= IdOf(entries, m)
  BY DEF StreamInv
<1>4. s.id \in Nat
  BY <1>1, <1>3
<1>5. ASSUME NEW m \in s.due, s.open, ~s.broken
      PROVE  /\ s.id <= IdOf(others, m)
             /\ ~(s.id < id) => s.id + 1 <= IdOf(others, m)
  <2>1. m \in Names /\ m \in Nat /\ n \in Nat /\ m \in Present(entries) /\ m # n
        /\ s.id <= IdOf(entries, m)
    BY <1>3, <1>5, NamesFacts DEF Present
  <2> HIDE DEF others
  <2>2. CASE n < m
    BY <1>1, <1>2, <1>4, <2>1, <2>2
  <2>3. CASE ~(n < m)
    <3>1. m < n
      BY <2>1, <2>3
    <3>2. IdOf(entries, m) < id
      BY <2>1, <3>1, IdsOrdered
    <3> HIDE DEF id
    <3> QED
      BY <1>1, <1>2, <1>4, <2>1, <2>3, <3>2
  <2> QED
    BY <2>2, <2>3
<1>6. CASE ~s.open \/ s.broken \/ s.id < id
  <2>1. t = s
    BY <1>6 DEF AfterCreate
  <2> HIDE DEF t, others, id
  <2>2. StreamInv(s, others)
    BY <1>1, <1>3, <1>4, <1>5 DEF StreamInv
  <2> QED
    BY <2>1, <2>2 DEF t, others
<1>7. CASE s.open /\ ~s.broken /\ ~(s.id < id)
  <2>1. t = [s EXCEPT !.id = s.id + 1]
    BY <1>7 DEF AfterCreate
  <2>2. s.id + 1 <= Cardinality(Present(others)) + 1 /\ s.id + 1 \in 0 .. Cardinality(Names) + 1
    <3> HIDE DEF others
    <3> QED
      BY <1>1, <1>3, <1>4, <1>7
  <2> DEFINE j == s.id + 1
  <2>3. t = [s EXCEPT !.id = j] /\ j <= Cardinality(Present(others)) + 1
        /\ j \in 0 .. Cardinality(Names) + 1 /\ \A m \in s.due : j <= IdOf(others, m)
    BY <1>5, <1>7, <2>1, <2>2
  <2> HIDE DEF t, others, j
  <2>4. StreamInv(t, others)
    BY <1>1, <1>3, <1>7, <2>3 DEF StreamInv
  <2> QED
    BY <2>4 DEF t, others
<1> QED
  BY <1>6, <1>7
-----------------------------------------------------------------------------
(* The table.                                                              *)

Slots(size) == 0 .. size - 1

FileRecord == [path : Names \cup {0}, lfs : {"free", "clean", "dirty", "erred", "closed"}]

NoTwice(list) == \A i, j \in 1 .. Len(list) : list[i] = list[j] => i = j

(* Slots, list and count describe the allocated files, each once.          *)
TableShape(tab) ==
  /\ tab = [cache |-> tab.cache, list |-> tab.list, count |-> tab.count]
  /\ CacheSize(tab) \in Nat \ {0}
  /\ tab.cache \in [Slots(CacheSize(tab)) -> Files \cup {NoSlot}]
  /\ tab.count = Len(tab.list) /\ tab.count = Cardinality(Live(tab))

SlotsHold(tab, fs) ==
  /\ \A a, b \in Live(tab) : tab.cache[a] = tab.cache[b] => a = b
  /\ \A f \in Files : fs[f] # NoFile <=> \E fd \in Live(tab) : tab.cache[fd] = f

ListHolds(list, fs) ==
  /\ list \in Seq(Files) /\ NoTwice(list)
  /\ \A f \in Files : fs[f] # NoFile <=> \E i \in 1 .. Len(list) : list[i] = f

TableInv(tab, fs) ==
  TableShape(tab) /\ SlotsHold(tab, fs) /\ ListHolds(tab.list, fs) /\ fs \in [Files -> FileRecord]

LEMMA FilesFacts == \A f \in Files : f \in Nat /\ f # NoSlot
BY PortAssumption DEF Files, NoSlot

LEMMA SizeOf ==
  ASSUME NEW tab, NEW size \in Nat \ {0}, tab.cache \in [Slots(size) -> Files \cup {NoSlot}]
  PROVE  /\ CacheSize(tab) = size /\ DOMAIN tab.cache = Slots(size)
         /\ IsFiniteSet(Live(tab)) /\ Cardinality(Live(tab)) \in Nat
         /\ Cardinality(Live(tab)) <= size
         /\ Cardinality(Live(tab)) = size => Live(tab) = Slots(size)
<1>1. DOMAIN tab.cache = Slots(size)
  OBVIOUS
<1>2. IsFiniteSet(Slots(size)) /\ Cardinality(Slots(size)) = size
  BY FS_Interval DEF Slots
<1>3. Live(tab) \in SUBSET Slots(size)
  BY <1>1 DEF Live
<1> QED
  BY <1>1, <1>2, <1>3, FS_Subset, FS_CardinalityType DEF CacheSize

LEMMA TableFacts ==
  ASSUME NEW tab, NEW fs, TableInv(tab, fs)
  PROVE  /\ DOMAIN tab.cache = Slots(CacheSize(tab))
         /\ IsFiniteSet(Live(tab)) /\ Cardinality(Live(tab)) \in Nat
         /\ tab.count \in Nat /\ tab.count <= CacheSize(tab)
         /\ tab.count = CacheSize(tab) => Live(tab) = Slots(CacheSize(tab))
         /\ \A fd \in Live(tab) : fd \in Slots(CacheSize(tab)) /\ tab.cache[fd] \in Files
         /\ \A fd \in Slots(CacheSize(tab)) : fd \in Live(tab) <=> tab.cache[fd] # NoSlot
<1>1. /\ CacheSize(tab) \in Nat \ {0} /\ tab.cache \in [Slots(CacheSize(tab)) -> Files \cup {NoSlot}]
      /\ tab.count = Cardinality(Live(tab))
  BY DEF TableInv, TableShape
<1>2. DOMAIN tab.cache = Slots(CacheSize(tab))
  BY <1>1
<1> QED
  BY <1>1, <1>2, SizeOf DEF Live

(* Growing the table moves nothing.                                        *)
LEMMA GrowKeeps ==
  ASSUME NEW tab, NEW fs, TableInv(tab, fs)
  PROVE  LET grown == Grown(tab)
         IN /\ TableInv(grown, fs)
            /\ Live(grown) = Live(tab) /\ \A fd \in Live(tab) : grown.cache[fd] = tab.cache[fd]
            /\ CacheSize(grown) = CacheSize(tab) + CacheSize(tab)
            /\ grown.list = tab.list /\ grown.count = tab.count
<1> DEFINE grown == Grown(tab)
           size == CacheSize(tab)
           cache == [fd \in 0 .. ReallocFactor * size - 1 |->
                       IF fd \in DOMAIN tab.cache THEN tab.cache[fd] ELSE NoSlot]
<1>1. /\ size \in Nat \ {0} /\ tab.cache \in [Slots(size) -> Files \cup {NoSlot}]
      /\ DOMAIN tab.cache = Slots(size)
  BY TableFacts DEF TableInv, TableShape
<1>2. /\ grown = [cache |-> cache, list |-> tab.list, count |-> tab.count]
      /\ grown.cache = cache /\ grown.list = tab.list /\ grown.count = tab.count
  <2>1. tab = [cache |-> tab.cache, list |-> tab.list, count |-> tab.count]
    BY DEF TableInv, TableShape
  <2>2. grown = [tab EXCEPT !.cache = cache]
    BY DEF Grown
  <2> HIDE DEF grown, cache
  <2> QED
    BY <2>1, <2>2
<1>3. /\ size + size \in Nat \ {0} /\ cache \in [Slots(size + size) -> Files \cup {NoSlot}]
      /\ \A fd \in Slots(size) : fd \in Slots(size + size) /\ cache[fd] = tab.cache[fd]
      /\ \A fd \in Slots(size + size) : fd \notin Slots(size) => cache[fd] = NoSlot
  BY <1>1 DEF Slots, ReallocFactor
<1> HIDE DEF grown, cache, size
<1>4. CacheSize(grown) = size + size
  BY <1>2, <1>3, SizeOf
<1>5. Live(grown) = Live(tab) /\ \A fd \in Live(tab) : grown.cache[fd] = tab.cache[fd]
  BY <1>1, <1>2, <1>3 DEF Live
<1>6. grown = [cache |-> grown.cache, list |-> grown.list, count |-> grown.count]
  BY <1>2
<1>7. TableInv(grown, fs)
  <2>1. TableShape(grown)
    BY <1>2, <1>3, <1>4, <1>5, <1>6 DEF TableInv, TableShape
  <2>2. SlotsHold(grown, fs)
    BY <1>5 DEF TableInv, SlotsHold
  <2> QED
    BY <1>2, <2>1, <2>2 DEF TableInv
<1> QED
  BY <1>2, <1>4, <1>5, <1>7 DEF grown, size
-----------------------------------------------------------------------------
(* A descriptor is handed out and taken back.                              *)

(* While there is room there is a first free slot.                         *)
LEMMA FirstFreeIsFree ==
  ASSUME NEW tab, NEW fs, TableInv(tab, fs), tab.count # CacheSize(tab)
  PROVE  FirstFree(tab) \in Slots(CacheSize(tab)) /\ FirstFree(tab) \notin Live(tab)
<1> DEFINE free == Slots(CacheSize(tab)) \ Live(tab)
<1>1. /\ DOMAIN tab.cache = Slots(CacheSize(tab)) /\ IsFiniteSet(Live(tab))
      /\ CacheSize(tab) \in Nat \ {0} /\ Live(tab) \subseteq Slots(CacheSize(tab))
      /\ \A fd \in Slots(CacheSize(tab)) : fd \in Live(tab) <=> tab.cache[fd] # NoSlot
      /\ tab.count = Cardinality(Live(tab))
  BY TableFacts DEF TableInv, TableShape
<1>2. free # {}
  <2>1. Cardinality(Slots(CacheSize(tab))) = CacheSize(tab)
    BY <1>1, FS_Interval DEF Slots
  <2>2. Live(tab) # Slots(CacheSize(tab))
    BY <1>1, <2>1
  <2> QED
    BY <1>1, <2>2
<1>3. free \subseteq Nat
  BY <1>1 DEF Slots
<1>4. \E x \in free : \A y \in free : ~(<<y, x>> \in OpToRel(<, Nat))
  <2> HIDE DEF free
  <2> QED
    BY <1>2, <1>3, NatLessThanWellFounded, WFMin
<1>5. PICK x \in free : \A y \in free : ~(y < x)
  BY <1>3, <1>4 DEF OpToRel
<1>6. x \in DOMAIN tab.cache /\ tab.cache[x] = NoSlot
  BY <1>1
<1>7. ASSUME NEW k \in 0 .. x - 1 PROVE tab.cache[k] # NoSlot
  <2>1. k \in Slots(CacheSize(tab)) /\ k < x
    BY <1>1, <1>3, <1>7 DEF Slots
  <2> QED
    BY <1>1, <1>5, <2>1
<1>8. /\ FirstFree(tab) \in DOMAIN tab.cache /\ tab.cache[FirstFree(tab)] = NoSlot
  BY <1>6, <1>7 DEF FirstFree
<1> QED
  BY <1>1, <1>8

(* The file structure taken gets one slot, and no other slot changes.      *)
LEMMA AllocateKeeps ==
  ASSUME NEW tab, NEW fs, TableInv(tab, fs), NEW f \in Files, fs[f] = NoFile,
         NEW rec \in FileRecord, rec # NoFile
  PROVE  LET after == AllocateFd(tab, f)
         IN /\ TableInv(after, [fs EXCEPT ![f] = rec])
            /\ DOMAIN tab.cache \subseteq DOMAIN after.cache
            /\ \E x : /\ x \notin Live(tab) /\ Live(after) = Live(tab) \cup {x}
                      /\ after.cache[x] = f
            /\ \A fd \in Live(tab) : after.cache[fd] = tab.cache[fd]
<1> DEFINE after == AllocateFd(tab, f)
           room == IF NeedsRoom(tab) THEN Grown(tab) ELSE tab
           x == FirstFree(room)
           others == [fs EXCEPT ![f] = rec]
<1>1. /\ TableInv(room, fs) /\ Live(room) = Live(tab)
      /\ \A fd \in Live(tab) : room.cache[fd] = tab.cache[fd]
      /\ room.count # CacheSize(room) /\ DOMAIN tab.cache \subseteq DOMAIN room.cache
      /\ room.list = tab.list
  <2>1. tab.count \in Nat /\ tab.count <= CacheSize(tab) /\ CacheSize(tab) \in Nat \ {0}
        /\ DOMAIN tab.cache = Slots(CacheSize(tab))
    BY TableFacts DEF TableInv, TableShape
  <2>2. CASE NeedsRoom(tab)
    <3> DEFINE grown == Grown(tab)
    <3>1. /\ TableInv(grown, fs)
          /\ Live(grown) = Live(tab) /\ \A fd \in Live(tab) : grown.cache[fd] = tab.cache[fd]
          /\ CacheSize(grown) = CacheSize(tab) + CacheSize(tab)
          /\ grown.list = tab.list /\ grown.count = tab.count
      BY GrowKeeps
    <3>2. room = grown
      BY <2>2
    <3> HIDE DEF room, grown
    <3>3. DOMAIN grown.cache = Slots(CacheSize(tab) + CacheSize(tab))
      BY <3>1, TableFacts
    <3>4. Slots(CacheSize(tab)) \subseteq Slots(CacheSize(tab) + CacheSize(tab))
      BY <2>1 DEF Slots
    <3> QED
      BY <2>1, <3>1, <3>2, <3>3, <3>4
  <2>3. CASE ~NeedsRoom(tab)
    BY <2>1, <2>3 DEF NeedsRoom
  <2> QED
    BY <2>2, <2>3
<1>2. after = [cache |-> [room.cache EXCEPT ![x] = f], list |-> <<f>> \o room.list,
               count |-> room.count + 1]
  BY DEF AllocateFd
<1> HIDE DEF after, room
<1>3. x \in Slots(CacheSize(room)) /\ x \notin Live(room)
  BY <1>1, FirstFreeIsFree
<1> DEFINE size == CacheSize(room)
<1>4. /\ size \in Nat \ {0} /\ room.cache \in [Slots(size) -> Files \cup {NoSlot}]
      /\ DOMAIN room.cache = Slots(size)
      /\ room.count = Len(room.list) /\ room.count = Cardinality(Live(room))
      /\ room.count \in Nat /\ IsFiniteSet(Live(room))
      /\ \A fd \in Slots(size) : fd \in Live(room) <=> room.cache[fd] # NoSlot
      /\ Live(room) \subseteq Slots(size)
  BY <1>1, TableFacts DEF TableInv, TableShape
<1> HIDE DEF x, size
<1>5. /\ after.cache \in [Slots(size) -> Files \cup {NoSlot}]
      /\ DOMAIN after.cache = Slots(size) /\ after.cache[x] = f
      /\ \A fd \in Slots(size) \ {x} : after.cache[fd] = room.cache[fd]
  BY <1>2, <1>3, <1>4 DEF size
<1>6. CacheSize(after) = size
  BY <1>4, <1>5, SizeOf
<1>7. Live(after) = Live(room) \cup {x}
  <2>1. f # NoSlot
    BY FilesFacts
  <2> QED
    BY <1>3, <1>4, <1>5, <2>1 DEF Live, size
<1>8. TableShape(after)
  <2>1. Cardinality(Live(after)) = room.count + 1
    <3>1. Cardinality(Live(room) \cup {x}) = Cardinality(Live(room)) + 1
      BY <1>3, <1>4, FS_AddElement
    <3> QED
      BY <1>4, <1>7, <3>1
  <2>2. room.list \in Seq(Files)
    BY <1>1 DEF TableInv, ListHolds
  <2>3. after.list = <<f>> \o room.list /\ after.count = room.count + 1
        /\ Len(<<f>> \o room.list) = Len(room.list) + 1
    BY <1>2, <2>2
  <2>4. after = [cache |-> after.cache, list |-> after.list, count |-> after.count]
    BY <1>2
  <2> QED
    BY <1>4, <1>5, <1>6, <2>1, <2>3, <2>4 DEF TableShape
<1>9. SlotsHold(after, others)
  <2>1. SlotsHold(room, fs) /\ fs \in [Files -> FileRecord]
    BY <1>1 DEF TableInv
  <2>2. \A fd \in Live(room) : after.cache[fd] = room.cache[fd] /\ room.cache[fd] # f
    BY <1>3, <1>4, <1>5, <2>1 DEF SlotsHold, size
  <2>3. others[f] # NoFile /\ \A g \in Files \ {f} : others[g] = fs[g]
    BY <2>1
  <2> HIDE DEF others
  <2>4. ASSUME NEW a \in Live(after), NEW b \in Live(after), after.cache[a] = after.cache[b]
        PROVE  a = b
    BY <1>5, <1>7, <2>1, <2>2, <2>4 DEF SlotsHold
  <2>5. ASSUME NEW g \in Files
        PROVE  others[g] # NoFile <=> \E fd \in Live(after) : after.cache[fd] = g
    BY <1>5, <1>7, <2>1, <2>2, <2>3 DEF SlotsHold
  <2> QED
    BY <2>4, <2>5 DEF SlotsHold
<1>10. ListHolds(after.list, others)
  <2> DEFINE old == room.list
             new == <<f>> \o old
  <2>1. ListHolds(old, fs) /\ fs \in [Files -> FileRecord] /\ old \in Seq(Files)
    BY <1>1 DEF TableInv, ListHolds
  <2>2. others[f] # NoFile /\ \A g \in Files \ {f} : others[g] = fs[g]
    BY <2>1
  <2> HIDE DEF others, old
  <2>3. /\ new \in Seq(Files) /\ Len(new) = Len(old) + 1 /\ new[1] = f
        /\ \A i \in 1 .. Len(old) : new[i + 1] = old[i]
        /\ \A i \in 1 .. Len(new) : i # 1 => i - 1 \in 1 .. Len(old) /\ new[i] = old[i - 1]
        /\ Len(old) \in Nat
    BY <2>1
  <2> HIDE DEF new
  <2>4. \A i \in 1 .. Len(old) : old[i] # f /\ old[i] \in Files /\ i + 1 \in 1 .. Len(new)
    BY <2>1, <2>3 DEF ListHolds
  <2>5. NoTwice(new)
    <3> SUFFICES ASSUME NEW i \in 1 .. Len(new), NEW j \in 1 .. Len(new), new[i] = new[j], i # j
                 PROVE  FALSE
      BY DEF NoTwice
    <3>1. CASE i = 1 \/ j = 1
      BY <2>3, <2>4, <3>1
    <3>2. CASE i # 1 /\ j # 1
      <4>1. i - 1 \in 1 .. Len(old) /\ j - 1 \in 1 .. Len(old) /\ old[i - 1] = old[j - 1]
        BY <2>3, <3>2
      <4> QED
        BY <2>1, <4>1 DEF ListHolds, NoTwice
    <3> QED
      BY <3>1, <3>2
  <2>6. ASSUME NEW g \in Files
        PROVE  others[g] # NoFile <=> \E i \in 1 .. Len(new) : new[i] = g
    <3>1. CASE g = f
      <4>1. 1 \in 1 .. Len(new)
        BY <2>3
      <4> QED
        BY <2>2, <2>3, <3>1, <4>1
    <3>2. CASE g # f
      <4>1. others[g] # NoFile <=> \E i \in 1 .. Len(old) : old[i] = g
        BY <2>1, <2>2, <3>2 DEF ListHolds
      <4>2. (\E i \in 1 .. Len(old) : old[i] = g) <=> \E i \in 1 .. Len(new) : new[i] = g
        <5>1. ASSUME NEW i \in 1 .. Len(old), old[i] = g PROVE \E k \in 1 .. Len(new) : new[k] = g
          BY <2>3, <2>4, <5>1
        <5>2. ASSUME NEW i \in 1 .. Len(new), new[i] = g PROVE \E k \in 1 .. Len(old) : old[k] = g
          BY <2>3, <3>2, <5>2
        <5> QED
          BY <5>1, <5>2
      <4> QED
        BY <4>1, <4>2
    <3> QED
      BY <3>1, <3>2
  <2>7. after.list = new
    BY <1>2 DEF new, old
  <2> QED
    BY <2>3, <2>5, <2>6, <2>7 DEF ListHolds
<1>11. others \in [Files -> FileRecord]
  BY <1>1 DEF TableInv
<1> HIDE DEF others
<1>12. TableInv(after, others)
  BY <1>8, <1>9, <1>10, <1>11 DEF TableInv
<1>13. \A fd \in Live(tab) : after.cache[fd] = tab.cache[fd]
  BY <1>1, <1>3, <1>4, <1>5 DEF size
<1>14. DOMAIN tab.cache \subseteq DOMAIN after.cache
  BY <1>1, <1>4, <1>5
<1>15. x \notin Live(tab) /\ Live(after) = Live(tab) \cup {x} /\ after.cache[x] = f
  BY <1>1, <1>3, <1>5, <1>7
<1> QED
  BY <1>12, <1>13, <1>14, <1>15 DEF after, others
(* In a list without repetitions the element that goes leaves the others.  *)
LEMMA RemoveOne ==
  ASSUME NEW S, NEW list \in Seq(S), NoTwice(list), NEW p \in 1 .. Len(list)
  PROVE  LET rest == RemoveFirst(list, list[p])
         IN /\ rest \in Seq(S) /\ Len(rest) = Len(list) - 1
            /\ \A i \in 1 .. Len(rest) : rest[i] = list[IF i < p THEN i ELSE i + 1]
<1> DEFINE e == list[p]
           I == {i \in 1 .. Len(list) : list[i] = e}
           rest == SubSeq(list, 1, p - 1) \o SubSeq(list, p + 1, Len(list))
<1>1. I = {p}
  BY DEF NoTwice
<1>2. Min({p}) = p
  BY DEF Min
<1>3. SelectInSeq(list, LAMBDA v : v = e) = p
  BY <1>1, <1>2 DEF SelectInSeq
<1>4. RemoveFirst(list, e) = rest
  BY <1>3 DEF RemoveFirst, RemoveAt
<1>5. /\ rest \in Seq(S) /\ Len(rest) = Len(list) - 1
      /\ \A i \in 1 .. Len(rest) : rest[i] = list[IF i < p THEN i ELSE i + 1]
  <2> DEFINE a == SubSeq(list, 1, p - 1)
             b == SubSeq(list, p + 1, Len(list))
  <2>1. Len(list) \in Nat /\ p \in Nat /\ 1 <= p /\ p <= Len(list)
    OBVIOUS
  <2>2. a \in Seq(S) /\ Len(a) = p - 1 /\ \A i \in 1 .. p - 1 : a[i] = list[i]
    BY <2>1
  <2>3. b \in Seq(S) /\ Len(b) = Len(list) - p /\ \A i \in 1 .. Len(list) - p : b[i] = list[p + i]
    BY <2>1
  <2> HIDE DEF a, b
  <2>4. a \o b \in Seq(S) /\ Len(a \o b) = Len(list) - 1
    <3>1. a \o b \in Seq(S) /\ Len(a \o b) = Len(a) + Len(b)
      BY <2>2, <2>3, ConcatProperties
    <3> QED
      BY <2>1, <2>2, <2>3, <3>1
  <2>5. ASSUME NEW i \in 1 .. Len(list) - 1
        PROVE  (a \o b)[i] = list[IF i < p THEN i ELSE i + 1]
    <3>1. (a \o b)[i] = IF i <= Len(a) THEN a[i] ELSE b[i - Len(a)]
      BY <2>1, <2>2, <2>3
    <3>2. CASE i < p
      BY <2>1, <2>2, <3>1, <3>2
    <3>3. CASE ~(i < p)
      <4>1. i - (p - 1) \in 1 .. Len(list) - p /\ p + (i - (p - 1)) = i + 1
        BY <2>1, <3>3
      <4> QED
        BY <2>1, <2>2, <2>3, <3>1, <3>3, <4>1
    <3> QED
      BY <3>2, <3>3
  <2>6. rest = a \o b
    BY DEF a, b
  <2> HIDE DEF rest
  <2> QED
    BY <2>4, <2>5, <2>6
<1> HIDE DEF rest
<1> QED
  BY <1>4, <1>5 DEF e

LEMMA FreeKeeps ==
  ASSUME NEW tab, NEW fs, TableInv(tab, fs), NEW fd \in Live(tab)
  PROVE  LET after == FreeFd(tab, fd)
         IN /\ TableInv(after, [fs EXCEPT ![tab.cache[fd]] = NoFile])
            /\ DOMAIN after.cache = DOMAIN tab.cache
            /\ Live(after) = Live(tab) \ {fd}
            /\ \A k \in Live(after) : after.cache[k] = tab.cache[k]
<1> DEFINE after == FreeFd(tab, fd)
           f == tab.cache[fd]
           size == CacheSize(tab)
           others == [fs EXCEPT ![f] = NoFile]
           rest == RemoveFirst(tab.list, f)
<1>1. /\ size \in Nat \ {0} /\ tab.cache \in [Slots(size) -> Files \cup {NoSlot}]
      /\ DOMAIN tab.cache = Slots(size)
      /\ tab.count = Len(tab.list) /\ tab.count = Cardinality(Live(tab))
      /\ tab.count \in Nat /\ IsFiniteSet(Live(tab))
      /\ \A k \in Slots(size) : k \in Live(tab) <=> tab.cache[k] # NoSlot
      /\ Live(tab) \subseteq Slots(size) /\ f \in Files
      /\ SlotsHold(tab, fs) /\ ListHolds(tab.list, fs) /\ fs \in [Files -> FileRecord]
  BY TableFacts DEF TableInv, TableShape
<1>2. after = [cache |-> [tab.cache EXCEPT ![fd] = NoSlot], list |-> rest, count |-> tab.count - 1]
  BY DEF FreeFd
<1> HIDE DEF after, size
<1>3. /\ after.cache \in [Slots(size) -> Files \cup {NoSlot}]
      /\ DOMAIN after.cache = Slots(size) /\ after.cache[fd] = NoSlot
      /\ \A k \in Slots(size) \ {fd} : after.cache[k] = tab.cache[k]
  BY <1>1, <1>2
<1>4. CacheSize(after) = size
  BY <1>1, <1>3, SizeOf
<1>5. Live(after) = Live(tab) \ {fd}
  BY <1>1, <1>3 DEF Live
<1>6. fs[f] # NoFile /\ \A k \in Live(tab) : k # fd => tab.cache[k] # f
  BY <1>1 DEF SlotsHold
<1>7. PICK p \in 1 .. Len(tab.list) : tab.list[p] = f
  BY <1>1, <1>6 DEF ListHolds
<1>8. /\ rest \in Seq(Files) /\ Len(rest) = Len(tab.list) - 1
      /\ \A i \in 1 .. Len(rest) : rest[i] = tab.list[IF i < p THEN i ELSE i + 1]
  <2> HIDE DEF rest, f
  <2>1. tab.list \in Seq(Files) /\ NoTwice(tab.list)
    BY <1>1 DEF ListHolds
  <2> QED
    BY <1>7, <2>1, RemoveOne DEF rest
<1>9. others[f] = NoFile /\ \A g \in Files \ {f} : others[g] = fs[g]
  BY <1>1
<1>10. others \in [Files -> FileRecord]
  <2>1. NoFile \in FileRecord
    BY DEF NoFile, FileRecord
  <2> QED
    BY <1>1, <2>1
<1> HIDE DEF rest, others, f
<1>11. TableShape(after)
  <2>1. Cardinality(Live(after)) = Cardinality(Live(tab)) - 1
    BY <1>1, <1>5, FS_RemoveElement
  <2> QED
    BY <1>1, <1>2, <1>3, <1>4, <1>8, <2>1 DEF TableShape
<1>12. SlotsHold(after, others)
  <2>1. \A k \in Live(after) : k \in Live(tab) /\ k # fd /\ after.cache[k] = tab.cache[k]
    BY <1>1, <1>3, <1>5
  <2>2. ASSUME NEW a \in Live(after), NEW b \in Live(after), after.cache[a] = after.cache[b]
        PROVE  a = b
    BY <1>1, <2>1, <2>2 DEF SlotsHold
  <2>3. ASSUME NEW g \in Files
        PROVE  others[g] # NoFile <=> \E k \in Live(after) : after.cache[k] = g
    <3>1. CASE g = f
      BY <1>6, <1>9, <2>1, <3>1
    <3>2. CASE g # f
      BY <1>1, <1>5, <1>9, <2>1, <3>2 DEF SlotsHold, f
    <3> QED
      BY <3>1, <3>2
  <2> QED
    BY <2>2, <2>3 DEF SlotsHold
<1>13. ListHolds(rest, others)
  <2> DEFINE old == tab.list
             from(i) == IF i < p THEN i ELSE i + 1
  <2>1. /\ \A i \in 1 .. Len(rest) : rest[i] = old[from(i)] /\ from(i) \in 1 .. Len(old) /\ from(i) # p
        /\ \A i, j \in 1 .. Len(rest) : from(i) = from(j) => i = j
        /\ \A i \in 1 .. Len(old) : i # p => \E k \in 1 .. Len(rest) : from(k) = i
    <3>1. Len(old) \in Nat /\ p \in Nat /\ Len(rest) \in Nat
      BY <1>1 DEF ListHolds
    <3>2. ASSUME NEW i \in 1 .. Len(old), i # p PROVE \E k \in 1 .. Len(rest) : from(k) = i
      <4>1. CASE i < p
        BY <1>7, <1>8, <3>1, <4>1
      <4>2. CASE ~(i < p)
        <5>1. i - 1 \in 1 .. Len(rest) /\ from(i - 1) = i
          BY <1>7, <1>8, <3>1, <3>2, <4>2
        <5> QED
          BY <5>1
      <4> QED
        BY <4>1, <4>2
    <3> QED
      BY <1>7, <1>8, <3>1, <3>2
  <2> HIDE DEF from, old
  <2>2. ListHolds(old, fs) /\ old[p] = f /\ p \in 1 .. Len(old)
    BY <1>1, <1>7 DEF old
  <2>3. NoTwice(rest)
    <3> SUFFICES ASSUME NEW i \in 1 .. Len(rest), NEW j \in 1 .. Len(rest), rest[i] = rest[j]
                 PROVE  i = j
      BY DEF NoTwice
    <3>1. from(i) \in 1 .. Len(old) /\ from(j) \in 1 .. Len(old) /\ old[from(i)] = old[from(j)]
      BY <2>1
    <3> QED
      BY <2>1, <2>2, <3>1 DEF ListHolds, NoTwice
  <2>4. \A i \in 1 .. Len(old) : i # p => old[i] # f
    BY <2>2 DEF ListHolds, NoTwice
  <2>5. ASSUME NEW g \in Files
        PROVE  others[g] # NoFile <=> \E i \in 1 .. Len(rest) : rest[i] = g
    <3>1. CASE g = f
      BY <1>9, <2>1, <2>4, <3>1
    <3>2. CASE g # f
      <4>1. others[g] # NoFile <=> \E i \in 1 .. Len(old) : old[i] = g
        BY <1>9, <2>2, <3>2 DEF ListHolds
      <4>2. ASSUME NEW i \in 1 .. Len(old), old[i] = g PROVE \E k \in 1 .. Len(rest) : rest[k] = g
        BY <2>1, <2>2, <3>2, <4>2
      <4>3. ASSUME NEW i \in 1 .. Len(rest), rest[i] = g PROVE \E k \in 1 .. Len(old) : old[k] = g
        BY <2>1, <4>3
      <4> QED
        BY <4>1, <4>2, <4>3
    <3> QED
      BY <3>1, <3>2
  <2> QED
    BY <1>8, <2>3, <2>5 DEF ListHolds
<1>14. TableInv(after, others)
  <2>1. after.list = rest
    BY <1>2
  <2> QED
    BY <1>10, <1>11, <1>12, <1>13, <2>1 DEF TableInv
<1>15. \A k \in Live(after) : after.cache[k] = tab.cache[k]
  BY <1>1, <1>3, <1>5
<1> QED
  BY <1>1, <1>3, <1>5, <1>14, <1>15 DEF after, others, f
-----------------------------------------------------------------------------
(* Who has a descriptor. Those whose close failed are nobody's.            *)

Usable(tab, fs) == {fd \in Live(tab) : fs[tab.cache[fd]].lfs # "closed"}

Cutters(c) == {t \in Tasks : c[t] # NoTruncate}

(* Every descriptor in use is held by one task or used by one truncate.    *)
OwnersInv(fds, h, c) ==
  /\ h \in [Tasks -> SUBSET fds]
  /\ c \in [Tasks -> {NoTruncate} \cup [at : {"cut", "close"}, fd : fds]]
  /\ \A t, u \in Tasks : t # u => h[t] \cap h[u] = {}
  /\ \A t, u \in Cutters(c) : t # u => c[t].fd # c[u].fd
  /\ \A t \in Cutters(c), u \in Tasks : c[t].fd \notin h[u]
  /\ \A fd \in fds : \/ \E t \in Tasks : fd \in h[t]
                     \/ \E t \in Cutters(c) : c[t].fd = fd

(* An allocated file is one of the directory's.                            *)
FilesInv(fs, entries) ==
  \A f \in Files : fs[f] # NoFile =>
    fs[f].path \in Names /\ entries[fs[f].path] = "file" /\ fs[f].lfs # "free"

LEMMA OpenUsable ==
  ASSUME NEW tab, NEW fs, TableInv(tab, fs), NEW f \in Files, fs[f] = NoFile,
         NEW rec \in FileRecord, rec.lfs \notin {"free", "closed"}
  PROVE  LET after  == AllocateFd(tab, f)
             others == [fs EXCEPT ![f] = rec]
         IN /\ TableInv(after, others)
            /\ \E x : /\ x \notin Live(tab) /\ Live(after) = Live(tab) \cup {x}
                      /\ Usable(after, others) = Usable(tab, fs) \cup {x}
            /\ \A fd \in Live(tab) : after.cache[fd] = tab.cache[fd]
            /\ DOMAIN tab.cache \subseteq DOMAIN after.cache
<1> DEFINE after == AllocateFd(tab, f)
           others == [fs EXCEPT ![f] = rec]
<1>1. rec # NoFile
  BY DEF NoFile
<1>2. /\ TableInv(after, others)
      /\ DOMAIN tab.cache \subseteq DOMAIN after.cache
      /\ \E x : /\ x \notin Live(tab) /\ Live(after) = Live(tab) \cup {x}
                /\ after.cache[x] = f
      /\ \A fd \in Live(tab) : after.cache[fd] = tab.cache[fd]
  BY <1>1, AllocateKeeps
<1>3. PICK x : x \notin Live(tab) /\ Live(after) = Live(tab) \cup {x} /\ after.cache[x] = f
  BY <1>2
<1>4. fs \in [Files -> FileRecord] /\ \A fd \in Live(tab) : tab.cache[fd] \in Files \ {f}
  BY TableFacts DEF TableInv, SlotsHold
<1>5. /\ others[f] = rec /\ \A g \in Files \ {f} : others[g] = fs[g]
  BY <1>4
<1> HIDE DEF after, others
<1>6. Usable(after, others) = Usable(tab, fs) \cup {x}
  BY <1>2, <1>3, <1>4, <1>5 DEF Usable
<1> QED
  BY <1>2, <1>3, <1>6 DEF after, others

LEMMA FreeUsable ==
  ASSUME NEW tab, NEW fs, TableInv(tab, fs), NEW fd \in Live(tab)
  PROVE  Usable(FreeFd(tab, fd), [fs EXCEPT ![tab.cache[fd]] = NoFile]) = Usable(tab, fs) \ {fd}
<1> DEFINE after == FreeFd(tab, fd)
           f == tab.cache[fd]
           others == [fs EXCEPT ![f] = NoFile]
<1>1. /\ Live(after) = Live(tab) \ {fd} /\ \A k \in Live(after) : after.cache[k] = tab.cache[k]
  BY FreeKeeps
<1>2. fs \in [Files -> FileRecord] /\ \A k \in Live(tab) \ {fd} : tab.cache[k] \in Files \ {f}
  BY TableFacts DEF TableInv, SlotsHold
<1>3. \A g \in Files \ {f} : others[g] = fs[g]
  BY <1>2
<1> HIDE DEF after, others, f
<1>4. Usable(after, others) = Usable(tab, fs) \ {fd}
  BY <1>1, <1>2, <1>3 DEF Usable
<1> QED
  BY <1>4 DEF after, others, f

(* What a write, a sync or a close that fails does to the file behind a    *)
(* descriptor.                                                             *)
Marked(tab, fs, fd, mark) == [fs EXCEPT ![tab.cache[fd]].lfs = mark]

LEMMA MarkKeeps ==
  ASSUME NEW tab, NEW fs, TableInv(tab, fs), NEW entries, FilesInv(fs, entries),
         NEW fd \in Usable(tab, fs), NEW mark \in {"clean", "dirty", "erred", "closed"}
  PROVE  LET others == Marked(tab, fs, fd, mark)
         IN /\ TableInv(tab, others) /\ FilesInv(others, entries)
            /\ mark = "closed" => Usable(tab, others) = Usable(tab, fs) \ {fd}
            /\ mark # "closed" => Usable(tab, others) = Usable(tab, fs)
<1> DEFINE f == tab.cache[fd]
           rec == [fs[f] EXCEPT !.lfs = mark]
           others == Marked(tab, fs, fd, mark)
<1>1. /\ fd \in Live(tab) /\ fs[f].lfs # "closed" /\ f \in Files /\ fs \in [Files -> FileRecord]
      /\ \A k \in Live(tab) : tab.cache[k] \in Files /\ (k # fd => tab.cache[k] # f)
      /\ fs[f] # NoFile
  BY TableFacts DEF TableInv, SlotsHold, Usable
<1>2. fs[f] \in FileRecord
  BY <1>1
<1>3. rec \in FileRecord /\ rec.lfs = mark /\ rec.path = fs[f].path /\ rec # NoFile
  BY <1>2 DEF FileRecord, NoFile
<1>4. others = [fs EXCEPT ![f] = rec]
  BY <1>1 DEF Marked
<1> HIDE DEF rec, others, f
<1>5. others \in [Files -> FileRecord] /\ others[f] = rec /\ \A g \in Files \ {f} : others[g] = fs[g]
  BY <1>1, <1>3, <1>4
<1>6. \A g \in Files : others[g] # NoFile <=> fs[g] # NoFile
  BY <1>1, <1>3, <1>5
<1>7. SlotsHold(tab, others) /\ ListHolds(tab.list, others)
  BY <1>6 DEF TableInv, SlotsHold, ListHolds
<1>8. FilesInv(others, entries)
  BY <1>1, <1>3, <1>5, <1>6 DEF FilesInv
<1>9. /\ mark = "closed" => Usable(tab, others) = Usable(tab, fs) \ {fd}
      /\ mark # "closed" => Usable(tab, others) = Usable(tab, fs)
  BY <1>1, <1>3, <1>5 DEF Usable, f
<1> QED
  BY <1>5, <1>7, <1>8, <1>9 DEF TableInv, others, f

(* A descriptor more or less, for a task or for its truncate.              *)
LEMMA OwnersChange ==
  ASSUME NEW fds, NEW h, NEW c, OwnersInv(fds, h, c), NEW t \in Tasks
  PROVE  /\ \A x : x \notin fds =>
              /\ OwnersInv(fds \cup {x}, [h EXCEPT ![t] = @ \cup {x}], c)
              /\ c[t] = NoTruncate =>
                   OwnersInv(fds \cup {x}, h, [c EXCEPT ![t] = [at |-> "cut", fd |-> x]])
         /\ \A fd \in h[t] : OwnersInv(fds \ {fd}, [h EXCEPT ![t] = @ \ {fd}], c)
         /\ c[t] # NoTruncate => /\ OwnersInv(fds \ {c[t].fd}, h, [c EXCEPT ![t] = NoTruncate])
                           /\ c[t].fd \in fds
                           /\ OwnersInv(fds, h, [c EXCEPT ![t].at = "close"])
<1>1. /\ h \in [Tasks -> SUBSET fds]
      /\ c \in [Tasks -> {NoTruncate} \cup [at : {"cut", "close"}, fd : fds]]
      /\ \A u, v \in Tasks : u # v => h[u] \cap h[v] = {}
      /\ \A u, v \in Cutters(c) : u # v => c[u].fd # c[v].fd
      /\ \A u \in Cutters(c), v \in Tasks : c[u].fd \notin h[v]
      /\ \A fd \in fds : \/ \E u \in Tasks : fd \in h[u]
                         \/ \E u \in Cutters(c) : c[u].fd = fd
  BY DEF OwnersInv
<1>2. \A u \in Cutters(c) : u \in Tasks /\ c[u].fd \in fds /\ c[u].at \in {"cut", "close"}
  BY <1>1 DEF Cutters
<1>3. ASSUME NEW x, x \notin fds PROVE OwnersInv(fds \cup {x}, [h EXCEPT ![t] = @ \cup {x}], c)
  <2> DEFINE new == [h EXCEPT ![t] = @ \cup {x}]
             all == fds \cup {x}
  <2>1. /\ new \in [Tasks -> SUBSET all] /\ new[t] = h[t] \cup {x}
        /\ \A u \in Tasks : u # t => new[u] = h[u]
    BY <1>1
  <2>2. c \in [Tasks -> {NoTruncate} \cup [at : {"cut", "close"}, fd : all]]
    BY <1>1
  <2> HIDE DEF new
  <2>3. \A u, v \in Tasks : u # v => new[u] \cap new[v] = {}
    BY <1>1, <1>3, <2>1
  <2>4. \A u \in Cutters(c), v \in Tasks : c[u].fd \notin new[v]
    BY <1>1, <1>2, <1>3, <2>1
  <2>5. \A fd \in all : \/ \E u \in Tasks : fd \in new[u]
                        \/ \E u \in Cutters(c) : c[u].fd = fd
    BY <1>1, <2>1
  <2> HIDE DEF all
  <2>6. OwnersInv(all, new, c)
    BY <1>1, <2>1, <2>2, <2>3, <2>4, <2>5 DEF OwnersInv
  <2> QED
    BY <2>6 DEF all, new
<1>4. ASSUME NEW x, x \notin fds, c[t] = NoTruncate
      PROVE  OwnersInv(fds \cup {x}, h, [c EXCEPT ![t] = [at |-> "cut", fd |-> x]])
  <2> DEFINE new == [c EXCEPT ![t] = [at |-> "cut", fd |-> x]]
             all == fds \cup {x}
  <2>1. [at |-> "cut", fd |-> x] # NoTruncate
    BY DEF NoTruncate
  <2>2. /\ h \in [Tasks -> SUBSET all]
        /\ new \in [Tasks -> {NoTruncate} \cup [at : {"cut", "close"}, fd : all]]
        /\ new[t] = [at |-> "cut", fd |-> x] /\ new[t].fd = x
        /\ \A u \in Tasks : u # t => new[u] = c[u]
    BY <1>1
  <2> HIDE DEF new
  <2>3. Cutters(new) = Cutters(c) \cup {t} /\ t \notin Cutters(c)
    BY <1>4, <2>1, <2>2 DEF Cutters
  <2>4. \A u, v \in Cutters(new) : u # v => new[u].fd # new[v].fd
    BY <1>1, <1>2, <1>4, <2>2, <2>3
  <2>5. \A u \in Cutters(new), v \in Tasks : new[u].fd \notin h[v]
    BY <1>1, <1>2, <1>4, <2>2, <2>3
  <2>6. \A fd \in all : \/ \E u \in Tasks : fd \in h[u]
                        \/ \E u \in Cutters(new) : new[u].fd = fd
    BY <1>1, <1>2, <2>2, <2>3
  <2> HIDE DEF all
  <2>7. OwnersInv(all, h, new)
    BY <1>1, <2>2, <2>4, <2>5, <2>6 DEF OwnersInv
  <2> QED
    BY <2>7 DEF all, new
<1>5. ASSUME NEW fd \in h[t] PROVE OwnersInv(fds \ {fd}, [h EXCEPT ![t] = @ \ {fd}], c)
  <2> DEFINE new == [h EXCEPT ![t] = @ \ {fd}]
             rest == fds \ {fd}
  <2>1. new[t] = h[t] \ {fd} /\ \A u \in Tasks : u # t => new[u] = h[u] /\ fd \notin h[u]
    BY <1>1
  <2>2. new \in [Tasks -> SUBSET rest]
    BY <1>1, <2>1
  <2>3. \A u \in Cutters(c) : c[u].fd \in rest
    BY <1>1, <1>2
  <2>4. c \in [Tasks -> {NoTruncate} \cup [at : {"cut", "close"}, fd : rest]]
    BY <1>1, <2>3 DEF Cutters
  <2> HIDE DEF new
  <2>5. \A u, v \in Tasks : u # v => new[u] \cap new[v] = {}
    BY <1>1, <2>1
  <2>6. \A u \in Cutters(c), v \in Tasks : c[u].fd \notin new[v]
    BY <1>1, <2>1
  <2>7. \A k \in rest : \/ \E u \in Tasks : k \in new[u]
                        \/ \E u \in Cutters(c) : c[u].fd = k
    BY <1>1, <2>1
  <2> HIDE DEF rest
  <2>8. OwnersInv(rest, new, c)
    BY <1>1, <2>2, <2>4, <2>5, <2>6, <2>7 DEF OwnersInv
  <2> QED
    BY <2>8 DEF rest, new
<1>6. ASSUME c[t] # NoTruncate
      PROVE  OwnersInv(fds \ {c[t].fd}, h, [c EXCEPT ![t] = NoTruncate])
  <2> DEFINE new == [c EXCEPT ![t] = NoTruncate]
             fd == c[t].fd
             rest == fds \ {fd}
  <2>1. t \in Cutters(c) /\ \A u \in Tasks : fd \notin h[u]
    BY <1>1, <1>6 DEF Cutters
  <2>2. new[t] = NoTruncate /\ \A u \in Tasks : u # t => new[u] = c[u]
    BY <1>1
  <2>3. Cutters(new) = Cutters(c) \ {t}
    BY <2>2 DEF Cutters
  <2>4. \A u \in Cutters(new) : new[u] = c[u] /\ c[u].fd \in rest
    BY <1>1, <1>2, <2>1, <2>2, <2>3
  <2>5. h \in [Tasks -> SUBSET rest]
    BY <1>1, <2>1
  <2>6. new \in [Tasks -> {NoTruncate} \cup [at : {"cut", "close"}, fd : rest]]
    <3>1. \A u \in Tasks : new[u] = NoTruncate \/ new[u] \in [at : {"cut", "close"}, fd : rest]
      BY <1>1, <2>2, <2>4 DEF Cutters
    <3> QED
      BY <1>1, <3>1
  <2> HIDE DEF new
  <2>7. \A k \in rest : \/ \E u \in Tasks : k \in h[u]
                        \/ \E u \in Cutters(new) : new[u].fd = k
    BY <1>1, <2>3, <2>4
  <2> HIDE DEF rest, fd
  <2>8. OwnersInv(rest, h, new)
    BY <1>1, <2>3, <2>4, <2>5, <2>6, <2>7 DEF OwnersInv
  <2> QED
    BY <2>8 DEF rest, new, fd
<1>7. ASSUME c[t] # NoTruncate PROVE OwnersInv(fds, h, [c EXCEPT ![t].at = "close"])
  <2> DEFINE new == [c EXCEPT ![t].at = "close"]
  <2>1. c[t] \in [at : {"cut", "close"}, fd : fds]
    BY <1>1, <1>7
  <2>2. new[t] = [at |-> "close", fd |-> c[t].fd] /\ \A u \in Tasks : u # t => new[u] = c[u]
    BY <1>1, <2>1
  <2>3. new[t] # NoTruncate /\ new[t].fd = c[t].fd
    BY <2>2 DEF NoTruncate
  <2>4. new \in [Tasks -> {NoTruncate} \cup [at : {"cut", "close"}, fd : fds]]
    BY <1>1, <2>1, <2>2
  <2> HIDE DEF new
  <2>5. Cutters(new) = Cutters(c) /\ \A u \in Cutters(c) : new[u].fd = c[u].fd
    BY <1>7, <2>2, <2>3 DEF Cutters
  <2>6. OwnersInv(fds, h, new)
    BY <1>1, <2>4, <2>5 DEF OwnersInv
  <2> QED
    BY <2>6 DEF new
<1>8. c[t] # NoTruncate => c[t].fd \in fds
  BY <1>2 DEF Cutters
<1> QED
  BY <1>3, <1>4, <1>5, <1>6, <1>7, <1>8
-----------------------------------------------------------------------------
(* The inductive invariant.                                                *)

TreeOK(entries) == entries \in [Names -> {"none", "file", "dir"}]

PortInv ==
  /\ TreeOK(tree) /\ lock \in Tasks \cup {NoTask}
  /\ TableInv(table, files) /\ FilesInv(files, tree) /\ StreamInv(stream, tree)
  /\ OwnersInv(Usable(table, files), held, cutting)

DescriptorsKept ==
  \A t \in Tasks : \A fd \in held[t] \cap held'[t] : table'.cache[fd] = table.cache[fd]

LEMMA InitInv == PortInit => PortInv
<1> SUFFICES ASSUME PortInit PROVE PortInv
  OBVIOUS
<1> DEFINE cache == [fd \in 0 .. CacheMinSize - 1 |-> NoSlot]
<1>1. /\ tree = [n \in Names |-> "none"] /\ table = [cache |-> cache, list |-> <<>>, count |-> 0]
      /\ files = [f \in Files |-> NoFile] /\ held = [t \in Tasks |-> {}]
      /\ cutting = [t \in Tasks |-> NoTruncate] /\ lock = NoTask /\ stream = NoStream
  BY DEF PortInit
<1>2. /\ cache \in [Slots(CacheMinSize) -> Files \cup {NoSlot}] /\ CacheMinSize \in Nat \ {0}
      /\ \A fd \in Slots(CacheMinSize) : cache[fd] = NoSlot
  BY PortAssumption DEF Slots
<1> HIDE DEF cache
<1>3. CacheSize(table) = CacheMinSize
  <2>1. table.cache = cache
    BY <1>1
  <2>2. table.cache \in [Slots(CacheMinSize) -> Files \cup {NoSlot}]
    BY <1>2, <2>1
  <2> QED
    BY <1>2, <2>2, SizeOf
<1>4. Live(table) = {} /\ Usable(table, files) = {}
  BY <1>1, <1>2 DEF Live, Usable
<1>5. TableShape(table)
  BY <1>1, <1>2, <1>3, <1>4, FS_EmptySet DEF TableShape
<1>6. SlotsHold(table, files) /\ ListHolds(table.list, files)
  BY <1>1, <1>4 DEF SlotsHold, ListHolds, NoTwice
<1>7. NoFile \in FileRecord
  BY DEF NoFile, FileRecord
<1>8. TableInv(table, files) /\ FilesInv(files, tree)
  BY <1>1, <1>5, <1>6, <1>7 DEF TableInv, FilesInv
<1>9. StreamInv(stream, tree) /\ TreeOK(tree)
  BY <1>1, NamesFacts DEF StreamInv, NoStream, TreeOK
<1>10. OwnersInv({}, held, cutting)
  BY <1>1 DEF OwnersInv, Cutters
<1> QED
  BY <1>1, <1>4, <1>8, <1>9, <1>10 DEF PortInv

-----------------------------------------------------------------------------
(* What the other handlers rely on.                                        *)

LEMMA HeldInUse ==
  ASSUME PortInv, NEW t \in Tasks
  PROVE  /\ held[t] \subseteq Usable(table, files) /\ Usable(table, files) \subseteq Live(table)
         /\ cutting[t] # NoTruncate => cutting[t].fd \in Usable(table, files) /\ cutting[t].fd \notin held[t]
         /\ \A u \in Tasks : u # t => held[u] \cap held[t] = {}
         /\ \A u \in Tasks : cutting[t] # NoTruncate => cutting[t].fd \notin held[u]
BY DEF PortInv, OwnersInv, Cutters, Usable

(* The search by name sees every open file, wherever its slot is.          *)
LEMMA BusyIsOpen ==
  ASSUME PortInv, NEW f \in Files, files[f] # NoFile
  PROVE  files[f].path \in BusyNames(table)
<1>1. PICK fd \in Live(table) : table.cache[fd] = f
  BY DEF PortInv, TableInv, SlotsHold
<1> DEFINE before == {j \in Live(table) : j < fd}
<1>2. /\ IsFiniteSet(Live(table)) /\ table.count = Cardinality(Live(table)) /\ table.count \in Nat
      /\ fd \in Int
  <2>1. TableInv(table, files)
    BY DEF PortInv
  <2>2. /\ IsFiniteSet(Live(table)) /\ table.count \in Nat /\ CacheSize(table) \in Nat
        /\ \A k \in Live(table) : k \in Slots(CacheSize(table))
    BY <2>1, TableFacts DEF TableInv, TableShape
  <2> QED
    BY <2>1, <2>2 DEF TableInv, TableShape, Slots
<1>3. before \in SUBSET Live(table) /\ fd \notin before
  BY <1>2
<1>4. Cardinality(before) <= Cardinality(Live(table)) /\ Cardinality(before) # Cardinality(Live(table))
      /\ Cardinality(before) \in Nat
  BY <1>1, <1>2, <1>3, FS_Subset, FS_CardinalityType
<1>5. Cardinality(before) < table.count
  BY <1>2, <1>4
<1> QED
  BY <1>1, <1>5 DEF BusyNames

(* Opening a file, for the caller or for truncate.                         *)
LEMMA OpenAsDoes ==
  ASSUME PortInv, NEW t \in Tasks, NEW n \in Names, NEW flags, NEW synced \in BOOLEAN,
         OpenAs(t, n, flags, synced)
  PROVE  /\ TreeOK(tree') /\ TableInv(table', files') /\ FilesInv(files', tree')
         /\ StreamInv(stream', tree')
         /\ NewFd \notin Usable(table, files)
         /\ Usable(table', files') = Usable(table, files) \cup {NewFd}
         /\ \A fd \in Live(table) : table'.cache[fd] = table.cache[fd]
<1>1. PICK f \in Files :
        /\ files[f] = NoFile /\ Opens(n, LfsFlags(flags))
        /\ table' = AllocateFd(table, f)
        /\ files' = [files EXCEPT ![f] = [path |-> n, lfs |-> IF synced THEN "clean" ELSE "erred"]]
        /\ IF tree[n] = "none"
             THEN /\ tree' = [tree EXCEPT ![n] = "file"]
                  /\ stream' = AfterCreate(stream, tree, n)
             ELSE tree' = tree /\ stream' = stream
  BY DEF OpenAs
<1> DEFINE rec == [path |-> n, lfs |-> IF synced THEN "clean" ELSE "erred"]
<1>2. rec \in FileRecord /\ rec.lfs \notin {"free", "closed"} /\ rec.path = n /\ rec # NoFile
  BY DEF FileRecord, NoFile
<1>3. files' = [files EXCEPT ![f] = rec] /\ files[f] = NoFile
  BY <1>1
<1>4. TreeOK(tree) /\ TableInv(table, files) /\ FilesInv(files, tree) /\ StreamInv(stream, tree)
  BY DEF PortInv
<1> HIDE DEF rec
<1>5. /\ TableInv(table', files')
      /\ \E x : /\ x \notin Live(table) /\ Live(table') = Live(table) \cup {x}
                /\ Usable(table', files') = Usable(table, files) \cup {x}
      /\ \A fd \in Live(table) : table'.cache[fd] = table.cache[fd]
      /\ DOMAIN table.cache \subseteq DOMAIN table'.cache
  <2> DEFINE after == AllocateFd(table, f)
             others == [files EXCEPT ![f] = rec]
  <2>1. /\ TableInv(after, others)
        /\ \E x : /\ x \notin Live(table) /\ Live(after) = Live(table) \cup {x}
                  /\ Usable(after, others) = Usable(table, files) \cup {x}
        /\ \A fd \in Live(table) : after.cache[fd] = table.cache[fd]
        /\ DOMAIN table.cache \subseteq DOMAIN after.cache
    BY <1>2, <1>3, <1>4, OpenUsable
  <2>2. table' = after /\ files' = others
    BY <1>1, <1>3
  <2> HIDE DEF after, others
  <2> QED
    BY <2>1, <2>2
<1>6. PICK x : /\ x \notin Live(table) /\ Live(table') = Live(table) \cup {x}
               /\ Usable(table', files') = Usable(table, files) \cup {x}
  BY <1>5
<1>7. NewFd = x
  <2>1. \A fd : fd \in Live(table') <=> fd \in DOMAIN table'.cache /\ table'.cache[fd] # NoSlot
    BY DEF Live
  <2>2. \A fd : fd \in Live(table) <=> ~(fd \notin DOMAIN table.cache \/ table.cache[fd] = NoSlot)
    BY DEF Live
  <2> QED
    BY <1>6, <2>1, <2>2 DEF NewFd
<1>8. TreeOK(tree') /\ StreamInv(stream', tree')
  <2>1. CASE tree[n] = "none"
    <3>1. tree' = [tree EXCEPT ![n] = "file"] /\ stream' = AfterCreate(stream, tree, n)
      BY <1>1, <2>1
    <3>2. TreeOK(tree')
      BY <1>4, <3>1 DEF TreeOK
    <3>3. tree \in [Names -> {"none", "file", "dir"}] /\ "file" \in {"file", "dir"}
      BY <1>4 DEF TreeOK
    <3>4. StreamInv(AfterCreate(stream, tree, n), [tree EXCEPT ![n] = "file"])
      BY <1>4, <2>1, <3>3, StreamOverCreate
    <3> QED
      BY <3>1, <3>2, <3>4
  <2>2. CASE tree[n] # "none"
    BY <1>1, <1>4, <2>2
  <2> QED
    BY <2>1, <2>2
<1>9. tree' \in [Names -> {"none", "file", "dir"}] /\ tree'[n] = "file"
      /\ \A m \in Names : tree[m] = "file" => tree'[m] = "file"
  BY <1>1, <1>4 DEF TreeOK, Opens
<1>10. FilesInv(files', tree')
  <2>1. files \in [Files -> FileRecord]
    BY <1>4 DEF TableInv
  <2>2. files'[f] = rec /\ \A g \in Files \ {f} : files'[g] = files[g]
    BY <1>3, <2>1
  <2> QED
    BY <1>2, <1>4, <1>9, <2>2 DEF FilesInv
<1>11. x \notin Usable(table, files)
  BY <1>6 DEF Usable
<1> QED
  BY <1>5, <1>6, <1>7, <1>8, <1>10, <1>11
-----------------------------------------------------------------------------
(* The handlers, one by one.                                               *)

LEMMA OpenStep ==
  ASSUME PortInv, NEW t \in Tasks, NEW n \in Names, NEW mode, Open(t, n, mode)
  PROVE  PortInv' /\ DescriptorsKept
<1>1. /\ cutting' = cutting /\ lock' = lock /\ held' = [held EXCEPT ![t] = @ \cup {NewFd}]
      /\ \E synced \in BOOLEAN : OpenAs(t, n, Flags(mode), synced)
  BY DEF Open
<1>2. /\ TreeOK(tree') /\ TableInv(table', files') /\ FilesInv(files', tree')
      /\ StreamInv(stream', tree')
      /\ NewFd \notin Usable(table, files)
      /\ Usable(table', files') = Usable(table, files) \cup {NewFd}
      /\ \A fd \in Live(table) : table'.cache[fd] = table.cache[fd]
  BY <1>1, OpenAsDoes
<1>3. OwnersInv(Usable(table, files) \cup {NewFd}, [held EXCEPT ![t] = @ \cup {NewFd}], cutting)
  BY <1>2, OwnersChange DEF PortInv
<1>4. DescriptorsKept
  BY <1>2, HeldInUse DEF DescriptorsKept
<1> QED
  BY <1>1, <1>2, <1>3, <1>4 DEF PortInv

LEMMA TruncateOpensStep ==
  ASSUME PortInv, NEW t \in Tasks, NEW n \in Names, TruncateOpens(t, n)
  PROVE  PortInv' /\ DescriptorsKept
<1>1. /\ cutting' = [cutting EXCEPT ![t] = [at |-> "cut", fd |-> NewFd]]
      /\ lock' = lock /\ held' = held /\ cutting[t] = NoTruncate
      /\ OpenAs(t, n, {"RDWR"}, TRUE)
  BY DEF TruncateOpens, CanTake
<1>2. /\ TreeOK(tree') /\ TableInv(table', files') /\ FilesInv(files', tree')
      /\ StreamInv(stream', tree')
      /\ NewFd \notin Usable(table, files)
      /\ Usable(table', files') = Usable(table, files) \cup {NewFd}
      /\ \A fd \in Live(table) : table'.cache[fd] = table.cache[fd]
  BY <1>1, OpenAsDoes
<1>3. OwnersInv(Usable(table, files) \cup {NewFd}, held,
                [cutting EXCEPT ![t] = [at |-> "cut", fd |-> NewFd]])
  BY <1>1, <1>2, OwnersChange DEF PortInv
<1>4. DescriptorsKept
  BY <1>2, HeldInUse DEF DescriptorsKept
<1> QED
  BY <1>1, <1>2, <1>3, <1>4 DEF PortInv

LEMMA OpenFailsStep ==
  ASSUME PortInv, NEW t \in Tasks, OpenFails(t)
  PROVE  PortInv' /\ DescriptorsKept
<1>1. /\ table' = Grown(table) /\ UNCHANGED tree /\ UNCHANGED files /\ UNCHANGED held
      /\ UNCHANGED cutting /\ UNCHANGED lock /\ UNCHANGED stream
  BY DEF OpenFails
<1>2. TableInv(table, files)
  BY DEF PortInv
<1>3. /\ TableInv(table', files') /\ Live(table') = Live(table)
      /\ \A fd \in Live(table) : table'.cache[fd] = table.cache[fd]
  BY <1>1, <1>2, GrowKeeps
<1>4. Usable(table', files') = Usable(table, files)
  BY <1>1, <1>3 DEF Usable
<1>5. DescriptorsKept
  BY <1>3, HeldInUse DEF DescriptorsKept
<1> QED
  BY <1>1, <1>3, <1>4, <1>5 DEF PortInv

(* A write, a sync or the cut of a truncate.                               *)
LEMMA MarkStep ==
  ASSUME PortInv, NEW fd \in Usable(table, files), NEW mark \in {"clean", "dirty", "erred"},
         files' = [files EXCEPT ![table.cache[fd]].lfs = mark], UNCHANGED table
  PROVE  /\ TableInv(table', files') /\ FilesInv(files', tree)
         /\ Usable(table', files') = Usable(table, files)
<1>1. /\ TableInv(table, files) /\ FilesInv(files, tree)
      /\ mark \in {"clean", "dirty", "erred", "closed"} /\ mark # "closed"
  BY DEF PortInv
<1> DEFINE others == Marked(table, files, fd, mark)
<1>2. TableInv(table, others) /\ FilesInv(others, tree) /\ Usable(table, others) = Usable(table, files)
  BY <1>1, MarkKeeps
<1>3. files' = others /\ table' = table
  BY DEF Marked
<1> HIDE DEF others
<1> QED
  BY <1>2, <1>3

LEMMA WriteOrFsyncStep ==
  ASSUME PortInv, NEW t \in Tasks, NEW fd \in held[t], Write(t, fd) \/ Fsync(t, fd)
  PROVE  PortInv' /\ DescriptorsKept
<1>1. /\ UNCHANGED tree /\ UNCHANGED table /\ UNCHANGED held
      /\ UNCHANGED cutting /\ UNCHANGED lock /\ UNCHANGED stream
  BY DEF Write, Fsync
<1>2. fd \in Usable(table, files)
  BY HeldInUse
<1>3. \E mark \in {"clean", "dirty", "erred"} :
        files' = [files EXCEPT ![table.cache[fd]].lfs = mark]
  <2>1. CASE Write(t, fd)
    BY <2>1 DEF Write
  <2>2. CASE Fsync(t, fd)
    <3>1. table.cache[fd] \in Files /\ files[table.cache[fd]] # NoFile
      BY <1>2, TableFacts DEF PortInv, TableInv, SlotsHold, Usable
    <3>2. files[table.cache[fd]].lfs \in {"clean", "dirty", "erred"}
      <4>1. files[table.cache[fd]] \in FileRecord
        BY <3>1 DEF PortInv, TableInv
      <4>2. files[table.cache[fd]].lfs \notin {"free", "closed"}
        BY <1>2, <3>1 DEF PortInv, FilesInv, Usable
      <4> QED
        BY <4>1, <4>2 DEF FileRecord
    <3>3. Synced(table.cache[fd]) \subseteq {"clean", "dirty", "erred"}
      BY <3>2 DEF Synced
    <3> QED
      BY <2>2, <3>3 DEF Fsync
  <2> QED
    BY <2>1, <2>2
<1>4. /\ TableInv(table', files') /\ FilesInv(files', tree)
      /\ Usable(table', files') = Usable(table, files)
  BY <1>1, <1>2, <1>3, MarkStep
<1>5. DescriptorsKept
  BY <1>1 DEF DescriptorsKept
<1> QED
  BY <1>1, <1>4, <1>5 DEF PortInv

LEMMA TruncateCutsStep ==
  ASSUME PortInv, NEW t \in Tasks, TruncateCuts(t)
  PROVE  PortInv' /\ DescriptorsKept
<1>1. /\ UNCHANGED tree /\ UNCHANGED table /\ UNCHANGED held /\ UNCHANGED lock /\ UNCHANGED stream
      /\ cutting' = [cutting EXCEPT ![t].at = "close"] /\ cutting[t].at = "cut"
      /\ \E mark \in {"dirty", "clean"} :
           files' = [files EXCEPT ![table.cache[cutting[t].fd]].lfs = mark]
  BY DEF TruncateCuts
<1>2. cutting[t] # NoTruncate
  BY <1>1 DEF NoTruncate
<1>3. cutting[t].fd \in Usable(table, files)
  BY <1>2, HeldInUse
<1>4. /\ TableInv(table', files') /\ FilesInv(files', tree)
      /\ Usable(table', files') = Usable(table, files)
  BY <1>1, <1>3, MarkStep
<1>5. OwnersInv(Usable(table, files), held, [cutting EXCEPT ![t].at = "close"])
  BY <1>2, OwnersChange DEF PortInv
<1>6. DescriptorsKept
  BY <1>1 DEF DescriptorsKept
<1> QED
  BY <1>1, <1>4, <1>5, <1>6 DEF PortInv

(* The last use of a descriptor, whether the close works or not.           *)
LEMMA CloseDoes ==
  ASSUME PortInv, NEW fd \in Usable(table, files), CloseWorks(fd) \/ CloseFails(fd)
  PROVE  /\ TableInv(table', files') /\ FilesInv(files', tree)
         /\ Usable(table', files') = Usable(table, files) \ {fd}
         /\ \A k \in Live(table) \ {fd} : table'.cache[k] = table.cache[k]
<1>1. TableInv(table, files) /\ FilesInv(files, tree) /\ fd \in Live(table)
  BY DEF PortInv, Usable
<1>2. CASE CloseWorks(fd)
  <2> DEFINE after == FreeFd(table, fd)
             others == [files EXCEPT ![table.cache[fd]] = NoFile]
  <2>1. /\ TableInv(after, others)
        /\ DOMAIN after.cache = DOMAIN table.cache
        /\ Live(after) = Live(table) \ {fd}
        /\ \A k \in Live(after) : after.cache[k] = table.cache[k]
    BY <1>1, FreeKeeps
  <2>2. Usable(after, others) = Usable(table, files) \ {fd}
    BY <1>1, FreeUsable
  <2>3. table' = after /\ files' = others
    BY <1>2 DEF CloseWorks
  <2>4. FilesInv(others, tree)
    <3>1. files \in [Files -> FileRecord]
      BY <1>1 DEF TableInv
    <3>2. \A f \in Files : others[f] = files[f] \/ others[f] = NoFile
      BY <3>1
    <3> HIDE DEF others
    <3> QED
      BY <1>1, <3>2 DEF FilesInv
  <2> HIDE DEF after, others
  <2> QED
    BY <2>1, <2>2, <2>3, <2>4
<1>3. CASE CloseFails(fd)
  <2> DEFINE others == Marked(table, files, fd, "closed")
  <2>1. /\ TableInv(table, others) /\ FilesInv(others, tree)
        /\ Usable(table, others) = Usable(table, files) \ {fd}
    BY <1>1, MarkKeeps
  <2>2. files' = others /\ table' = table
    BY <1>3 DEF CloseFails, Marked
  <2> HIDE DEF others
  <2> QED
    BY <2>1, <2>2
<1> QED
  BY <1>2, <1>3

LEMMA CloseStep ==
  ASSUME PortInv, NEW t \in Tasks, NEW fd \in held[t], CloseFd(t, fd)
  PROVE  PortInv' /\ DescriptorsKept
<1>1. /\ UNCHANGED tree /\ UNCHANGED cutting /\ UNCHANGED lock /\ UNCHANGED stream
      /\ CloseWorks(fd) \/ CloseFails(fd)
      /\ held' = [held EXCEPT ![t] = @ \ {fd}]
  BY DEF CloseFd
<1>2. /\ fd \in Usable(table, files)
      /\ \A u \in Tasks : held[u] \subseteq Live(table)
      /\ \A u \in Tasks : u # t => fd \notin held[u]
  BY HeldInUse
<1>3. /\ TableInv(table', files') /\ FilesInv(files', tree)
      /\ Usable(table', files') = Usable(table, files) \ {fd}
      /\ \A k \in Live(table) \ {fd} : table'.cache[k] = table.cache[k]
  BY <1>1, <1>2, CloseDoes
<1>4. OwnersInv(Usable(table, files) \ {fd}, [held EXCEPT ![t] = @ \ {fd}], cutting)
  BY OwnersChange DEF PortInv
<1>5. DescriptorsKept
  <2>1. \A u \in Tasks : fd \notin held'[u] \/ fd \notin held[u]
    <3>1. held \in [Tasks -> SUBSET Usable(table, files)]
      BY DEF PortInv, OwnersInv
    <3> QED
      BY <1>1, <1>2, <3>1
  <2> QED
    BY <1>2, <1>3, <2>1 DEF DescriptorsKept
<1> QED
  BY <1>1, <1>3, <1>4, <1>5 DEF PortInv

LEMMA TruncateClosesStep ==
  ASSUME PortInv, NEW t \in Tasks, TruncateCloses(t)
  PROVE  PortInv' /\ DescriptorsKept
<1> DEFINE fd == cutting[t].fd
<1>1. /\ UNCHANGED tree /\ UNCHANGED held /\ UNCHANGED lock /\ UNCHANGED stream
      /\ CloseWorks(fd) \/ CloseFails(fd)
      /\ cutting' = [cutting EXCEPT ![t] = NoTruncate] /\ cutting[t].at = "close"
  BY DEF TruncateCloses
<1>2. cutting[t] # NoTruncate
  BY <1>1 DEF NoTruncate
<1>3. /\ fd \in Usable(table, files)
      /\ \A u \in Tasks : held[u] \subseteq Live(table) /\ fd \notin held[u]
  BY <1>2, HeldInUse
<1>4. /\ TableInv(table', files') /\ FilesInv(files', tree)
      /\ Usable(table', files') = Usable(table, files) \ {fd}
      /\ \A k \in Live(table) \ {fd} : table'.cache[k] = table.cache[k]
  <2> HIDE DEF fd
  <2> QED
    BY <1>1, <1>3, CloseDoes
<1>5. OwnersInv(Usable(table, files) \ {fd}, held, [cutting EXCEPT ![t] = NoTruncate])
  BY <1>2, OwnersChange DEF PortInv
<1>6. DescriptorsKept
  BY <1>3, <1>4 DEF DescriptorsKept
<1> QED
  BY <1>1, <1>4, <1>5, <1>6 DEF PortInv
(* The names of open files are left alone.                                 *)
LEMMA NamesChange ==
  ASSUME PortInv, NEW entries, TreeOK(entries),
         \A m \in Names : m \in BusyNames(table) /\ tree[m] = "file" => entries[m] = "file"
  PROVE  FilesInv(files, entries)
BY BusyIsOpen DEF PortInv, FilesInv

LEMMA RemovalStep ==
  ASSUME PortInv, NEW t \in Tasks, NEW n \in Names, Unlink(t, n) \/ Rmdir(t, n)
  PROVE  PortInv' /\ DescriptorsKept
<1>1. /\ UNCHANGED table /\ UNCHANGED files /\ UNCHANGED held /\ UNCHANGED cutting /\ UNCHANGED lock
      /\ tree' = [tree EXCEPT ![n] = "none"] /\ stream' = AfterDelete(stream, tree, n)
      /\ tree[n] # "none" /\ (tree[n] = "file" => n \notin BusyNames(table))
  BY DEF Unlink, Rmdir
<1>2. tree \in [Names -> {"none", "file", "dir"}] /\ StreamInv(stream, tree) /\ n \in Present(tree)
  BY <1>1 DEF PortInv, TreeOK, Present
<1>3. TreeOK(tree') /\ \A m \in Names : m # n => tree'[m] = tree[m]
  BY <1>1, <1>2 DEF TreeOK
<1>4. StreamInv(stream', tree')
  <2>1. StreamInv(AfterDelete(stream, tree, n), [tree EXCEPT ![n] = "none"])
    BY <1>2, StreamOverDelete
  <2> QED
    BY <1>1, <2>1
<1>5. FilesInv(files, tree')
  BY <1>1, <1>3, NamesChange
<1> QED
  BY <1>1, <1>3, <1>4, <1>5 DEF PortInv, DescriptorsKept

LEMMA MkdirStep ==
  ASSUME PortInv, NEW t \in Tasks, NEW n \in Names, Mkdir(t, n)
  PROVE  PortInv' /\ DescriptorsKept
<1>1. /\ UNCHANGED table /\ UNCHANGED files /\ UNCHANGED held /\ UNCHANGED cutting /\ UNCHANGED lock
      /\ tree' = [tree EXCEPT ![n] = "dir"] /\ stream' = AfterCreate(stream, tree, n)
      /\ tree[n] = "none"
  BY DEF Mkdir
<1>2. tree \in [Names -> {"none", "file", "dir"}] /\ StreamInv(stream, tree)
  BY DEF PortInv, TreeOK
<1>3. TreeOK(tree') /\ \A m \in Names : m # n => tree'[m] = tree[m]
  BY <1>1, <1>2 DEF TreeOK
<1>4. StreamInv(stream', tree')
  <2>1. "dir" \in {"file", "dir"}
    OBVIOUS
  <2>2. StreamInv(AfterCreate(stream, tree, n), [tree EXCEPT ![n] = "dir"])
    BY <1>1, <1>2, <2>1, StreamOverCreate
  <2> QED
    BY <1>1, <2>2
<1>5. FilesInv(files, tree')
  BY <1>1, <1>3, NamesChange
<1> QED
  BY <1>1, <1>3, <1>4, <1>5 DEF PortInv, DescriptorsKept

(* A stream over the three parts of a rename's commit.                     *)
LEMMA RenameStep ==
  ASSUME PortInv, NEW t \in Tasks, NEW src \in Names, NEW dst \in Names, Rename(t, src, dst)
  PROVE  PortInv' /\ DescriptorsKept
<1> DEFINE kind == tree[src]
           without == [tree EXCEPT ![dst] = "none"]
           both == [tree EXCEPT ![dst] = kind]
           replaced == IF tree[dst] = "none" THEN stream ELSE AfterDelete(stream, tree, dst)
           created == AfterCreate(replaced, without, dst)
<1>1. /\ UNCHANGED table /\ UNCHANGED files /\ UNCHANGED held /\ UNCHANGED cutting /\ UNCHANGED lock
      /\ src # dst /\ tree[src] # "none" /\ BusyNames(table) \cap {src, dst} = {}
      /\ tree' = [tree EXCEPT ![src] = "none", ![dst] = kind]
      /\ stream' = AfterDelete(created, both, src)
  BY DEF Rename
<1>2. tree \in [Names -> {"none", "file", "dir"}] /\ StreamInv(stream, tree)
  BY DEF PortInv, TreeOK
<1>3. kind \in {"file", "dir"}
  BY <1>1, <1>2
<1>4. /\ without \in [Names -> {"none", "file", "dir"}] /\ without[dst] = "none"
      /\ both \in [Names -> {"none", "file", "dir"}] /\ both = [without EXCEPT ![dst] = kind]
      /\ both[src] # "none"
      /\ tree' = [both EXCEPT ![src] = "none"]
  BY <1>1, <1>2, <1>3
<1>5. StreamInv(replaced, without)
  <2>1. CASE tree[dst] = "none"
    <3>1. without = tree
      BY <1>2, <2>1
    <3> QED
      BY <1>2, <2>1, <3>1
  <2>2. CASE tree[dst] # "none"
    <3>1. dst \in Present(tree)
      BY <2>2 DEF Present
    <3>2. StreamInv(AfterDelete(stream, tree, dst), [tree EXCEPT ![dst] = "none"])
      BY <1>2, <3>1, StreamOverDelete
    <3> QED
      BY <2>2, <3>2
  <2> QED
    BY <2>1, <2>2
<1> HIDE DEF kind, without, both, replaced, created
<1>6. StreamInv(created, both)
  <2>1. StreamInv(AfterCreate(replaced, without, dst), [without EXCEPT ![dst] = kind])
    BY <1>3, <1>4, <1>5, StreamOverCreate
  <2> QED
    BY <1>4, <2>1 DEF created
<1>7. StreamInv(stream', tree')
  <2>1. src \in Present(both)
    BY <1>4 DEF Present
  <2>2. StreamInv(AfterDelete(created, both, src), [both EXCEPT ![src] = "none"])
    BY <1>4, <1>6, <2>1, StreamOverDelete
  <2> QED
    BY <1>1, <1>4, <2>2
<1>8. TreeOK(tree') /\ \A m \in Names : m \notin {src, dst} => tree'[m] = tree[m]
  BY <1>1, <1>2, <1>3 DEF TreeOK
<1>9. FilesInv(files, tree')
  BY <1>1, <1>8, NamesChange
<1> QED
  BY <1>1, <1>7, <1>8, <1>9 DEF PortInv, DescriptorsKept

LEMMA StreamStep ==
  ASSUME PortInv, NEW t \in Tasks, Opendir(t) \/ Readdir(t) \/ Rewind(t) \/ Closedir(t)
  PROVE  PortInv' /\ DescriptorsKept
<1>1. /\ UNCHANGED tree /\ UNCHANGED table /\ UNCHANGED files /\ UNCHANGED held
      /\ UNCHANGED cutting /\ UNCHANGED lock
  BY DEF Opendir, Readdir, Rewind, Closedir
<1>2. /\ tree \in [Names -> {"none", "file", "dir"}] /\ StreamInv(stream, tree)
      /\ Present(tree) \subseteq Names
      /\ Cardinality(Present(tree)) \in Nat /\ Cardinality(Names) \in Nat
      /\ Cardinality(Present(tree)) <= Cardinality(Names)
      /\ \A m \in Present(tree) : IdOf(tree, m) \in Nat /\ 1 <= IdOf(tree, m)
                                  /\ IdOf(tree, m) <= Cardinality(Present(tree))
  BY BeforeFinite, NamesFacts, IdsWithin DEF PortInv, TreeOK, Present
<1>3. CASE Opendir(t) \/ Rewind(t)
  <2>1. stream' = [open |-> TRUE, id |-> 0, broken |-> FALSE, due |-> Present(tree)]
    <3>1. CASE Opendir(t)
      BY <3>1 DEF Opendir
    <3>2. CASE Rewind(t)
      <4>1. stream \in [open : BOOLEAN, id : 0 .. Cardinality(Names) + 1, broken : BOOLEAN,
                        due : SUBSET Names] /\ stream.open
        BY <1>2, <3>2 DEF StreamInv, Rewind
      <4>2. stream' = [stream EXCEPT !.id = 0, !.broken = FALSE, !.due = Present(tree)]
        BY <3>2 DEF Rewind
      <4> QED
        BY <4>1, <4>2
    <3> QED
      BY <1>3, <3>1, <3>2
  <2> QED
    BY <1>1, <1>2, <2>1 DEF StreamInv, PortInv, DescriptorsKept
<1>4. CASE Readdir(t)
  <2>1. PICK n \in Present(tree) :
          /\ IdOf(tree, n) = IF stream.id = 0 THEN 1 ELSE stream.id
          /\ stream' = [stream EXCEPT !.id = IdOf(tree, n) + 1, !.due = @ \ {n}]
    BY <1>4 DEF Readdir
  <2>2. stream.open /\ ~stream.broken
    BY <1>4 DEF Readdir
  <2> DEFINE new == IdOf(tree, n) + 1
             rest == stream.due \ {n}
  <2>3. /\ stream \in [open : BOOLEAN, id : 0 .. Cardinality(Names) + 1, broken : BOOLEAN,
                       due : SUBSET Names]
        /\ stream.due \subseteq Present(tree)
        /\ stream.id \in Nat
        /\ \A m \in stream.due : stream.id <= IdOf(tree, m)
    BY <1>2, <2>2 DEF StreamInv
  <2>4. ASSUME NEW m \in rest PROVE new <= IdOf(tree, m)
    <3>1. IdOf(tree, n) <= IdOf(tree, m) /\ m \in Present(tree) /\ m # n
      BY <1>2, <2>1, <2>3
    <3>2. m \in Nat /\ n \in Nat /\ m \in Names /\ n \in Names
      BY <1>2, <3>1, NamesFacts
    <3>3. IdOf(tree, n) # IdOf(tree, m)
      <4>1. CASE m < n
        BY <1>2, <3>1, <3>2, <4>1, IdsOrdered
      <4>2. CASE n < m
        BY <1>2, <3>1, <3>2, <4>2, IdsOrdered
      <4> QED
        BY <3>1, <3>2, <4>1, <4>2
    <3> QED
      BY <1>2, <3>1, <3>3
  <2>5. new \in Nat /\ new <= Cardinality(Present(tree)) + 1 /\ new \in 0 .. Cardinality(Names) + 1
    BY <1>2
  <2>6. stream' = [stream EXCEPT !.id = new, !.due = rest]
    BY <2>1
  <2> HIDE DEF new, rest
  <2>7. /\ stream' \in [open : BOOLEAN, id : 0 .. Cardinality(Names) + 1, broken : BOOLEAN,
                        due : SUBSET Names]
        /\ stream'.id = new /\ stream'.due = rest /\ stream'.open = stream.open
    BY <2>3, <2>5, <2>6 DEF rest
  <2>8. rest \subseteq Present(tree)
    BY <2>3 DEF rest
  <2>9. StreamInv(stream', tree)
    BY <2>2, <2>4, <2>5, <2>7, <2>8 DEF StreamInv
  <2> QED
    BY <1>1, <2>9 DEF PortInv, DescriptorsKept
<1>5. CASE Closedir(t)
  <2>1. stream' = NoStream
    BY <1>5 DEF Closedir
  <2>2. StreamInv(NoStream, tree)
    BY <1>2 DEF StreamInv, NoStream
  <2> QED
    BY <1>1, <2>1, <2>2 DEF PortInv, DescriptorsKept
<1> QED
  BY <1>3, <1>4, <1>5

LEMMA PositionalFailsStep ==
  ASSUME PortInv, NEW t \in Tasks, NEW fd \in held[t], PositionalFails(t, fd)
  PROVE  PortInv' /\ DescriptorsKept
<1>1. /\ UNCHANGED tree /\ UNCHANGED table /\ UNCHANGED files /\ UNCHANGED held
      /\ UNCHANGED cutting /\ UNCHANGED stream /\ lock' = t
  BY DEF PositionalFails
<1> QED
  BY <1>1 DEF PortInv, DescriptorsKept

-----------------------------------------------------------------------------
LEMMA NextKeepsPortInv ==
  ASSUME PortInv, [PortNext]_portVars
  PROVE  PortInv' /\ DescriptorsKept
<1>1. ASSUME NEW t \in Tasks, NEW n \in Names, NEW mode \in {"r", "r+", "w+", "a"}, Open(t, n, mode)
      PROVE  PortInv' /\ DescriptorsKept
  BY <1>1, OpenStep
<1>2. ASSUME NEW t \in Tasks, OpenFails(t) PROVE PortInv' /\ DescriptorsKept
  BY <1>2, OpenFailsStep
<1>3. ASSUME NEW t \in Tasks, NEW fd \in held[t],
             Write(t, fd) \/ Fsync(t, fd) \/ CloseFd(t, fd) \/ PositionalFails(t, fd)
      PROVE  PortInv' /\ DescriptorsKept
  BY <1>3, WriteOrFsyncStep, CloseStep, PositionalFailsStep
<1>4. ASSUME NEW t \in Tasks, NEW n \in Names, TruncateOpens(t, n) PROVE PortInv' /\ DescriptorsKept
  BY <1>4, TruncateOpensStep
<1>5. ASSUME NEW t \in Tasks, Truncate(t) PROVE PortInv' /\ DescriptorsKept
  BY <1>5, TruncateCutsStep, TruncateClosesStep DEF Truncate
<1>6. ASSUME NEW t \in Tasks, NEW n \in Names, Unlink(t, n) \/ Mkdir(t, n) \/ Rmdir(t, n)
      PROVE  PortInv' /\ DescriptorsKept
  BY <1>6, RemovalStep, MkdirStep
<1>7. ASSUME NEW t \in Tasks, NEW src \in Names, NEW dst \in Names, Rename(t, src, dst)
      PROVE  PortInv' /\ DescriptorsKept
  BY <1>7, RenameStep
<1>8. ASSUME NEW t \in Tasks, Opendir(t) \/ Readdir(t) \/ Rewind(t) \/ Closedir(t)
      PROVE  PortInv' /\ DescriptorsKept
  BY <1>8, StreamStep
<1>9. CASE UNCHANGED portVars
  <2>1. /\ UNCHANGED tree /\ UNCHANGED table /\ UNCHANGED files /\ UNCHANGED held
        /\ UNCHANGED cutting /\ UNCHANGED lock /\ UNCHANGED stream
    BY <1>9 DEF portVars
  <2> QED
    BY <2>1 DEF PortInv, DescriptorsKept
<1> QED
  BY <1>1, <1>2, <1>3, <1>4, <1>5, <1>6, <1>7, <1>8, <1>9 DEF PortNext

(* The invariant says what the table and the streams are to be.            *)
LEMMA PortInvSound == PortInv => TableSound /\ StreamMissesNothing
<1> SUFFICES ASSUME PortInv PROVE TableSound /\ StreamMissesNothing
  OBVIOUS
<1>1. /\ TableInv(table, files) /\ FilesInv(files, tree) /\ StreamInv(stream, tree)
      /\ OwnersInv(Usable(table, files), held, cutting)
      /\ tree \in [Names -> {"none", "file", "dir"}] /\ lock \in Tasks \cup {NoTask}
  BY DEF PortInv, TreeOK
<1>2. /\ TableShape(table) /\ SlotsHold(table, files) /\ ListHolds(table.list, files)
      /\ files \in [Files -> FileRecord]
  BY <1>1 DEF TableInv
<1>3. /\ DOMAIN table.cache = Slots(CacheSize(table))
      /\ table.count \in Nat /\ table.count <= CacheSize(table)
      /\ \A fd \in Live(table) : fd \in Slots(CacheSize(table)) /\ table.cache[fd] \in Files
  BY <1>1, TableFacts
<1>4. /\ held \in [Tasks -> SUBSET Usable(table, files)]
      /\ cutting \in [Tasks -> {NoTruncate} \cup [at : {"cut", "close"}, fd : Usable(table, files)]]
  BY <1>1 DEF OwnersInv
<1>5. Usable(table, files) \subseteq Live(table) /\ Usable(table, files) \subseteq DOMAIN table.cache
  BY DEF Usable, Live
<1>6. PortTypeOK
  <2>1. table.cache \in [0 .. CacheSize(table) - 1 -> Files \cup {NoSlot}]
        /\ table.count \in 0 .. CacheSize(table) /\ table.list \in Seq(Files)
    BY <1>2, <1>3 DEF TableShape, ListHolds, Slots
  <2>2. held \in [Tasks -> SUBSET DOMAIN table.cache]
    BY <1>4, <1>5
  <2>3. cutting \in [Tasks -> [at : {"idle", "cut", "close"}, fd : {-1} \cup DOMAIN table.cache]]
    <3>1. NoTruncate \in [at : {"idle", "cut", "close"}, fd : {-1} \cup DOMAIN table.cache]
      BY DEF NoTruncate
    <3> QED
      BY <1>4, <1>5, <3>1
  <2>4. files \in [Files -> [path : Names \cup {0},
                             lfs : {"free", "clean", "dirty", "erred", "closed"}]]
    BY <1>2 DEF FileRecord
  <2> QED
    BY <1>1, <2>1, <2>2, <2>3, <2>4 DEF PortTypeOK, StreamInv
<1>7. TableMatchesList
  <2> DEFINE inSlots == {table.cache[fd] : fd \in Live(table)}
  <2>1. inSlots = {f \in Files : files[f] # NoFile}
    BY <1>2, <1>3 DEF SlotsHold
  <2>2. ToSet(table.list) = {f \in Files : files[f] # NoFile}
    BY <1>2 DEF ListHolds, ToSet
  <2>3. table.count = Len(table.list) /\ table.count = Cardinality(Live(table))
    BY <1>2 DEF TableShape
  <2> HIDE DEF inSlots
  <2>4. inSlots = ToSet(table.list)
    BY <2>1, <2>2
  <2> QED
    BY <2>1, <2>3, <2>4 DEF TableMatchesList, inSlots
<1>8. NoDescriptorLost
  <2> DEFINE cut == {cutting[t].fd : t \in Tasks} \ {-1}
             closed == {fd \in Live(table) : files[table.cache[fd]].lfs = "closed"}
  <2>1. \A fd \in Live(table) : fd # -1
    BY <1>2, <1>3 DEF Slots, TableShape
  <2>2. cut = {cutting[t].fd : t \in Cutters(cutting)}
    <3>1. \A t \in Tasks : cutting[t] = NoTruncate \/ cutting[t].fd \in Live(table)
      BY <1>4, <1>5
    <3>2. NoTruncate.fd = -1
      BY DEF NoTruncate
    <3> QED
      BY <2>1, <3>1, <3>2 DEF Cutters
  <2>3. Usable(table, files) = Live(table) \ closed
    BY DEF Usable
  <2>4. \A t \in Cutters(cutting) : t \in Tasks /\ cutting[t].fd \in Usable(table, files)
    BY <1>4 DEF Cutters
  <2> HIDE DEF cut
  <2>5. \A t \in Tasks : held[t] \cap (cut \cup closed) = {}
    BY <1>1, <1>4, <2>2, <2>3 DEF OwnersInv
  <2>6. Usable(table, files) = (UNION {held[t] : t \in Tasks}) \cup cut
    BY <1>1, <1>4, <2>2, <2>4 DEF OwnersInv
  <2>7. Live(table) = (UNION {held[t] : t \in Tasks}) \cup cut \cup closed
    BY <2>3, <2>6
  <2>8. \A t, u \in Tasks : t # u => held[t] \cap held[u] = {}
    BY <1>1 DEF OwnersInv
  <2> QED
    BY <2>5, <2>7, <2>8 DEF NoDescriptorLost, cut
<1>9. OpenFilesStay
  BY <1>1 DEF FilesInv, OpenFilesStay
<1>10. StreamMissesNothing
  <2>1. ASSUME stream.open, ~stream.broken, NEW n \in stream.due
        PROVE  tree[n] # "none" /\ IdOf(tree, n) >= stream.id
    <3>1. n \in Present(tree) /\ stream.id <= IdOf(tree, n) /\ stream.id \in Int
      BY <1>1, <2>1, NamesFacts DEF StreamInv
    <3>2. IdOf(tree, n) \in Nat
      BY <3>1, IdsWithin
    <3> QED
      BY <3>1, <3>2 DEF Present
  <2> QED
    BY <2>1 DEF StreamMissesNothing
<1> QED
  BY <1>6, <1>7, <1>8, <1>9, <1>10 DEF TableSound

-----------------------------------------------------------------------------
LEMMA PortInvHolds == PortSpec => []PortInv
<1>1. PortInv /\ [PortNext]_portVars => PortInv'
  BY NextKeepsPortInv
<1> QED
  BY InitInv, <1>1, PTL DEF PortSpec

(* Slots, list and count are one table of the files allocated; every       *)
(* descriptor in use has one owner; and open files stay in the directory.  *)
(* See TableSound.                                                         *)
THEOREM TableStaysSound == PortSpec => []TableSound
BY PortInvHolds, PortInvSound, PTL

(* Whatever is created, removed and renamed around it, a directory stream  *)
(* that can be read misses no entry. See StreamMissesNothing.              *)
THEOREM StreamsMissNothing == PortSpec => []StreamMissesNothing
BY PortInvHolds, PortInvSound, PTL

(* Growing the table, and other tasks' closes, move no descriptor. See     *)
(* DescriptorsKeepTheirFile.                                               *)
THEOREM DescriptorsStay == PortSpec => DescriptorsKeepTheirFile
<1>1. PortInv /\ [PortNext]_portVars => [DescriptorsKept]_portVars
  BY NextKeepsPortInv
<1>2. [DescriptorsKept]_portVars =>
        [\A t \in Tasks : \A fd \in held[t] \cap held'[t] : table'.cache[fd] = table.cache[fd]]_portVars
  BY DEF DescriptorsKept
<1> QED
  BY PortInvHolds, <1>1, <1>2, PTL DEF PortSpec, DescriptorsKeepTheirFile
=============================================================================
