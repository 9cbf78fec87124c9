-------------------------- MODULE GenericDLLProofs --------------------------
(***************************************************************************)
(* The pointers of the linked lists keep one sequence of nodes per row,    *)
(* which reads the same in both directions, and no node of the pool is     *)
(* lost or shared, for any rows and any size of the pool.                  *)
(*                                                                         *)
(* The argument names the sequences: a layout gives the nodes of every     *)
(* place, in order, and says how the pointers follow from them. Every      *)
(* operation moves one node from a place to another, or a whole list.      *)
(***************************************************************************)
EXTENDS GenericDLL, FiniteSetTheorems, SequenceTheorems, WellFoundedInduction, TLAPS

-----------------------------------------------------------------------------
(* Sequences.                                                              *)

(* A set with 0 and the successor of each of its numbers has all numbers   *)
(* up to n.                                                                *)
LEMMA UpTo ==
  ASSUME NEW n \in Nat, NEW S, 0 \in S, \A k \in 0 .. n - 1 : k \in S => k + 1 \in S
  PROVE  \A k \in 0 .. n : k \in S
<1> DEFINE missing == {k \in 0 .. n : k \notin S}
<1> SUFFICES ASSUME missing # {} PROVE FALSE
  OBVIOUS
<1>1. missing \subseteq Nat
  OBVIOUS
<1>2. \E m \in missing : \A k \in missing : ~(<<k, m>> \in OpToRel(<, Nat))
  BY <1>1, NatLessThanWellFounded, WFMin
<1>3. PICK m \in missing : \A k \in missing : ~(k < m)
  BY <1>1, <1>2 DEF OpToRel
<1>4. m - 1 \in 0 .. n - 1 /\ m - 1 + 1 = m /\ m - 1 < m /\ m - 1 \in 0 .. n
  BY <1>3
<1>5. m - 1 \in S
  BY <1>3, <1>4
<1> QED
  BY <1>3, <1>4, <1>5

(* What stands behind and in front of position i; nothing beyond the ends. *)
After(s, i)   == IF i < Len(s) THEN s[i + 1] ELSE NULL
InFront(s, i) == IF i > 1 THEN s[i - 1] ELSE NULL

(* A sequence with an element entered at position m.                       *)
LEMMA InsertAtFacts ==
  ASSUME NEW S, NEW s \in Seq(S), NEW e \in S, NEW m \in 1 .. Len(s) + 1
  PROVE  /\ InsertAt(s, m, e) \in Seq(S) /\ Len(InsertAt(s, m, e)) = Len(s) + 1
         /\ \A i \in 1 .. Len(s) + 1 :
              InsertAt(s, m, e)[i] = IF i < m THEN s[i] ELSE IF i = m THEN e ELSE s[i - 1]
<1> DEFINE a == SubSeq(s, 1, m - 1)
           b == SubSeq(s, m, Len(s))
<1>1. a \in Seq(S) /\ Len(a) = m - 1 /\ \A i \in 1 .. m - 1 : a[i] = s[i]
  OBVIOUS
<1>2. b \in Seq(S) /\ Len(b) = Len(s) - m + 1 /\ \A i \in 1 .. Len(s) - m + 1 : b[i] = s[m + i - 1]
  OBVIOUS
<1>3. InsertAt(s, m, e) = (a \o <<e>>) \o b
  BY DEF InsertAt
<1>4. Len(s) \in Nat
  OBVIOUS
<1>5. PICK c : c = a \o <<e>>
  OBVIOUS
<1>6. PICK d : d = c \o b
  OBVIOUS
<1> HIDE DEF a, b
<1>7. c \in Seq(S) /\ Len(c) = m /\ \A i \in 1 .. m : c[i] = IF i < m THEN s[i] ELSE e
  <2>1. <<e>> \in Seq(S) /\ Len(<<e>>) = 1 /\ <<e>>[1] = e
    OBVIOUS
  <2>2. /\ c \in Seq(S) /\ Len(c) = m
        /\ \A i \in 1 .. m : c[i] = IF i <= m - 1 THEN a[i] ELSE <<e>>[i - (m - 1)]
    BY <1>1, <1>4, <1>5, <2>1, ConcatProperties
  <2>3. ASSUME NEW i \in 1 .. m PROVE c[i] = IF i < m THEN s[i] ELSE e
    <3>1. i > m - 1 => i - (m - 1) = 1
      BY <1>4
    <3> QED
      BY <1>1, <1>4, <2>1, <2>2, <3>1
  <2> QED
    BY <2>2, <2>3
<1>8. /\ d \in Seq(S) /\ Len(d) = Len(s) + 1
      /\ \A i \in 1 .. Len(s) + 1 : d[i] = IF i <= m THEN c[i] ELSE b[i - m]
  <2>1. Len(c) + Len(b) = Len(s) + 1
    BY <1>2, <1>4, <1>7
  <2> QED
    BY <1>2, <1>6, <1>7, <2>1, ConcatProperties
<1>9. ASSUME NEW i \in 1 .. Len(s) + 1
      PROVE  d[i] = IF i < m THEN s[i] ELSE IF i = m THEN e ELSE s[i - 1]
  <2>1. CASE i <= m
    BY <1>4, <1>7, <1>8, <2>1
  <2>2. CASE i > m
    <3>1. i - m \in 1 .. Len(s) - m + 1 /\ m + (i - m) - 1 = i - 1
      BY <1>4, <2>2
    <3> QED
      BY <1>2, <1>4, <1>8, <2>2, <3>1
  <2> QED
    BY <1>4, <2>1, <2>2
<1> QED
  BY <1>3, <1>5, <1>6, <1>8, <1>9

(* A sequence with the element at position k taken out.                    *)
LEMMA RemoveAtFacts ==
  ASSUME NEW S, NEW s \in Seq(S), NEW k \in 1 .. Len(s)
  PROVE  /\ RemoveAt(s, k) \in Seq(S) /\ Len(RemoveAt(s, k)) = Len(s) - 1
         /\ \A i \in 1 .. Len(s) - 1 : RemoveAt(s, k)[i] = IF i < k THEN s[i] ELSE s[i + 1]
<1> DEFINE a == SubSeq(s, 1, k - 1)
           b == SubSeq(s, k + 1, Len(s))
<1>1. a \in Seq(S) /\ Len(a) = k - 1 /\ \A i \in 1 .. k - 1 : a[i] = s[i]
  OBVIOUS
<1>2. b \in Seq(S) /\ Len(b) = Len(s) - k /\ \A i \in 1 .. Len(s) - k : b[i] = s[k + i]
  OBVIOUS
<1>3. RemoveAt(s, k) = a \o b
  BY DEF RemoveAt
<1>4. Len(s) \in Nat
  OBVIOUS
<1>5. PICK d : d = a \o b
  OBVIOUS
<1> HIDE DEF a, b
<1>6. /\ d \in Seq(S) /\ Len(d) = Len(s) - 1
      /\ \A i \in 1 .. Len(s) - 1 : d[i] = IF i <= k - 1 THEN a[i] ELSE b[i - (k - 1)]
  <2>1. Len(a) + Len(b) = Len(s) - 1
    BY <1>1, <1>2, <1>4
  <2> QED
    <3>1. /\ a \o b \in Seq(S) /\ Len(a \o b) = Len(a) + Len(b)
          /\ \A i \in 1 .. Len(a) + Len(b) : (a \o b)[i] = IF i <= Len(a) THEN a[i] ELSE b[i - Len(a)]
      BY <1>1, <1>2, ConcatProperties
    <3> QED
      BY <1>1, <1>5, <2>1, <3>1
<1>7. ASSUME NEW i \in 1 .. Len(s) - 1 PROVE d[i] = IF i < k THEN s[i] ELSE s[i + 1]
  <2>1. CASE i < k
    BY <1>1, <1>4, <1>6, <2>1
  <2>2. CASE i >= k
    <3>1. i - (k - 1) \in 1 .. Len(s) - k /\ k + (i - (k - 1)) = i + 1 /\ ~(i <= k - 1) /\ ~(i < k)
      BY <1>4, <2>2
    <3>2. b[i - (k - 1)] = s[i + 1]
      BY <1>2, <3>1
    <3>3. d[i] = b[i - (k - 1)]
      BY <1>6, <3>1
    <3> QED
      BY <3>1, <3>2, <3>3
  <2> QED
    BY <1>4, <2>1, <2>2
<1> QED
  BY <1>3, <1>5, <1>6, <1>7

(* A walk along links that follow a sequence visits that sequence.         *)
LEMMA WalkFollows ==
  ASSUME NEW start, NEW link, NEW s \in Seq(Nodes), Len(s) <= NumNodes,
         start = After(s, 0), \A i \in 1 .. Len(s) : link[s[i]] = After(s, i)
  PROVE  Walk(start, link) = s
<1> DEFINE IsAt(h) == h = [k \in 0 .. NumNodes |->
                             IF k = 0 THEN start
                             ELSE IF h[k - 1] = NULL THEN NULL ELSE link[h[k - 1]]]
           at == CHOOSE h : IsAt(h)
           f  == [k \in 0 .. NumNodes |-> After(s, k)]
<1>1. Len(s) \in Nat /\ NumNodes \in Nat /\ \A i \in 1 .. Len(s) : s[i] \in Nodes /\ s[i] # NULL
  BY NumNodesAssumption DEF Nodes, NULL
<1>2. \A k \in 1 .. NumNodes : After(s, k) = IF After(s, k - 1) = NULL THEN NULL ELSE link[After(s, k - 1)]
  <2> SUFFICES ASSUME NEW k \in 1 .. NumNodes
               PROVE  After(s, k) = IF After(s, k - 1) = NULL THEN NULL ELSE link[After(s, k - 1)]
    OBVIOUS
  <2>1. CASE k <= Len(s)
    <3>1. After(s, k - 1) = s[k] /\ k \in 1 .. Len(s)
      BY <1>1, <2>1 DEF After
    <3> QED
      BY <1>1, <3>1
  <2>2. CASE k > Len(s)
    BY <1>1, <2>2 DEF After
  <2> QED
    BY <1>1, <2>1, <2>2
<1>3. IsAt(f)
  <2>1. \A k \in 1 .. NumNodes : k - 1 \in 0 .. NumNodes
    BY <1>1
  <2>2. \A k \in 0 .. NumNodes :
          f[k] = IF k = 0 THEN start ELSE IF f[k - 1] = NULL THEN NULL ELSE link[f[k - 1]]
    BY <1>1, <1>2, <2>1
  <2> QED
    BY <2>2
<1>4. IsAt(at)
  <2> HIDE DEF IsAt, f
  <2> QED
    BY <1>3
<1>5. \A k \in 0 .. NumNodes :
        at[k] = IF k = 0 THEN start ELSE IF at[k - 1] = NULL THEN NULL ELSE link[at[k - 1]]
  <2> PICK g : g = at
    OBVIOUS
  <2> HIDE DEF at
  <2> QED
    BY <1>4
<1>6. Walk(start, link) = [k \in 1 .. Cardinality({j \in 0 .. NumNodes : at[j] # NULL}) |-> at[k - 1]]
  BY DEF Walk
<1> HIDE DEF at, f, IsAt
<1>7. \A k \in 0 .. NumNodes : at[k] = After(s, k)
  <2> DEFINE good == {k \in 0 .. NumNodes : at[k] = After(s, k)}
  <2>1. 0 \in good
    BY <1>1, <1>5
  <2>2. ASSUME NEW k \in 0 .. NumNodes - 1, k \in good PROVE k + 1 \in good
    <3>1. k + 1 \in 0 .. NumNodes /\ k + 1 \in 1 .. NumNodes /\ (k + 1) - 1 = k
      BY <1>1
    <3>2. at[k + 1] = IF at[k] = NULL THEN NULL ELSE link[at[k]]
      BY <1>5, <3>1
    <3>3. After(s, k + 1) = IF After(s, k) = NULL THEN NULL ELSE link[After(s, k)]
      BY <1>2, <3>1
    <3> QED
      BY <2>2, <3>1, <3>2, <3>3
  <2> HIDE DEF good
  <2>3. \A k \in 0 .. NumNodes : k \in good
    BY <1>1, <2>1, <2>2, UpTo
  <2> QED
    BY <2>3 DEF good
<1>8. {j \in 0 .. NumNodes : at[j] # NULL} = 0 .. Len(s) - 1
  BY <1>1, <1>7 DEF After
<1>9. Cardinality(0 .. Len(s) - 1) = Len(s)
  <2>1. 0 \in Int /\ Len(s) - 1 \in Int
    BY <1>1
  <2>2. Cardinality(0 .. Len(s) - 1) = IF 0 > Len(s) - 1 THEN 0 ELSE (Len(s) - 1) - 0 + 1
    BY <2>1, FS_Interval
  <2> QED
    BY <1>1, <2>2
<1>10. \A k \in 1 .. Len(s) : at[k - 1] = s[k]
  BY <1>1, <1>7 DEF After
<1>11. Walk(start, link) = [k \in 1 .. Len(s) |-> s[k]]
  BY <1>6, <1>8, <1>9, <1>10
<1> QED
  BY <1>11

-----------------------------------------------------------------------------
(* Links that follow a sequence, and what becomes of them when a node is   *)
(* entered or taken out.                                                   *)

Linked(s, nx, pv) ==
  \A i \in 1 .. Len(s) : nx[s[i]] = After(s, i) /\ pv[s[i]] = InFront(s, i)

(* The list that starts at h and ends at e.                                *)
Threads(s, h, e, nx, pv) ==
  h = After(s, 0) /\ e = InFront(s, Len(s) + 1) /\ Linked(s, nx, pv)

(* No node twice, and not this node at all.                                *)
NoRepeat(s) == \A i, j \in 1 .. Len(s) : s[i] = s[j] => i = j

Misses(s, n) == \A i \in 1 .. Len(s) : s[i] # n

(* The pointers after node e entered at m, and after the node at k left.   *)
NextEntered(s, m, e, nx, nx2) ==
  \A n \in Nodes : nx2[n] = IF n = e THEN After(s, m - 1)
                            ELSE IF m > 1 /\ n = s[m - 1] THEN e ELSE nx[n]

PrevEntered(s, m, e, pv, pv2) ==
  \A n \in Nodes : pv2[n] = IF n = e THEN InFront(s, m)
                            ELSE IF m <= Len(s) /\ n = s[m] THEN e ELSE pv[n]

NextLeft(s, k, nx, nx2) ==
  \A n \in Nodes : n # s[k] => nx2[n] = IF k > 1 /\ n = s[k - 1] THEN After(s, k) ELSE nx[n]

PrevLeft(s, k, pv, pv2) ==
  \A n \in Nodes : n # s[k] => pv2[n] = IF k < Len(s) /\ n = s[k + 1] THEN InFront(s, k) ELSE pv[n]

(* Links stay right when the pointers of the nodes stay as they are.       *)
LEMMA LinkedKept ==
  ASSUME NEW s, NEW nx, NEW pv, NEW nx2, NEW pv2, Linked(s, nx, pv),
         \A i \in 1 .. Len(s) : nx2[s[i]] = nx[s[i]] /\ pv2[s[i]] = pv[s[i]]
  PROVE  Linked(s, nx2, pv2)
BY DEF Linked

(* Entering a node threads the longer sequence.                            *)
LEMMA LinkedInsert ==
  ASSUME NEW s \in Seq(Nodes), NEW e \in Nodes, NEW nx, NEW pv, NEW nx2, NEW pv2, NEW h, NEW z,
         NoRepeat(s), Misses(s, e), NEW m \in 1 .. Len(s) + 1, Threads(s, h, z, nx, pv),
         NextEntered(s, m, e, nx, nx2), PrevEntered(s, m, e, pv, pv2)
  PROVE  Threads(InsertAt(s, m, e), IF m = 1 THEN e ELSE h, IF m = Len(s) + 1 THEN e ELSE z, nx2, pv2)
<1>1. PICK t : t = InsertAt(s, m, e)
  OBVIOUS
<1>2. /\ t \in Seq(Nodes) /\ Len(t) = Len(s) + 1 /\ Len(s) \in Nat
      /\ \A i \in 1 .. Len(s) + 1 : t[i] = IF i < m THEN s[i] ELSE IF i = m THEN e ELSE s[i - 1]
  <2>1. /\ InsertAt(s, m, e) \in Seq(Nodes) /\ Len(InsertAt(s, m, e)) = Len(s) + 1
        /\ \A i \in 1 .. Len(s) + 1 :
             InsertAt(s, m, e)[i] = IF i < m THEN s[i] ELSE IF i = m THEN e ELSE s[i - 1]
    BY InsertAtFacts
  <2> QED
    BY <1>1, <2>1
<1>3. \A i \in 1 .. Len(s) : s[i] \in Nodes
  OBVIOUS
<1>a. \A n \in Nodes : nx2[n] = IF n = e THEN After(s, m - 1)
                              ELSE IF m > 1 /\ n = s[m - 1] THEN e ELSE nx[n]
  BY DEF NextEntered
<1>b. \A n \in Nodes : pv2[n] = IF n = e THEN InFront(s, m)
                              ELSE IF m <= Len(s) /\ n = s[m] THEN e ELSE pv[n]
  BY DEF PrevEntered
<1>c. Linked(s, nx, pv) /\ \A i \in 1 .. Len(s) : s[i] # e
  BY DEF Threads, Misses
<1>4. ASSUME NEW i \in 1 .. Len(t) PROVE nx2[t[i]] = After(t, i) /\ pv2[t[i]] = InFront(t, i)
  <2>1. CASE i < m
    <3>1. i \in 1 .. Len(s) /\ t[i] = s[i] /\ s[i] \in Nodes /\ s[i] # e
      BY <1>c, <1>2, <1>3, <2>1
    <3>2. nx[s[i]] = After(s, i) /\ pv[s[i]] = InFront(s, i)
      BY <3>1 DEF Linked, Threads
    <3>3. nx2[s[i]] = After(t, i)
      <4>1. CASE i = m - 1
        BY <1>a, <1>2, <3>1, <4>1 DEF After
      <4>2. CASE i # m - 1
        <5>1. m - 1 \in 1 .. Len(s) /\ s[i] # s[m - 1]
          BY <1>2, <2>1, <3>1, <4>2 DEF NoRepeat
        <5>2. After(t, i) = s[i + 1] /\ After(s, i) = s[i + 1]
          BY <1>2, <2>1, <3>1, <4>2 DEF After
        <5> QED
          BY <1>a, <3>1, <3>2, <5>1, <5>2
      <4> QED
        BY <4>1, <4>2
    <3>4. pv2[s[i]] = InFront(t, i)
      <4>1. ~(m <= Len(s) /\ s[i] = s[m])
        BY <1>2, <2>1, <3>1 DEF NoRepeat
      <4>2. InFront(t, i) = InFront(s, i)
        BY <1>2, <2>1, <3>1 DEF InFront
      <4> QED
        BY <1>b, <3>1, <3>2, <4>1, <4>2
    <3> QED
      BY <3>1, <3>3, <3>4
  <2>2. CASE i = m
    <3>1. t[i] = e
      BY <1>2, <2>2
    <3>2. After(t, i) = After(s, m - 1)
      BY <1>2, <2>2 DEF After
    <3>3. InFront(t, i) = InFront(s, m)
      BY <1>2, <2>2 DEF InFront
    <3> QED
      BY <1>a, <1>b, <3>1, <3>2, <3>3
  <2>3. CASE i > m
    <3>1. i - 1 \in 1 .. Len(s) /\ t[i] = s[i - 1] /\ s[i - 1] \in Nodes /\ s[i - 1] # e
      BY <1>c, <1>2, <1>3, <2>3
    <3>2. nx[s[i - 1]] = After(s, i - 1) /\ pv[s[i - 1]] = InFront(s, i - 1)
      BY <3>1 DEF Linked, Threads
    <3>3. nx2[s[i - 1]] = After(t, i)
      <4>1. ~(m > 1 /\ s[i - 1] = s[m - 1])
        <5>1. m > 1 => m - 1 \in 1 .. Len(s) /\ m - 1 # i - 1
          BY <1>2, <2>3
        <5> QED
          BY <3>1, <5>1 DEF NoRepeat
      <4>2. After(t, i) = After(s, i - 1)
        BY <1>2, <2>3, <3>1 DEF After
      <4> QED
        BY <1>a, <3>1, <3>2, <4>1, <4>2
    <3>4. pv2[s[i - 1]] = InFront(t, i)
      <4>1. CASE i = m + 1
        <5>1. m <= Len(s) /\ i - 1 = m /\ InFront(t, i) = e
          BY <1>2, <3>1, <4>1 DEF InFront
        <5> QED
          BY <1>b, <3>1, <5>1
      <4>2. CASE i # m + 1
        <5>1. ~(m <= Len(s) /\ s[i - 1] = s[m])
          BY <1>2, <2>3, <3>1, <4>2 DEF NoRepeat
        <5>2. InFront(t, i) = InFront(s, i - 1)
          BY <1>2, <2>3, <3>1, <4>2 DEF InFront
        <5> QED
          BY <1>b, <3>1, <3>2, <5>1, <5>2
      <4> QED
        BY <4>1, <4>2
    <3> QED
      BY <3>1, <3>3, <3>4
  <2> QED
    BY <1>2, <2>1, <2>2, <2>3
<1>5. After(t, 0) = IF m = 1 THEN e ELSE After(s, 0)
  BY <1>2 DEF After
<1>6. InFront(t, Len(t) + 1) = IF m = Len(s) + 1 THEN e ELSE InFront(s, Len(s) + 1)
  BY <1>2 DEF InFront
<1> QED
  BY <1>1, <1>4, <1>5, <1>6 DEF Linked, Threads

(* Taking a node out threads the shorter sequence.                         *)
LEMMA LinkedRemove ==
  ASSUME NEW s \in Seq(Nodes), NEW nx, NEW pv, NEW nx2, NEW pv2, NEW h, NEW z,
         NoRepeat(s), NEW k \in 1 .. Len(s), Threads(s, h, z, nx, pv),
         NextLeft(s, k, nx, nx2), PrevLeft(s, k, pv, pv2)
  PROVE  Threads(RemoveAt(s, k), IF k = 1 THEN After(s, 1) ELSE h,
                 IF k = Len(s) THEN InFront(s, k) ELSE z, nx2, pv2)
<1>1. PICK t : t = RemoveAt(s, k)
  OBVIOUS
<1>2. /\ t \in Seq(Nodes) /\ Len(t) = Len(s) - 1 /\ Len(s) \in Nat
      /\ \A i \in 1 .. Len(s) - 1 : t[i] = IF i < k THEN s[i] ELSE s[i + 1]
  <2>1. /\ RemoveAt(s, k) \in Seq(Nodes) /\ Len(RemoveAt(s, k)) = Len(s) - 1
        /\ \A i \in 1 .. Len(s) - 1 : RemoveAt(s, k)[i] = IF i < k THEN s[i] ELSE s[i + 1]
    BY RemoveAtFacts
  <2> QED
    BY <1>1, <2>1
<1>3. \A i \in 1 .. Len(s) : s[i] \in Nodes
  OBVIOUS
<1>a. \A n \in Nodes :
        n # s[k] => nx2[n] = IF k > 1 /\ n = s[k - 1] THEN After(s, k) ELSE nx[n]
  BY DEF NextLeft
<1>b. \A n \in Nodes :
        n # s[k] => pv2[n] = IF k < Len(s) /\ n = s[k + 1] THEN InFront(s, k) ELSE pv[n]
  BY DEF PrevLeft
<1>c. Linked(s, nx, pv)
  BY DEF Threads
<1>4. ASSUME NEW i \in 1 .. Len(t) PROVE nx2[t[i]] = After(t, i) /\ pv2[t[i]] = InFront(t, i)
  <2>1. CASE i < k
    <3>1. i \in 1 .. Len(s) /\ t[i] = s[i] /\ s[i] \in Nodes /\ s[i] # s[k]
      BY <1>2, <1>3, <2>1 DEF NoRepeat
    <3>2. nx[s[i]] = After(s, i) /\ pv[s[i]] = InFront(s, i)
      BY <3>1 DEF Linked, Threads
    <3>3. nx2[s[i]] = After(t, i)
      <4>1. CASE i = k - 1
        <5>1. After(t, i) = After(s, k)
          BY <1>2, <4>1 DEF After
        <5> QED
          BY <1>a, <3>1, <4>1, <5>1
      <4>2. CASE i # k - 1
        <5>1. k > 1 => k - 1 \in 1 .. Len(s) /\ s[i] # s[k - 1]
          BY <1>2, <2>1, <3>1, <4>2 DEF NoRepeat
        <5>2. After(t, i) = After(s, i)
          <6>1. i + 1 \in 1 .. Len(s) - 1 /\ i + 1 < k /\ i < Len(t) /\ i < Len(s)
            BY <1>2, <2>1, <3>1, <4>2
          <6> QED
            BY <1>2, <6>1 DEF After
        <5> QED
          BY <1>a, <3>1, <3>2, <5>1, <5>2
      <4> QED
        BY <4>1, <4>2
    <3>4. pv2[s[i]] = InFront(t, i)
      <4>1. ~(k < Len(s) /\ s[i] = s[k + 1])
        BY <1>2, <2>1, <3>1 DEF NoRepeat
      <4>2. InFront(t, i) = InFront(s, i)
        BY <1>2, <2>1, <3>1 DEF InFront
      <4> QED
        BY <1>b, <3>1, <3>2, <4>1, <4>2
    <3> QED
      BY <3>1, <3>3, <3>4
  <2>2. CASE i >= k
    <3>1. i + 1 \in 1 .. Len(s) /\ t[i] = s[i + 1] /\ s[i + 1] \in Nodes /\ s[i + 1] # s[k]
      BY <1>2, <1>3, <2>2 DEF NoRepeat
    <3>2. nx[s[i + 1]] = After(s, i + 1) /\ pv[s[i + 1]] = InFront(s, i + 1)
      BY <3>1 DEF Linked, Threads
    <3>3. nx2[s[i + 1]] = After(t, i)
      <4>1. ~(k > 1 /\ s[i + 1] = s[k - 1])
        BY <1>2, <2>2, <3>1 DEF NoRepeat
      <4>2. After(t, i) = After(s, i + 1)
        BY <1>2, <2>2, <3>1 DEF After
      <4> QED
        BY <1>a, <3>1, <3>2, <4>1, <4>2
    <3>4. pv2[s[i + 1]] = InFront(t, i)
      <4>1. CASE i = k
        <5>1. k < Len(s) /\ InFront(t, i) = InFront(s, k)
          BY <1>2, <3>1, <4>1 DEF InFront
        <5> QED
          BY <1>b, <3>1, <4>1, <5>1
      <4>2. CASE i # k
        <5>1. ~(k < Len(s) /\ s[i + 1] = s[k + 1])
          BY <1>2, <2>2, <3>1, <4>2 DEF NoRepeat
        <5>2. InFront(t, i) = InFront(s, i + 1)
          BY <1>2, <2>2, <3>1, <4>2 DEF InFront
        <5> QED
          BY <1>b, <3>1, <3>2, <5>1, <5>2
      <4> QED
        BY <4>1, <4>2
    <3> QED
      BY <3>1, <3>3, <3>4
  <2> QED
    BY <1>2, <2>1, <2>2
<1>5. After(t, 0) = IF k = 1 THEN After(s, 1) ELSE After(s, 0)
  BY <1>2 DEF After
<1>6. InFront(t, Len(t) + 1) = IF k = Len(s) THEN InFront(s, k) ELSE InFront(s, Len(s) + 1)
  BY <1>2 DEF InFront
<1> QED
  BY <1>1, <1>4, <1>5, <1>6 DEF Linked, Threads

-----------------------------------------------------------------------------
(* The nodes of every place, and what happens when one moves.              *)

Layouts == [Places -> Seq(Nodes)]

(* No node is in two places nor twice in one; every node is in one.        *)
Once(l) ==
  \A p, q \in Places : \A i \in 1 .. Len(l[p]), j \in 1 .. Len(l[q]) :
    l[p][i] = l[q][j] => p = q /\ i = j

Covered(l) == \A n \in Nodes : \E p \in Places : \E i \in 1 .. Len(l[p]) : l[p][i] = n

(* The node at k of place a goes to m of place b.                          *)
Moved(l, a, k, b, m) ==
  [p \in Places |-> IF p = a THEN RemoveAt(l[a], k)
                    ELSE IF p = b THEN InsertAt(l[b], m, l[a][k]) ELSE l[p]]

(* Every place has a sequence of nodes.                                    *)
LEMMA LayoutFacts ==
  ASSUME NEW l \in Layouts, NEW p \in Places
  PROVE  /\ l[p] \in Seq(Nodes) /\ Len(l[p]) \in Nat
         /\ \A i \in 1 .. Len(l[p]) : l[p][i] \in Nodes
<1>1. l[p] \in Seq(Nodes)
  BY DEF Layouts
<1>2. PICK s \in Seq(Nodes) : s = l[p]
  BY <1>1
<1> QED
  BY <1>2

(* What is where after one node moved.                                     *)
LEMMA MovedFacts ==
  ASSUME NEW l \in Layouts, NEW a \in Places, NEW b \in Places, a # b,
         NEW k \in 1 .. Len(l[a]), NEW m \in 1 .. Len(l[b]) + 1, NEW t, t = Moved(l, a, k, b, m)
  PROVE  /\ t \in Layouts
         /\ t[a] = RemoveAt(l[a], k) /\ t[b] = InsertAt(l[b], m, l[a][k])
         /\ \A p \in Places : p # a /\ p # b => t[p] = l[p]
         /\ Len(t[a]) = Len(l[a]) - 1 /\ Len(t[b]) = Len(l[b]) + 1
         /\ \A i \in 1 .. Len(l[a]) - 1 : t[a][i] = IF i < k THEN l[a][i] ELSE l[a][i + 1]
         /\ \A i \in 1 .. Len(l[b]) + 1 :
              t[b][i] = IF i < m THEN l[b][i] ELSE IF i = m THEN l[a][k] ELSE l[b][i - 1]
<1>1. l[a] \in Seq(Nodes) /\ l[b] \in Seq(Nodes) /\ l[a][k] \in Nodes
  BY LayoutFacts
<1>2. t[a] = RemoveAt(l[a], k) /\ t[b] = InsertAt(l[b], m, l[a][k])
      /\ \A p \in Places : p # a /\ p # b => t[p] = l[p]
  BY DEF Moved
<1>3. /\ t[a] \in Seq(Nodes) /\ Len(t[a]) = Len(l[a]) - 1
      /\ \A i \in 1 .. Len(l[a]) - 1 : t[a][i] = IF i < k THEN l[a][i] ELSE l[a][i + 1]
  <2>1. /\ RemoveAt(l[a], k) \in Seq(Nodes) /\ Len(RemoveAt(l[a], k)) = Len(l[a]) - 1
        /\ \A i \in 1 .. Len(l[a]) - 1 :
             RemoveAt(l[a], k)[i] = IF i < k THEN l[a][i] ELSE l[a][i + 1]
    BY <1>1, RemoveAtFacts
  <2> QED
    BY <1>2, <2>1
<1>4. /\ t[b] \in Seq(Nodes) /\ Len(t[b]) = Len(l[b]) + 1
      /\ \A i \in 1 .. Len(l[b]) + 1 :
           t[b][i] = IF i < m THEN l[b][i] ELSE IF i = m THEN l[a][k] ELSE l[b][i - 1]
  <2>a. PICK s \in Seq(Nodes) : s = l[b]
    BY <1>1
  <2>b. PICK e \in Nodes : e = l[a][k]
    BY <1>1
  <2>1. m \in 1 .. Len(s) + 1
    BY <2>a
  <2>2. /\ InsertAt(s, m, e) \in Seq(Nodes) /\ Len(InsertAt(s, m, e)) = Len(s) + 1
        /\ \A i \in 1 .. Len(s) + 1 :
             InsertAt(s, m, e)[i] = IF i < m THEN s[i] ELSE IF i = m THEN e ELSE s[i - 1]
    BY <2>1, InsertAtFacts
  <2> QED
    BY <1>2, <2>a, <2>b, <2>2
<1>5. t \in Layouts
  <2>1. \A p \in Places : t[p] \in Seq(Nodes)
    BY <1>2, <1>3, <1>4, LayoutFacts
  <2>2. t = [p \in Places |-> t[p]]
    BY DEF Moved
  <2> QED
    BY <2>1, <2>2 DEF Layouts
<1> QED
  BY <1>2, <1>3, <1>4, <1>5

(* A node that moved is still in one place only.                           *)
LEMMA MovedOnce ==
  ASSUME NEW l \in Layouts, NEW a \in Places, NEW b \in Places, a # b, Once(l),
         NEW k \in 1 .. Len(l[a]), NEW m \in 1 .. Len(l[b]) + 1, NEW t, t = Moved(l, a, k, b, m)
  PROVE  Once(t)
<1> DEFINE WasIn(p, i) == IF p = b /\ i = m THEN a ELSE p
           WasAt(p, i) == IF p = b THEN IF i < m THEN i ELSE IF i = m THEN k ELSE i - 1
                          ELSE IF p = a /\ i >= k THEN i + 1 ELSE i
<1>1. Len(l[a]) \in Nat /\ Len(l[b]) \in Nat
  BY LayoutFacts
<1>2. ASSUME NEW p \in Places, NEW i \in 1 .. Len(t[p])
      PROVE  /\ WasIn(p, i) \in Places /\ WasAt(p, i) \in 1 .. Len(l[WasIn(p, i)])
             /\ t[p][i] = l[WasIn(p, i)][WasAt(p, i)]
  <2>1. CASE p = a
    <3>1. i \in 1 .. Len(l[a]) - 1 /\ t[a][i] = IF i < k THEN l[a][i] ELSE l[a][i + 1]
      BY <2>1, MovedFacts
    <3> QED
      BY <1>1, <2>1, <3>1
  <2>2. CASE p = b
    <3>1. /\ i \in 1 .. Len(l[b]) + 1
          /\ t[b][i] = IF i < m THEN l[b][i] ELSE IF i = m THEN l[a][k] ELSE l[b][i - 1]
      BY <2>2, MovedFacts
    <3> QED
      BY <1>1, <2>2, <3>1
  <2>3. CASE p # a /\ p # b
    <3>1. t[p] = l[p]
      BY <2>3 DEF Moved
    <3> QED
      BY <2>3, <3>1
  <2> QED
    BY <2>1, <2>2, <2>3
<1>3. ASSUME NEW p \in Places, NEW i \in 1 .. Len(t[p]), NEW q \in Places, NEW j \in 1 .. Len(t[q]),
             WasIn(p, i) = WasIn(q, j), WasAt(p, i) = WasAt(q, j)
      PROVE  p = q /\ i = j
  <2>1. Len(t[a]) = Len(l[a]) - 1 /\ Len(t[b]) = Len(l[b]) + 1 /\ i \in Int /\ j \in Int
    BY MovedFacts
  <2> QED
    BY <1>1, <1>3, <2>1
<1> HIDE DEF WasIn, WasAt
<1> SUFFICES ASSUME NEW p \in Places, NEW q \in Places,
                    NEW i \in 1 .. Len(t[p]), NEW j \in 1 .. Len(t[q]), t[p][i] = t[q][j]
             PROVE  p = q /\ i = j
  BY DEF Once
<1>4. WasIn(p, i) = WasIn(q, j) /\ WasAt(p, i) = WasAt(q, j)
  <2>1. PICK P \in Places : P = WasIn(p, i)
    BY <1>2
  <2>2. PICK Q \in Places : Q = WasIn(q, j)
    BY <1>2
  <2>3. PICK I : I = WasAt(p, i)
    OBVIOUS
  <2>4. PICK J : J = WasAt(q, j)
    OBVIOUS
  <2>5. I \in 1 .. Len(l[P]) /\ J \in 1 .. Len(l[Q]) /\ t[p][i] = l[P][I] /\ t[q][j] = l[Q][J]
    BY <1>2, <2>1, <2>2, <2>3, <2>4
  <2>6. l[P][I] = l[Q][J]
    BY <2>5
  <2>7. P = Q /\ I = J
    <3>1. \A x \in 1 .. Len(l[P]), y \in 1 .. Len(l[Q]) : l[P][x] = l[Q][y] => P = Q /\ x = y
      BY DEF Once
    <3> QED
      BY <2>5, <2>6, <3>1
  <2> QED
    BY <2>1, <2>2, <2>3, <2>4, <2>7
<1> QED
  BY <1>3, <1>4

(* Moving a node loses none.                                               *)
LEMMA MovedCovered ==
  ASSUME NEW l \in Layouts, NEW a \in Places, NEW b \in Places, a # b, Covered(l),
         NEW k \in 1 .. Len(l[a]), NEW m \in 1 .. Len(l[b]) + 1, NEW t, t = Moved(l, a, k, b, m)
  PROVE  Covered(t)
<1> SUFFICES ASSUME NEW n \in Nodes
             PROVE  \E p \in Places : \E i \in 1 .. Len(t[p]) : t[p][i] = n
  BY DEF Covered
<1>1. PICK p \in Places : \E i \in 1 .. Len(l[p]) : l[p][i] = n
  BY DEF Covered
<1>2. PICK i \in 1 .. Len(l[p]) : l[p][i] = n
  BY <1>1
<1>3. Len(l[a]) \in Nat /\ Len(l[b]) \in Nat
  BY LayoutFacts
<1>4. /\ Len(t[a]) = Len(l[a]) - 1 /\ Len(t[b]) = Len(l[b]) + 1
      /\ \A x \in 1 .. Len(l[a]) - 1 : t[a][x] = IF x < k THEN l[a][x] ELSE l[a][x + 1]
      /\ \A x \in 1 .. Len(l[b]) + 1 :
           t[b][x] = IF x < m THEN l[b][x] ELSE IF x = m THEN l[a][k] ELSE l[b][x - 1]
      /\ \A o \in Places : o # a /\ o # b => t[o] = l[o]
  <2>1. Len(t[a]) = Len(l[a]) - 1 /\ Len(t[b]) = Len(l[b]) + 1
    BY MovedFacts
  <2>2. \A x \in 1 .. Len(l[a]) - 1 : t[a][x] = IF x < k THEN l[a][x] ELSE l[a][x + 1]
    BY MovedFacts
  <2>3. \A x \in 1 .. Len(l[b]) + 1 :
          t[b][x] = IF x < m THEN l[b][x] ELSE IF x = m THEN l[a][k] ELSE l[b][x - 1]
    BY MovedFacts
  <2>4. \A o \in Places : o # a /\ o # b => t[o] = l[o]
    BY MovedFacts
  <2> QED
    BY <2>1, <2>2, <2>3, <2>4
<1>5. CASE p = a /\ i = k
  <2>1. m \in 1 .. Len(t[b]) /\ t[b][m] = n
    BY <1>2, <1>3, <1>4, <1>5
  <2> QED
    BY <2>1
<1>6. CASE p = a /\ i < k
  <2>1. i \in 1 .. Len(t[a]) /\ t[a][i] = n
    BY <1>2, <1>3, <1>4, <1>6
  <2> QED
    BY <2>1
<1>7. CASE p = a /\ i > k
  <2>1. i - 1 \in 1 .. Len(t[a]) /\ t[a][i - 1] = n
    BY <1>2, <1>3, <1>4, <1>7
  <2> QED
    BY <2>1
<1>8. CASE p = b /\ i < m
  <2>1. i \in 1 .. Len(t[b]) /\ t[b][i] = n
    BY <1>2, <1>3, <1>4, <1>8
  <2> QED
    BY <2>1
<1>9. CASE p = b /\ i >= m
  <2>1. i + 1 \in 1 .. Len(t[b]) /\ t[b][i + 1] = n
    <3>1. i + 1 \in 1 .. Len(l[b]) + 1 /\ ~(i + 1 < m) /\ i + 1 # m /\ (i + 1) - 1 = i
      BY <1>2, <1>3, <1>9
    <3> QED
      BY <1>2, <1>4, <1>9, <3>1
  <2> QED
    BY <2>1
<1>10. CASE p # a /\ p # b
  BY <1>2, <1>4, <1>10
<1>11. i \in Int /\ k \in Int /\ m \in Int
  BY <1>2, <1>3
<1> QED
  BY <1>5, <1>6, <1>7, <1>8, <1>9, <1>10, <1>11

(* All of place a goes to place b, which is empty.                         *)
AllMoved(l, a, b) ==
  [p \in Places |-> IF p = a THEN <<>> ELSE IF p = b THEN l[a] ELSE l[p]]

(* The same for a whole list.                                              *)
LEMMA AllMovedFacts ==
  ASSUME NEW l \in Layouts, NEW a \in Places, NEW b \in Places, a # b, l[b] = <<>>,
         Once(l), Covered(l), NEW t, t = AllMoved(l, a, b)
  PROVE  /\ t \in Layouts /\ Once(t) /\ Covered(t)
         /\ t[a] = <<>> /\ t[b] = l[a]
         /\ \A p \in Places : p # a /\ p # b => t[p] = l[p]
<1>1. /\ t[a] = <<>> /\ t[b] = l[a] /\ Len(t[a]) = 0
      /\ \A p \in Places : p # a /\ p # b => t[p] = l[p]
  BY DEF AllMoved
<1>2. t \in Layouts
  <2>1. \A p \in Places : t[p] \in Seq(Nodes)
    BY <1>1, LayoutFacts
  <2>2. t = [p \in Places |-> t[p]]
    BY DEF AllMoved
  <2> QED
    BY <2>1, <2>2 DEF Layouts
<1>3. Once(t)
  <2> SUFFICES ASSUME NEW p \in Places, NEW q \in Places,
                      NEW i \in 1 .. Len(t[p]), NEW j \in 1 .. Len(t[q]), t[p][i] = t[q][j]
               PROVE  p = q /\ i = j
    BY DEF Once
  <2>1. p # a /\ q # a
    BY <1>1
  <2> DEFINE o(x) == IF x = b THEN a ELSE x
  <2>2. o(p) \in Places /\ o(q) \in Places /\ t[p] = l[o(p)] /\ t[q] = l[o(q)]
    BY <1>1, <2>1
  <2>3. o(p) = o(q) /\ i = j
    <3> HIDE DEF o
    <3> QED
      BY <2>2 DEF Once
  <2> QED
    BY <2>1, <2>3
<1>4. Covered(t)
  <2> SUFFICES ASSUME NEW n \in Nodes
               PROVE  \E p \in Places : \E i \in 1 .. Len(t[p]) : t[p][i] = n
    BY DEF Covered
  <2>1. PICK p \in Places : \E i \in 1 .. Len(l[p]) : l[p][i] = n
    BY DEF Covered
  <2>2. p # b
    BY <2>1
  <2>3. CASE p = a
    BY <1>1, <2>1, <2>3
  <2>4. CASE p # a
    BY <1>1, <2>1, <2>2, <2>4
  <2> QED
    BY <2>3, <2>4
<1> QED
  BY <1>1, <1>2, <1>3, <1>4

-----------------------------------------------------------------------------
(* How the state follows from a layout.                                    *)

RowIs(s, r) == Threads(s, head[r], tail[r], next, prev)

FreeIs(s) ==
  /\ Len(s) = NumNodes - currNodeIdx
  /\ \A i \in 1 .. Len(s) : nodeArr[currNodeIdx + i - 1] = s[i]
  /\ \A i \in 0 .. currNodeIdx - 1 : nodeArr[i] = NULL

WaitingIs(s) == s = IF pending = NULL THEN <<>> ELSE <<pending>>

(* The node in front of the cursor is free already, so prev of the first   *)
(* one says nothing.                                                       *)
FreeingIs(s) ==
  /\ cursor = After(s, 0)
  /\ \A i \in 1 .. Len(s) : next[s[i]] = After(s, i) /\ (i > 1 => prev[s[i]] = s[i - 1])

Layout(l) ==
  /\ l \in Layouts /\ Once(l) /\ Covered(l)
  /\ \A r \in ListRows : RowIs(l[r], r)
  /\ FreeIs(l[Free]) /\ WaitingIs(l[Waiting]) /\ FreeingIs(l[Freeing])

(* The invariant: some layout explains the state. Beyond ListsSound it     *)
(* says that the places of nodeArr before currNodeIdx are NULL, which      *)
(* freeNode asserts, and that the rest of a list being freed still links   *)
(* back, which genericDLL_freeEntireLinkedList reads.                      *)
ListInv == ListsTypeOK /\ PointersNeverCorrupt /\ \E l : Layout(l)

(* The three places that are no rows are none, as rows are uint8_t.        *)
LEMMA PlacesApart ==
  /\ Free \in Places /\ Waiting \in Places /\ Freeing \in Places /\ ListRows \subseteq Places
  /\ Free \notin ListRows /\ Waiting \notin ListRows /\ Freeing \notin ListRows
  /\ Free # Waiting /\ Free # Freeing /\ Waiting # Freeing
BY ListRowsAssumption DEF Free, Waiting, Freeing, Places

(* The pool is finite and NULL is not in it.                               *)
LEMMA NodesFacts ==
  /\ NumNodes \in Nat /\ NumNodes > 0 /\ NULL \notin Nodes
  /\ IsFiniteSet(Nodes) /\ Cardinality(Nodes) = NumNodes
<1>1. NumNodes \in Nat /\ NumNodes > 0 /\ 1 \in Int /\ NumNodes \in Int
  BY NumNodesAssumption
<1>2. IsFiniteSet(1 .. NumNodes) /\ Cardinality(1 .. NumNodes) = IF 1 > NumNodes THEN 0 ELSE NumNodes - 1 + 1
  BY <1>1, FS_Interval
<1>3. NumNodes - 1 + 1 = NumNodes /\ ~(1 > NumNodes)
  BY <1>1
<1> QED
  BY <1>1, <1>2, <1>3 DEF Nodes, NULL

(* There are no more nodes than the pool has.                              *)
LEMMA FitsPool ==
  ASSUME NEW s \in Seq(Nodes), NoRepeat(s)
  PROVE  Len(s) <= NumNodes
<1> SUFFICES ASSUME Len(s) > NumNodes PROVE FALSE
  BY NodesFacts
<1>1. Len(s) \in Nat /\ s \in [1 .. Len(s) -> Nodes] /\ 1 \in Int
  OBVIOUS
<1>2. IsFiniteSet(1 .. Len(s)) /\ Cardinality(1 .. Len(s)) = IF 1 > Len(s) THEN 0 ELSE Len(s) - 1 + 1
  BY <1>1, FS_Interval
<1>3. Cardinality(Nodes) < Cardinality(1 .. Len(s))
  BY <1>1, <1>2, NodesFacts
<1>4. \E x, y \in 1 .. Len(s) : x # y /\ s[x] = s[y]
  BY <1>1, <1>2, <1>3, NodesFacts, FS_PigeonHole
<1> QED
  BY <1>4 DEF NoRepeat

(* With a node left out, fewer than the pool has.                          *)
LEMMA OneMissing ==
  ASSUME NEW s \in Seq(Nodes), NoRepeat(s), NEW n \in Nodes, \A i \in 1 .. Len(s) : s[i] # n
  PROVE  Len(s) < NumNodes
<1>1. PICK t : t = Append(s, n)
  OBVIOUS
<1>2. /\ t \in Seq(Nodes) /\ Len(t) = Len(s) + 1 /\ Len(s) \in Nat
      /\ \A i \in 1 .. Len(s) + 1 : t[i] = IF i <= Len(s) THEN s[i] ELSE n
  BY <1>1
<1>3. NoRepeat(t)
  BY <1>2 DEF NoRepeat
<1>4. Len(t) <= NumNodes
  BY <1>2, <1>3, FitsPool
<1> QED
  BY <1>2, <1>4, NodesFacts

(* The nodes of one place.                                                 *)
LEMMA OnceFacts ==
  ASSUME NEW l \in Layouts, Once(l), NEW p \in Places
  PROVE  /\ l[p] \in Seq(Nodes) /\ NoRepeat(l[p]) /\ Len(l[p]) <= NumNodes
         /\ \A i \in 1 .. Len(l[p]) : l[p][i] \in Nodes
         /\ \A q \in Places : p # q =>
              \A i \in 1 .. Len(l[p]), j \in 1 .. Len(l[q]) : l[p][i] # l[q][j]
<1>1. l[p] \in Seq(Nodes) /\ \A i \in 1 .. Len(l[p]) : l[p][i] \in Nodes
  BY LayoutFacts
<1>2. NoRepeat(l[p])
  BY DEF Once, NoRepeat
<1>3. Len(l[p]) <= NumNodes
  BY <1>1, <1>2, FitsPool
<1> QED
  BY <1>1, <1>2, <1>3 DEF Once

(* The lists, read from the pointers, are those of the layout.             *)
LEMMA ThreadsRead ==
  ASSUME NEW s \in Seq(Nodes), Len(s) <= NumNodes, NEW h, NEW e, NEW nx, NEW pv,
         Threads(s, h, e, nx, pv)
  PROVE  Walk(h, nx) = s /\ Walk(e, pv) = Reverse(s)
<1>1. Walk(h, nx) = s
  BY WalkFollows DEF Threads, Linked
<1>2. PICK t : t = Reverse(s)
  OBVIOUS
<1>3. /\ t \in Seq(Nodes) /\ Len(t) = Len(s) /\ Len(s) \in Nat
      /\ \A i \in 1 .. Len(s) : t[i] = s[(Len(s) - i) + 1]
  <2>1. t = [i \in 1 .. Len(s) |-> s[(Len(s) - i) + 1]]
    BY <1>2 DEF Reverse
  <2>2. \A i \in 1 .. Len(s) : (Len(s) - i) + 1 \in 1 .. Len(s)
    OBVIOUS
  <2>3. \A i \in 1 .. Len(s) : s[(Len(s) - i) + 1] \in Nodes
    BY <2>2
  <2> QED
    BY <2>1, <2>3
<1>4. e = After(t, 0)
  BY <1>3 DEF Threads, After, InFront
<1>5. \A i \in 1 .. Len(t) : pv[t[i]] = After(t, i)
  <2> SUFFICES ASSUME NEW i \in 1 .. Len(t) PROVE pv[t[i]] = After(t, i)
    OBVIOUS
  <2>1. (Len(s) - i) + 1 \in 1 .. Len(s) /\ t[i] = s[(Len(s) - i) + 1]
    BY <1>3
  <2>2. pv[t[i]] = InFront(s, (Len(s) - i) + 1)
    BY <2>1 DEF Threads, Linked
  <2>3. InFront(s, (Len(s) - i) + 1) = After(t, i)
    <3>1. CASE i < Len(s)
      <4>1. i + 1 \in 1 .. Len(s) /\ (Len(s) - i) + 1 > 1
            /\ ((Len(s) - i) + 1) - 1 = (Len(s) - (i + 1)) + 1
        BY <1>3, <3>1
      <4> QED
        BY <1>3, <3>1, <4>1 DEF After, InFront
    <3>2. CASE i = Len(s)
      BY <1>3, <3>2 DEF After, InFront
    <3> QED
      BY <1>3, <3>1, <3>2
  <2> QED
    BY <2>2, <2>3
<1>6. Walk(e, pv) = t
  BY <1>3, <1>4, <1>5, WalkFollows
<1> QED
  BY <1>1, <1>2, <1>6

(* The lists, as they are walked, are the ones of the layout.              *)
LEMMA LayoutRead ==
  ASSUME NEW l, Layout(l), ListsTypeOK
  PROVE  /\ \A r \in ListRows : Forward(r) = l[r] /\ Backward(r) = Reverse(l[r])
         /\ \A p \in Places : Line(p) = l[p]
<1>1. ASSUME NEW r \in ListRows PROVE Forward(r) = l[r] /\ Backward(r) = Reverse(l[r])
  <2>1. l[r] \in Seq(Nodes) /\ Len(l[r]) <= NumNodes /\ RowIs(l[r], r)
    BY PlacesApart, OnceFacts DEF Layout
  <2> QED
    BY <2>1, ThreadsRead DEF RowIs, Forward, Backward
<1>2. Line(Free) = l[Free]
  <2>1. PICK s \in Seq(Nodes) : s = l[Free]
    BY PlacesApart, OnceFacts DEF Layout
  <2>2. FreeIs(s)
    BY <2>1 DEF Layout
  <2>3. Line(Free) = [i \in 1 .. NumNodes - currNodeIdx |-> nodeArr[currNodeIdx + i - 1]]
    BY PlacesApart DEF Line
  <2>4. s = [i \in 1 .. Len(s) |-> s[i]]
    OBVIOUS
  <2>5. Line(Free) = [i \in 1 .. Len(s) |-> s[i]]
    BY <2>2, <2>3 DEF FreeIs
  <2> QED
    BY <2>1, <2>4, <2>5
<1>3. Line(Waiting) = l[Waiting]
  BY PlacesApart DEF Line, Layout, WaitingIs
<1>4. Line(Freeing) = l[Freeing]
  <2>1. PICK s \in Seq(Nodes) : s = l[Freeing] /\ Len(s) <= NumNodes
    BY PlacesApart, OnceFacts DEF Layout
  <2>2. FreeingIs(s)
    BY <2>1 DEF Layout
  <2>3. Line(Freeing) = Walk(cursor, next)
    BY PlacesApart DEF Line
  <2>4. Walk(cursor, next) = s
    BY <2>1, <2>2, WalkFollows DEF FreeingIs
  <2> QED
    BY <2>1, <2>3, <2>4
<1>5. \A r \in ListRows : Line(r) = Forward(r)
  BY PlacesApart DEF Line
<1> QED
  BY <1>1, <1>2, <1>3, <1>4, <1>5 DEF Places

(* What ListsSound says follows from the invariant.                        *)
LEMMA ListInvSound ==
  ASSUME ListInv
  PROVE  ListsSound
<1>1. PICK l : Layout(l)
  BY DEF ListInv
<1>2. ListsTypeOK /\ PointersNeverCorrupt
  BY DEF ListInv
<1>3. BothDirectionsAgree
  BY <1>1, <1>2, LayoutRead DEF BothDirectionsAgree
<1>4. NodesConserved
  <2> SUFFICES ASSUME NEW n \in Nodes
               PROVE  \E p \in Places : \E i \in DOMAIN Line(p) :
                        /\ Line(p)[i] = n
                        /\ \A q \in Places : \A j \in DOMAIN Line(q) : Line(q)[j] = n => q = p /\ j = i
    BY DEF NodesConserved
  <2>1. \A p \in Places : Line(p) = l[p] /\ DOMAIN Line(p) = 1 .. Len(l[p])
    BY <1>1, <1>2, LayoutRead, LayoutFacts DEF Layout
  <2>2. PICK p \in Places : \E i \in 1 .. Len(l[p]) : l[p][i] = n
    BY <1>1 DEF Layout, Covered
  <2>3. PICK i \in 1 .. Len(l[p]) : l[p][i] = n
    BY <2>2
  <2>4. \A q \in Places : \A j \in 1 .. Len(l[q]) : l[q][j] = n => q = p /\ j = i
    BY <1>1, <2>3 DEF Layout, Once
  <2>5. i \in DOMAIN Line(p) /\ Line(p)[i] = n
    BY <2>1, <2>3
  <2>6. \A q \in Places : \A j \in DOMAIN Line(q) : Line(q)[j] = n => q = p /\ j = i
    BY <2>1, <2>4
  <2> QED
    BY <2>5, <2>6, Zenon
<1> QED
  BY <1>2, <1>3, <1>4 DEF ListsSound

(* The lists after a step.                                                 *)
LEMMA ReadAfter ==
  ASSUME NEW t, Layout(t)'
  PROVE  \A r \in ListRows : Forward(r)' = t[r]
<1> SUFFICES ASSUME NEW r \in ListRows PROVE Forward(r)' = t[r]
  OBVIOUS
<1>1. t \in Layouts /\ Once(t) /\ Threads(t[r], head'[r], tail'[r], next', prev')
  BY DEF Layout, RowIs
<1>2. t[r] \in Seq(Nodes) /\ Len(t[r]) <= NumNodes
  BY <1>1, PlacesApart, OnceFacts
<1> QED
  BY <1>1, <1>2, ThreadsRead DEF Forward

-----------------------------------------------------------------------------
(* What each operation does to the layout.                                 *)

(* A failed assertion leaves everything where it is.                       *)
LEMMA FailKeeps ==
  ASSUME ListsTypeOK, NEW l, Layout(l), NEW what \in {"outOfNodes", "emptyList"}, Fail(what)
  PROVE  ListsTypeOK' /\ PointersNeverCorrupt' /\ Layout(l)'
<1>1. UNCHANGED <<nodeArr, currNodeIdx, next, prev, head, tail, pending, cursor>> /\ listFault' = what
  BY DEF Fail, pool
<1>2. ListsTypeOK' /\ PointersNeverCorrupt'
  BY <1>1 DEF ListsTypeOK, PointersNeverCorrupt
<1>3. Layout(l)'
  BY <1>1 DEF Layout, RowIs, FreeIs, WaitingIs, FreeingIs
<1> QED
  BY <1>2, <1>3

(* A row stays as it is when the pointers of its nodes do.                 *)
LEMMA RowKept ==
  ASSUME NEW s, NEW r \in ListRows, RowIs(s, r), head'[r] = head[r], tail'[r] = tail[r],
         \A i \in 1 .. Len(s) : next'[s[i]] = next[s[i]] /\ prev'[s[i]] = prev[s[i]]
  PROVE  RowIs(s, r)'
BY LinkedKept DEF RowIs, Threads

(* So does the rest of the list being freed.                               *)
LEMMA FreeingKept ==
  ASSUME NEW s, FreeingIs(s), cursor' = cursor,
         \A i \in 1 .. Len(s) : next'[s[i]] = next[s[i]] /\ prev'[s[i]] = prev[s[i]]
  PROVE  FreeingIs(s)'
BY DEF FreeingIs

(* The first free node waits to be linked.                                 *)
LEMMA CreateKeeps ==
  ASSUME ListsTypeOK, NEW l, Layout(l), Create, currNodeIdx < NumNodes - 1
  PROVE  /\ ListsTypeOK' /\ listFault' = listFault
         /\ 1 \in 1 .. Len(l[Free]) /\ pending' = l[Free][1]
         /\ Layout(Moved(l, Free, 1, Waiting, 1))'
<1>1. /\ pending = NULL /\ pending' = nodeArr[currNodeIdx]
      /\ nodeArr' = [nodeArr EXCEPT ![currNodeIdx] = NULL] /\ currNodeIdx' = currNodeIdx + 1
      /\ UNCHANGED <<next, prev, head, tail, cursor, listFault>>
  <2>1. ~(currNodeIdx >= NumNodes - 1)
    BY NodesFacts DEF ListsTypeOK
  <2> QED
    BY <2>1 DEF Create
<1>2. /\ currNodeIdx \in 0 .. NumNodes - 1 /\ nodeArr \in [0 .. NumNodes - 1 -> Pointers]
      /\ NumNodes \in Nat
  BY NodesFacts DEF ListsTypeOK
<1>3. /\ l \in Layouts /\ Once(l) /\ Covered(l) /\ FreeIs(l[Free]) /\ l[Waiting] = <<>>
  BY <1>1 DEF Layout, WaitingIs
<1>4. /\ Len(l[Free]) \in Nat /\ 1 \in 1 .. Len(l[Free]) /\ l[Free][1] \in Nodes
      /\ pending' = l[Free][1]
  <2>1. Len(l[Free]) = NumNodes - currNodeIdx
    BY <1>3 DEF FreeIs
  <2>2. 1 \in 1 .. Len(l[Free]) /\ Len(l[Free]) \in Nat
    BY <1>2, <2>1
  <2>3. l[Free][1] \in Nodes
    BY <1>3, <2>2, LayoutFacts, PlacesApart
  <2>4. nodeArr[currNodeIdx + 1 - 1] = l[Free][1] /\ currNodeIdx + 1 - 1 = currNodeIdx
    BY <1>2, <1>3, <2>2 DEF FreeIs
  <2> QED
    BY <1>1, <2>2, <2>3, <2>4
<1>5. PICK t : t = Moved(l, Free, 1, Waiting, 1)
  OBVIOUS
<1>6. 1 \in 1 .. Len(l[Waiting]) + 1
  BY <1>3
<1>a. /\ l \in Layouts /\ Free \in Places /\ Waiting \in Places /\ Free # Waiting
      /\ 1 \in 1 .. Len(l[Free]) /\ 1 \in 1 .. Len(l[Waiting]) + 1
  BY <1>3, <1>4, <1>6, PlacesApart
<1>7. Once(t) /\ Covered(t) /\ t \in Layouts
  <2>1. t \in Layouts
    BY <1>5, <1>a, MovedFacts
  <2>2. Once(t)
    BY <1>3, <1>5, <1>a, MovedOnce
  <2>3. Covered(t)
    BY <1>3, <1>5, <1>a, MovedCovered
  <2> QED
    BY <2>1, <2>2, <2>3
<1>8. /\ \A p \in Places : p # Free /\ p # Waiting => t[p] = l[p]
      /\ Len(t[Free]) = Len(l[Free]) - 1 /\ Len(t[Waiting]) = Len(l[Waiting]) + 1
  <2>1. Len(t[Free]) = Len(l[Free]) - 1
    BY <1>5, <1>a, MovedFacts
  <2>2. Len(t[Waiting]) = Len(l[Waiting]) + 1
    BY <1>5, <1>a, MovedFacts
  <2>3. \A p \in Places : p # Free /\ p # Waiting => t[p] = l[p]
    BY <1>5, <1>a, MovedFacts
  <2> QED
    BY <2>1, <2>2, <2>3
<1>9. \A i \in 1 .. Len(l[Free]) - 1 : t[Free][i] = IF i < 1 THEN l[Free][i] ELSE l[Free][i + 1]
  BY <1>5, <1>a, MovedFacts
<1>10. t[Waiting] = <<pending'>>
  <2>1. \A i \in 1 .. Len(l[Waiting]) + 1 :
          t[Waiting][i] = IF i < 1 THEN l[Waiting][i] ELSE IF i = 1 THEN l[Free][1] ELSE l[Waiting][i - 1]
    BY <1>5, <1>a, MovedFacts
  <2>2. t[Waiting] \in Seq(Nodes)
    BY <1>7, PlacesApart, LayoutFacts
  <2>3. PICK u \in Seq(Nodes) : u = t[Waiting] /\ Len(u) = 1 /\ u[1] = l[Free][1]
    BY <1>3, <1>6, <1>8, <2>1, <2>2
  <2>4. u = <<l[Free][1]>>
    BY <2>3
  <2> QED
    BY <1>4, <2>3, <2>4
<1>11. ListsTypeOK'
  <2>1. currNodeIdx + 1 \in 0 .. NumNodes - 1
    BY <1>2
  <2>2. nodeArr' \in [0 .. NumNodes - 1 -> Pointers]
    BY <1>1, <1>2 DEF Pointers
  <2> QED
    BY <1>1, <1>4, <2>1, <2>2 DEF ListsTypeOK, Pointers
<1>12. FreeIs(t[Free])'
  <2>1. Len(t[Free]) = NumNodes - currNodeIdx'
    BY <1>1, <1>2, <1>3, <1>8 DEF FreeIs
  <2>2. ASSUME NEW i \in 1 .. Len(t[Free]) PROVE nodeArr'[currNodeIdx' + i - 1] = t[Free][i]
    <3>1. i \in 1 .. Len(l[Free]) - 1 /\ i + 1 \in 1 .. Len(l[Free]) /\ ~(i < 1)
      BY <1>4, <1>8
    <3>2. t[Free][i] = l[Free][i + 1]
      BY <1>9, <3>1
    <3>3. nodeArr[currNodeIdx + (i + 1) - 1] = l[Free][i + 1]
      BY <1>3, <3>1 DEF FreeIs
    <3>4. /\ currNodeIdx' + i - 1 = currNodeIdx + (i + 1) - 1 /\ currNodeIdx' + i - 1 # currNodeIdx
          /\ currNodeIdx' + i - 1 \in 0 .. NumNodes - 1
      BY <1>1, <1>2, <1>3, <3>1 DEF FreeIs
    <3> QED
      BY <1>1, <1>2, <3>2, <3>3, <3>4
  <2>3. \A i \in 0 .. currNodeIdx' - 1 : nodeArr'[i] = NULL
    BY <1>1, <1>2, <1>3 DEF FreeIs
  <2> QED
    BY <2>1, <2>2, <2>3 DEF FreeIs
<1>13. WaitingIs(t[Waiting])'
  BY <1>4, <1>10, NodesFacts DEF WaitingIs
<1>14. FreeingIs(t[Freeing])'
  BY <1>1, <1>8, PlacesApart DEF Layout, FreeingIs
<1>15. \A r \in ListRows : RowIs(t[r], r)'
  BY <1>1, <1>8, PlacesApart DEF Layout, RowIs
<1>16. Layout(t)'
  BY <1>7, <1>12, <1>13, <1>14, <1>15 DEF Layout
<1> QED
  BY <1>1, <1>4, <1>5, <1>11, <1>16

(* The node created last enters the list of a row at position m.           *)
LEMMA LinkKeeps ==
  ASSUME ListsTypeOK, NEW l, Layout(l), NEW r \in ListRows, pending # NULL, NEW m \in 1 .. Len(l[r]) + 1,
         next' \in [Nodes -> Pointers], prev' \in [Nodes -> Pointers],
         NextEntered(l[r], m, pending, next, next'), PrevEntered(l[r], m, pending, prev, prev'),
         head' = IF m = 1 THEN [head EXCEPT ![r] = pending] ELSE head,
         tail' = IF m = Len(l[r]) + 1 THEN [tail EXCEPT ![r] = pending] ELSE tail,
         pending' = NULL, UNCHANGED <<nodeArr, currNodeIdx, cursor, listFault>>
  PROVE  /\ ListsTypeOK'
         /\ 1 \in 1 .. Len(l[Waiting]) /\ l[Waiting][1] = pending
         /\ Layout(Moved(l, Waiting, 1, r, m))'
<1>1. PICK e : e = pending
  OBVIOUS
<1>2. PICK s : s = l[r]
  OBVIOUS
<1>3. /\ l \in Layouts /\ Once(l) /\ Covered(l) /\ l[Waiting] = <<e>> /\ e \in Nodes
      /\ r \in Places /\ r # Waiting /\ r # Free /\ r # Freeing
  BY <1>1, PlacesApart DEF Layout, WaitingIs, ListsTypeOK, Pointers
<1>4. 1 \in 1 .. Len(l[Waiting]) /\ l[Waiting][1] = e /\ Len(l[Waiting]) = 1
  BY <1>3
<1>5. /\ s \in Seq(Nodes) /\ NoRepeat(s) /\ Len(s) \in Nat
      /\ \A i \in 1 .. Len(s) : s[i] \in Nodes /\ s[i] # e
  <2>1. s \in Seq(Nodes) /\ NoRepeat(s) /\ \A i \in 1 .. Len(s) : s[i] \in Nodes
    BY <1>2, <1>3, OnceFacts
  <2>2. \A i \in 1 .. Len(l[r]), j \in 1 .. Len(l[Waiting]) : l[r][i] # l[Waiting][j]
    BY <1>3, PlacesApart, OnceFacts
  <2> QED
    BY <1>2, <1>4, <2>1, <2>2
<1>6. PICK t : t = Moved(l, Waiting, 1, r, m)
  OBVIOUS
<1>a. /\ l \in Layouts /\ Waiting \in Places /\ r \in Places /\ Waiting # r
      /\ 1 \in 1 .. Len(l[Waiting]) /\ m \in 1 .. Len(l[r]) + 1
  BY <1>3, <1>4, PlacesApart
<1>7. t \in Layouts /\ Once(t) /\ Covered(t)
  <2>1. t \in Layouts
    BY <1>6, <1>a, MovedFacts
  <2>2. Once(t)
    BY <1>3, <1>6, <1>a, MovedOnce
  <2>3. Covered(t)
    BY <1>3, <1>6, <1>a, MovedCovered
  <2> QED
    BY <2>1, <2>2, <2>3
<1>8. t[r] = InsertAt(s, m, e)
  <2>1. t[r] = InsertAt(l[r], m, l[Waiting][1])
    BY <1>6, <1>a, MovedFacts
  <2> QED
    BY <1>2, <1>4, <2>1
<1>9. \A p \in Places : p # Waiting /\ p # r => t[p] = l[p]
  BY <1>6, <1>a, MovedFacts
<1>10. t[Waiting] = <<>>
  <2>1. Len(t[Waiting]) = 0
    <3>1. Len(t[Waiting]) = Len(l[Waiting]) - 1
      BY <1>6, <1>a, MovedFacts
    <3> QED
      BY <1>4, <3>1
  <2>2. t[Waiting] \in Seq(Nodes)
    BY <1>7, PlacesApart, LayoutFacts
  <2> QED
    BY <2>1, <2>2
<1>11. ListsTypeOK'
  <2>1. head' \in [ListRows -> Pointers] /\ tail' \in [ListRows -> Pointers]
    BY <1>1, <1>3 DEF ListsTypeOK, Pointers
  <2>2. pending' \in Pointers
    BY DEF Pointers
  <2> QED
    BY <2>1, <2>2 DEF ListsTypeOK
<1>12. RowIs(t[r], r)'
  <2>1. Threads(s, head[r], tail[r], next, prev)
    BY <1>2 DEF Layout, RowIs
  <2>2. m \in 1 .. Len(s) + 1
    BY <1>2
  <2>a. PICK nx : nx = next
    OBVIOUS
  <2>b. PICK pv : pv = prev
    OBVIOUS
  <2>c. PICK nx2 : nx2 = next'
    OBVIOUS
  <2>d. PICK pv2 : pv2 = prev'
    OBVIOUS
  <2>3. NextEntered(s, m, e, nx, nx2)
    BY <1>1, <1>2, <2>a, <2>c
  <2>4. PrevEntered(s, m, e, pv, pv2)
    BY <1>1, <1>2, <2>b, <2>d
  <2>5. PICK h : h = head[r]
    OBVIOUS
  <2>e. PICK z : z = tail[r]
    OBVIOUS
  <2>f. Threads(s, h, z, nx, pv) /\ s \in Seq(Nodes) /\ e \in Nodes /\ Misses(s, e)
    BY <1>3, <1>5, <2>1, <2>5, <2>a, <2>b, <2>e DEF Misses
  <2>g. Threads(InsertAt(s, m, e), IF m = 1 THEN e ELSE h, IF m = Len(s) + 1 THEN e ELSE z, nx2, pv2)
    BY <1>5, <2>2, <2>3, <2>4, <2>f, LinkedInsert
  <2>6. head'[r] = IF m = 1 THEN e ELSE head[r]
    BY <1>1 DEF ListsTypeOK
  <2>7. tail'[r] = IF m = Len(s) + 1 THEN e ELSE tail[r]
    BY <1>1, <1>2 DEF ListsTypeOK
  <2> QED
    BY <1>8, <2>5, <2>6, <2>7, <2>c, <2>d, <2>e, <2>g DEF RowIs
<1>13. ASSUME NEW p \in Places, p # Waiting, p # r, NEW i \in 1 .. Len(l[p])
       PROVE  next'[l[p][i]] = next[l[p][i]] /\ prev'[l[p][i]] = prev[l[p][i]]
  <2>1. l[p][i] \in Nodes
    BY <1>3, LayoutFacts
  <2>2. l[p][i] # e
    <3>1. \A x \in 1 .. Len(l[p]), y \in 1 .. Len(l[Waiting]) : l[p][x] = l[Waiting][y] => p = Waiting
      BY <1>3, <1>a DEF Once
    <3> QED
      BY <1>4, <1>13, <3>1
  <2>3. \A j \in 1 .. Len(s) : l[p][i] # s[j]
    <3>1. \A x \in 1 .. Len(l[p]), y \in 1 .. Len(l[r]) : l[p][x] # l[r][y]
      BY <1>3, <1>13, <1>a DEF Once
    <3> QED
      BY <1>2, <3>1
  <2>4. m > 1 => m - 1 \in 1 .. Len(s)
    BY <1>2, <1>5
  <2>5. m <= Len(s) => m \in 1 .. Len(s)
    BY <1>2, <1>5
  <2> QED
    BY <1>1, <1>2, <2>1, <2>2, <2>3, <2>4, <2>5 DEF NextEntered, PrevEntered
<1>14. ASSUME NEW q \in ListRows PROVE RowIs(t[q], q)'
  <2>1. CASE q = r
    BY <1>12, <2>1
  <2>2. CASE q # r
    <3>1. q \in Places /\ q # Waiting /\ t[q] = l[q] /\ RowIs(l[q], q)
      BY <1>9, <2>2, PlacesApart DEF Layout
    <3>2. head'[q] = head[q] /\ tail'[q] = tail[q]
      BY <2>2 DEF ListsTypeOK
    <3>3. \A i \in 1 .. Len(l[q]) : next'[l[q][i]] = next[l[q][i]] /\ prev'[l[q][i]] = prev[l[q][i]]
      BY <1>13, <2>2, <3>1
    <3>4. RowIs(l[q], q)'
      BY <3>1, <3>2, <3>3, RowKept
    <3> QED
      BY <3>1, <3>4
  <2> QED
    BY <2>1, <2>2
<1>15. FreeingIs(t[Freeing])'
  <2>1. t[Freeing] = l[Freeing] /\ FreeingIs(l[Freeing])
    BY <1>3, <1>9, PlacesApart DEF Layout
  <2>2. \A i \in 1 .. Len(l[Freeing]) :
          next'[l[Freeing][i]] = next[l[Freeing][i]] /\ prev'[l[Freeing][i]] = prev[l[Freeing][i]]
    BY <1>3, <1>13, PlacesApart
  <2>3. FreeingIs(l[Freeing])'
    BY <2>1, <2>2, FreeingKept
  <2> QED
    BY <2>1, <2>3
<1>16. FreeIs(t[Free])'
  <2>1. t[Free] = l[Free] /\ FreeIs(l[Free])
    BY <1>3, <1>9, PlacesApart DEF Layout
  <2> QED
    BY <2>1 DEF FreeIs
<1>17. WaitingIs(t[Waiting])'
  BY <1>10 DEF WaitingIs
<1>18. Layout(t)'
  BY <1>7, <1>14, <1>15, <1>16, <1>17 DEF Layout
<1> QED
  BY <1>1, <1>4, <1>6, <1>11, <1>18

(* The list of a row, as the pointers have it.                             *)
LEMMA RowFacts ==
  ASSUME ListsTypeOK, NEW l, Layout(l), NEW r \in ListRows, NEW s, s = l[r]
  PROVE  /\ s \in Seq(Nodes) /\ Len(s) \in Nat /\ NoRepeat(s)
         /\ \A i \in 1 .. Len(s) : s[i] \in Nodes /\ s[i] # NULL
         /\ \A i \in 1 .. Len(s) : next[s[i]] = After(s, i) /\ prev[s[i]] = InFront(s, i)
         /\ head[r] = After(s, 0) /\ tail[r] = InFront(s, Len(s) + 1)
         /\ head[r] = NULL <=> Len(s) = 0
         /\ tail[r] = NULL <=> Len(s) = 0
         /\ pending # NULL => pending \in Nodes /\ Misses(s, pending)
<1>1. l \in Layouts /\ Once(l) /\ r \in Places /\ r # Waiting /\ Waiting \in Places
  BY PlacesApart DEF Layout
<1>2. s \in Seq(Nodes) /\ Len(s) \in Nat /\ NoRepeat(s) /\ \A i \in 1 .. Len(s) : s[i] \in Nodes
  BY <1>1, OnceFacts, LayoutFacts
<1>3. Threads(s, head[r], tail[r], next, prev)
  BY DEF Layout, RowIs
<1>4. \A i \in 1 .. Len(s) : s[i] # NULL
  BY <1>2, NodesFacts
<1>5. head[r] = After(s, 0) /\ tail[r] = InFront(s, Len(s) + 1) /\ Linked(s, next, prev)
  BY <1>3 DEF Threads
<1>6. (head[r] = NULL <=> Len(s) = 0) /\ (tail[r] = NULL <=> Len(s) = 0)
  <2>1. Len(s) > 0 => Len(s) \in 1 .. Len(s) /\ 1 \in 1 .. Len(s)
    BY <1>2
  <2> QED
    BY <1>2, <1>4, <1>5, <2>1 DEF After, InFront
<1>7. ASSUME pending # NULL PROVE pending \in Nodes /\ Misses(s, pending)
  <2>1. l[Waiting] = <<pending>> /\ pending \in Nodes
    BY <1>7 DEF Layout, WaitingIs, ListsTypeOK, Pointers
  <2>2. Len(l[Waiting]) = 1 /\ l[Waiting][1] = pending /\ 1 \in 1 .. Len(l[Waiting])
    BY <2>1
  <2>3. \A x \in 1 .. Len(l[r]), y \in 1 .. Len(l[Waiting]) : l[r][x] = l[Waiting][y] => r = Waiting
    BY <1>1 DEF Once
  <2> QED
    BY <1>1, <2>1, <2>2, <2>3 DEF Misses
<1> QED
  BY <1>2, <1>4, <1>5, <1>6, <1>7 DEF Linked

(* The waiting node goes behind the last of a row.                         *)
LEMMA AppendKeeps ==
  ASSUME ListsTypeOK, NEW l, Layout(l), NEW r \in ListRows, AppendNode(r)
  PROVE  /\ ListsTypeOK' /\ listFault' = listFault /\ pending' = NULL /\ pending # NULL
         /\ 1 \in 1 .. Len(l[Waiting]) /\ l[Waiting][1] = pending
         /\ Layout(Moved(l, Waiting, 1, r, Len(l[r]) + 1))'
<1>1. PICK s : s = l[r]
  OBVIOUS
<1>2. PICK m : m = Len(s) + 1
  OBVIOUS
<1>3. /\ s \in Seq(Nodes) /\ Len(s) \in Nat
      /\ head[r] = After(s, 0) /\ tail[r] = InFront(s, Len(s) + 1)
      /\ (head[r] = NULL <=> Len(s) = 0) /\ (tail[r] = NULL <=> Len(s) = 0)
  BY <1>1, RowFacts
<1>4. pending # NULL /\ ~(head[r] # NULL /\ tail[r] = NULL)
  BY <1>3 DEF AppendNode
<1>5. pending \in Nodes /\ Misses(s, pending) /\ \A i \in 1 .. Len(s) : s[i] \in Nodes
  BY <1>1, <1>4, RowFacts
<1>6. /\ next' = IF head[r] = NULL THEN [next EXCEPT ![pending] = NULL]
                 ELSE [next EXCEPT ![tail[r]] = pending, ![pending] = NULL]
      /\ prev' = [prev EXCEPT ![pending] = IF head[r] = NULL THEN NULL ELSE tail[r]]
      /\ head' = IF head[r] = NULL THEN [head EXCEPT ![r] = pending] ELSE head
      /\ tail' = [tail EXCEPT ![r] = pending]
      /\ pending' = NULL /\ UNCHANGED <<nodeArr, currNodeIdx, cursor, listFault>>
  BY <1>4 DEF AppendNode, pool
<1>7. next \in [Nodes -> Pointers] /\ prev \in [Nodes -> Pointers] /\ NULL \in Pointers /\ Nodes \subseteq Pointers
  BY DEF ListsTypeOK, Pointers
<1>8. Len(s) > 0 => Len(s) \in 1 .. Len(s) /\ tail[r] = s[Len(s)] /\ tail[r] \in Nodes /\ tail[r] # pending
  BY <1>3, <1>5 DEF InFront, Misses
<1>9. next' \in [Nodes -> Pointers] /\ prev' \in [Nodes -> Pointers]
  BY <1>3, <1>5, <1>6, <1>7, <1>8
<1>10. NextEntered(s, m, pending, next, next')
  <2>1. m - 1 = Len(s) /\ After(s, m - 1) = NULL /\ (m > 1 <=> Len(s) > 0)
    BY <1>2, <1>3 DEF After
  <2> QED
    BY <1>3, <1>5, <1>6, <1>7, <1>8, <2>1 DEF NextEntered
<1>11. PrevEntered(s, m, pending, prev, prev')
  <2>1. ~(m <= Len(s)) /\ InFront(s, m) = tail[r]
    BY <1>2, <1>3
  <2> QED
    BY <1>3, <1>5, <1>6, <1>7, <2>1 DEF PrevEntered
<1>12. head' = IF m = 1 THEN [head EXCEPT ![r] = pending] ELSE head
  BY <1>2, <1>3, <1>6
<1>13. tail' = IF m = Len(s) + 1 THEN [tail EXCEPT ![r] = pending] ELSE tail
  BY <1>2, <1>6
<1>14. m \in 1 .. Len(s) + 1
  BY <1>2, <1>3
<1> QED
  BY <1>1, <1>2, <1>4, <1>6, <1>9, <1>10, <1>11, <1>12, <1>13, <1>14, LinkKeeps

(* The waiting node goes in front of the first of a row.                   *)
LEMMA InsertAtHeadKeeps ==
  ASSUME ListsTypeOK, NEW l, Layout(l), NEW r \in ListRows, InsertAtHead(r)
  PROVE  /\ ListsTypeOK' /\ listFault' = listFault /\ pending' = NULL /\ pending # NULL
         /\ 1 \in 1 .. Len(l[Waiting]) /\ l[Waiting][1] = pending
         /\ Layout(Moved(l, Waiting, 1, r, 1))'
<1>1. PICK s : s = l[r]
  OBVIOUS
<1>2. /\ pending # NULL /\ head[r] # NULL
      /\ next' = [next EXCEPT ![pending] = head[r]]
      /\ prev' = [prev EXCEPT ![pending] = NULL, ![head[r]] = pending]
      /\ head' = [head EXCEPT ![r] = pending]
      /\ pending' = NULL /\ UNCHANGED <<nodeArr, currNodeIdx, tail, cursor, listFault>>
  BY DEF InsertAtHead, pool
<1>3. /\ s \in Seq(Nodes) /\ Len(s) \in Nat /\ head[r] = After(s, 0) /\ Len(s) # 0
      /\ pending \in Nodes /\ Misses(s, pending) /\ \A i \in 1 .. Len(s) : s[i] \in Nodes
  BY <1>1, <1>2, RowFacts
<1>4. next \in [Nodes -> Pointers] /\ prev \in [Nodes -> Pointers] /\ NULL \in Pointers /\ Nodes \subseteq Pointers
  BY DEF ListsTypeOK, Pointers
<1>5. 1 \in 1 .. Len(s) /\ head[r] = s[1] /\ head[r] \in Nodes /\ head[r] # pending
  BY <1>3 DEF After, Misses
<1>6. next' \in [Nodes -> Pointers] /\ prev' \in [Nodes -> Pointers]
  BY <1>2, <1>3, <1>4, <1>5
<1>7. NextEntered(s, 1, pending, next, next')
  BY <1>2, <1>3, <1>4 DEF NextEntered
<1>8. PrevEntered(s, 1, pending, prev, prev')
  BY <1>2, <1>3, <1>4, <1>5 DEF PrevEntered, InFront
<1>9. 1 \in 1 .. Len(s) + 1 /\ 1 # Len(s) + 1
  BY <1>3
<1>10. head' = IF 1 = 1 THEN [head EXCEPT ![r] = pending] ELSE head
  BY <1>2
<1>11. tail' = IF 1 = Len(s) + 1 THEN [tail EXCEPT ![r] = pending] ELSE tail
  BY <1>2, <1>9
<1> QED
  BY <1>1, <1>2, <1>6, <1>7, <1>8, <1>9, <1>10, <1>11, LinkKeeps

(* The node after which to insert is one of the row, and not its last.     *)
LEMMA InsertAfterKeeps ==
  ASSUME ListsTypeOK, NEW l, Layout(l), NEW r \in ListRows, NEW k \in 1 .. Len(l[r]), InsertAfter(r, l[r][k])
  PROVE  /\ ListsTypeOK' /\ listFault' = listFault /\ pending' = NULL /\ pending # NULL
         /\ 1 \in 1 .. Len(l[Waiting]) /\ l[Waiting][1] = pending
         /\ Layout(Moved(l, Waiting, 1, r, k + 1))'
<1>1. PICK s : s = l[r]
  OBVIOUS
<1>2. PICK m : m = k + 1
  OBVIOUS
<1>3. PICK n : n = s[k]
  OBVIOUS
<1>4. pending # NULL /\ n # tail[r]
  BY <1>1, <1>3 DEF InsertAfter
<1>5. /\ s \in Seq(Nodes) /\ Len(s) \in Nat /\ tail[r] = InFront(s, Len(s) + 1) /\ NoRepeat(s)
      /\ pending \in Nodes /\ Misses(s, pending)
  BY <1>1, <1>4, RowFacts
<1>6. \A i \in 1 .. Len(s) : s[i] \in Nodes /\ s[i] # NULL /\ next[s[i]] = After(s, i)
  BY <1>1, RowFacts
<1>7. k \in 1 .. Len(s) /\ k < Len(s) /\ m \in 1 .. Len(s) /\ m \in 1 .. Len(s) + 1 /\ m > 1 /\ m - 1 = k
  <2>1. k \in 1 .. Len(s)
    BY <1>1
  <2>2. k # Len(s)
    BY <1>3, <1>4, <1>5, <2>1 DEF InFront
  <2> QED
    BY <1>2, <1>5, <2>1, <2>2
<1>8. /\ n \in Nodes /\ n # pending /\ next[n] = s[m] /\ s[m] \in Nodes /\ s[m] # NULL /\ s[m] # pending
  <2>1. n \in Nodes /\ s[m] \in Nodes /\ s[m] # NULL /\ n # pending /\ s[m] # pending
    BY <1>3, <1>5, <1>6, <1>7 DEF Misses
  <2>2. next[n] = s[m]
    BY <1>2, <1>3, <1>6, <1>7 DEF After
  <2> QED
    BY <2>1, <2>2
<1>9. /\ next' = [next EXCEPT ![pending] = next[n], ![n] = pending]
      /\ prev' = [prev EXCEPT ![pending] = n, ![next[n]] = pending]
      /\ pending' = NULL /\ UNCHANGED <<nodeArr, currNodeIdx, head, tail, cursor, listFault>>
  BY <1>1, <1>3, <1>8 DEF InsertAfter, pool
<1>10. next \in [Nodes -> Pointers] /\ prev \in [Nodes -> Pointers] /\ Nodes \subseteq Pointers
  BY DEF ListsTypeOK, Pointers
<1>11. next' \in [Nodes -> Pointers] /\ prev' \in [Nodes -> Pointers]
  BY <1>5, <1>8, <1>9, <1>10
<1>12. NextEntered(s, m, pending, next, next')
  <2>1. After(s, m - 1) = s[m]
    BY <1>2, <1>7 DEF After
  <2> QED
    BY <1>3, <1>5, <1>7, <1>8, <1>9, <1>10, <2>1 DEF NextEntered
<1>13. PrevEntered(s, m, pending, prev, prev')
  <2>1. InFront(s, m) = n /\ m <= Len(s)
    BY <1>3, <1>7 DEF InFront
  <2> QED
    BY <1>5, <1>8, <1>9, <1>10, <2>1 DEF PrevEntered
<1>14. m # 1 /\ m # Len(s) + 1
  BY <1>5, <1>7
<1>15. head' = IF m = 1 THEN [head EXCEPT ![r] = pending] ELSE head
  BY <1>9, <1>14
<1>16. tail' = IF m = Len(s) + 1 THEN [tail EXCEPT ![r] = pending] ELSE tail
  BY <1>9, <1>14
<1> QED
  BY <1>1, <1>2, <1>4, <1>7, <1>9, <1>11, <1>12, <1>13, <1>15, <1>16, LinkKeeps

(* Whenever a node is somewhere else there is room among the free ones.    *)
LEMMA CanPutBack ==
  ASSUME ListsTypeOK, NEW l, Layout(l), NEW p \in Places, p # Free, NEW k \in 1 .. Len(l[p])
  PROVE  ~Unfreeable /\ currNodeIdx > 0
<1>1. PICK n : n = l[p][k]
  OBVIOUS
<1>2. PICK f : f = l[Free]
  OBVIOUS
<1>3. l \in Layouts /\ Once(l) /\ Free \in Places
  BY PlacesApart DEF Layout
<1>4. n \in Nodes /\ f \in Seq(Nodes) /\ NoRepeat(f)
  BY <1>1, <1>2, <1>3, OnceFacts
<1>5. \A x \in 1 .. Len(l[Free]), y \in 1 .. Len(l[p]) : l[Free][x] = l[p][y] => Free = p
  BY <1>3 DEF Once
<1>6. \A i \in 1 .. Len(f) : f[i] # n
  BY <1>1, <1>2, <1>5
<1>7. Len(f) < NumNodes
  BY <1>4, <1>6, OneMissing
<1>8. Len(f) = NumNodes - currNodeIdx /\ \A i \in 0 .. currNodeIdx - 1 : nodeArr[i] = NULL
  BY <1>2 DEF Layout, FreeIs
<1>9. currNodeIdx \in Int /\ NumNodes \in Int
  BY NodesFacts DEF ListsTypeOK
<1>10. currNodeIdx > 0 /\ currNodeIdx - 1 \in 0 .. currNodeIdx - 1
  BY <1>7, <1>8, <1>9
<1> QED
  BY <1>8, <1>9, <1>10 DEF Unfreeable

(* A node that is put back is the first of the free ones.                  *)
LEMMA PutBackKeeps ==
  ASSUME ListsTypeOK, NEW f \in Seq(Nodes), FreeIs(f), NEW n \in Nodes, currNodeIdx > 0, PutBack(n),
         NEW g, g = InsertAt(f, 1, n)
  PROVE  /\ FreeIs(g)'
         /\ nodeArr' \in [0 .. NumNodes - 1 -> Pointers] /\ currNodeIdx' \in 0 .. NumNodes - 1
<1>1. /\ currNodeIdx \in 0 .. NumNodes - 1 /\ nodeArr \in [0 .. NumNodes - 1 -> Pointers]
      /\ NumNodes \in Nat /\ n \in Pointers
  BY NodesFacts DEF ListsTypeOK, Pointers
<1>2. nodeArr' = [nodeArr EXCEPT ![currNodeIdx - 1] = n] /\ currNodeIdx' = currNodeIdx - 1
  BY DEF PutBack
<1>3. /\ Len(f) = NumNodes - currNodeIdx /\ Len(f) \in Nat
      /\ \A i \in 1 .. Len(f) : nodeArr[currNodeIdx + i - 1] = f[i]
      /\ \A i \in 0 .. currNodeIdx - 1 : nodeArr[i] = NULL
  BY DEF FreeIs
<1>4. /\ Len(g) = Len(f) + 1
      /\ \A i \in 1 .. Len(f) + 1 : g[i] = IF i < 1 THEN f[i] ELSE IF i = 1 THEN n ELSE f[i - 1]
  <2>1. 1 \in 1 .. Len(f) + 1
    BY <1>3
  <2>2. /\ Len(InsertAt(f, 1, n)) = Len(f) + 1
        /\ \A i \in 1 .. Len(f) + 1 :
             InsertAt(f, 1, n)[i] = IF i < 1 THEN f[i] ELSE IF i = 1 THEN n ELSE f[i - 1]
    BY <2>1, InsertAtFacts
  <2> QED
    BY <2>2
<1>5. nodeArr' \in [0 .. NumNodes - 1 -> Pointers] /\ currNodeIdx' \in 0 .. NumNodes - 1
  BY <1>1, <1>2
<1>6. ASSUME NEW i \in 1 .. Len(g) PROVE nodeArr'[currNodeIdx' + i - 1] = g[i]
  <2>1. i \in 1 .. Len(f) + 1
    BY <1>4
  <2>2. currNodeIdx - 1 \in 0 .. NumNodes - 1
    BY <1>1
  <2>3. CASE i = 1
    <3>1. currNodeIdx' + i - 1 = currNodeIdx - 1 /\ g[i] = n
      BY <1>1, <1>2, <1>4, <2>1, <2>3
    <3> QED
      BY <1>1, <1>2, <2>2, <3>1
  <2>4. CASE i # 1
    <3>1. /\ i - 1 \in 1 .. Len(f) /\ g[i] = f[i - 1] /\ ~(i < 1)
      BY <1>3, <1>4, <2>1, <2>4
    <3>2. nodeArr[currNodeIdx + (i - 1) - 1] = f[i - 1]
      BY <1>3, <3>1
    <3>3. /\ currNodeIdx' + i - 1 = currNodeIdx + (i - 1) - 1 /\ currNodeIdx' + i - 1 # currNodeIdx - 1
          /\ currNodeIdx' + i - 1 \in 0 .. NumNodes - 1
      BY <1>1, <1>2, <1>3, <2>1, <2>4
    <3> QED
      BY <1>1, <1>2, <3>1, <3>2, <3>3
  <2> QED
    BY <2>3, <2>4
<1>7. \A i \in 0 .. currNodeIdx' - 1 : nodeArr'[i] = NULL
  BY <1>1, <1>2, <1>3
<1>8. Len(g) = NumNodes - currNodeIdx'
  BY <1>1, <1>2, <1>3, <1>4
<1> QED
  BY <1>5, <1>6, <1>7, <1>8 DEF FreeIs

(* The node at position k of the list of a row becomes free.               *)
LEMMA UnlinkKeeps ==
  ASSUME ListsTypeOK, NEW l, Layout(l), NEW r \in ListRows, NEW k \in 1 .. Len(l[r]),
         next' \in [Nodes -> Pointers], prev' \in [Nodes -> Pointers],
         NextLeft(l[r], k, next, next'), PrevLeft(l[r], k, prev, prev'),
         head' = IF k = 1 THEN [head EXCEPT ![r] = After(l[r], 1)] ELSE head,
         tail' = IF k = Len(l[r]) THEN [tail EXCEPT ![r] = InFront(l[r], k)] ELSE tail,
         PutBack(l[r][k]), UNCHANGED <<pending, cursor, listFault>>
  PROVE  ListsTypeOK' /\ Layout(Moved(l, r, k, Free, 1))'
<1>1. PICK n : n = l[r][k]
  OBVIOUS
<1>2. PICK s : s = l[r]
  OBVIOUS
<1>3. /\ l \in Layouts /\ Once(l) /\ Covered(l)
      /\ r \in Places /\ r # Waiting /\ r # Free /\ r # Freeing /\ Free \in Places
  BY PlacesApart DEF Layout
<1>4. /\ s \in Seq(Nodes) /\ NoRepeat(s) /\ Len(s) \in Nat /\ n \in Nodes
      /\ \A i \in 1 .. Len(s) : s[i] \in Nodes
  BY <1>1, <1>2, RowFacts
<1>5. PICK f \in Seq(Nodes) : f = l[Free]
  BY <1>3, LayoutFacts
<1>6. PICK t : t = Moved(l, r, k, Free, 1)
  OBVIOUS
<1>a. l \in Layouts /\ r \in Places /\ Free \in Places /\ r # Free
      /\ k \in 1 .. Len(l[r]) /\ 1 \in 1 .. Len(l[Free]) + 1
  BY <1>3, <1>5
<1>7. t \in Layouts /\ Once(t) /\ Covered(t)
  <2>1. t \in Layouts
    BY <1>6, <1>a, MovedFacts
  <2>2. Once(t)
    BY <1>3, <1>6, <1>a, MovedOnce
  <2>3. Covered(t)
    BY <1>3, <1>6, <1>a, MovedCovered
  <2> QED
    BY <2>1, <2>2, <2>3
<1>8. t[r] = RemoveAt(s, k) /\ t[Free] = InsertAt(f, 1, n)
  <2>1. t[r] = RemoveAt(l[r], k)
    BY <1>6, <1>a, MovedFacts
  <2>2. t[Free] = InsertAt(l[Free], 1, l[r][k])
    BY <1>6, <1>a, MovedFacts
  <2> QED
    BY <1>1, <1>2, <1>5, <2>1, <2>2
<1>9. \A p \in Places : p # r /\ p # Free => t[p] = l[p]
  BY <1>6, <1>a, MovedFacts
<1>10. FreeIs(t[Free])' /\ nodeArr' \in [0 .. NumNodes - 1 -> Pointers] /\ currNodeIdx' \in 0 .. NumNodes - 1
  <2>1. FreeIs(f)
    BY <1>5 DEF Layout
  <2>2. currNodeIdx > 0
    BY <1>3, CanPutBack
  <2>3. PutBack(n)
    BY <1>1
  <2>4. PICK g : g = t[Free]
    OBVIOUS
  <2>5. g = InsertAt(f, 1, n)
    BY <1>8, <2>4
  <2>6. FreeIs(g)' /\ nodeArr' \in [0 .. NumNodes - 1 -> Pointers] /\ currNodeIdx' \in 0 .. NumNodes - 1
    BY <1>4, <2>1, <2>2, <2>3, <2>5, PutBackKeeps
  <2> QED
    BY <2>4, <2>6
<1>11. ListsTypeOK'
  <2>1. After(s, 1) \in Pointers /\ InFront(s, k) \in Pointers
    <3>1. 1 < Len(s) => 1 + 1 \in 1 .. Len(s)
      BY <1>4
    <3>2. k > 1 => k - 1 \in 1 .. Len(s)
      BY <1>2, <1>4
    <3> QED
      BY <1>4, <3>1, <3>2 DEF After, InFront, Pointers
  <2>2. head' \in [ListRows -> Pointers] /\ tail' \in [ListRows -> Pointers]
    BY <1>2, <2>1 DEF ListsTypeOK
  <2> QED
    BY <1>10, <2>2 DEF ListsTypeOK
<1>12. RowIs(t[r], r)'
  <2>a. PICK nx : nx = next
    OBVIOUS
  <2>b. PICK pv : pv = prev
    OBVIOUS
  <2>c. PICK nx2 : nx2 = next'
    OBVIOUS
  <2>d. PICK pv2 : pv2 = prev'
    OBVIOUS
  <2>e. PICK h : h = head[r]
    OBVIOUS
  <2>f. PICK z : z = tail[r]
    OBVIOUS
  <2>1. Threads(s, h, z, nx, pv)
    BY <1>2, <2>a, <2>b, <2>e, <2>f DEF Layout, RowIs
  <2>2. NextLeft(s, k, nx, nx2) /\ PrevLeft(s, k, pv, pv2) /\ k \in 1 .. Len(s)
    BY <1>2, <2>a, <2>b, <2>c, <2>d
  <2>3. Threads(RemoveAt(s, k), IF k = 1 THEN After(s, 1) ELSE h,
                IF k = Len(s) THEN InFront(s, k) ELSE z, nx2, pv2)
    BY <1>4, <2>1, <2>2, LinkedRemove
  <2>4. head'[r] = IF k = 1 THEN After(s, 1) ELSE h
    BY <1>2, <2>e DEF ListsTypeOK
  <2>5. tail'[r] = IF k = Len(s) THEN InFront(s, k) ELSE z
    BY <1>2, <2>f DEF ListsTypeOK
  <2> QED
    BY <1>8, <2>3, <2>4, <2>5, <2>c, <2>d DEF RowIs
<1>13. ASSUME NEW p \in Places, p # r, NEW i \in 1 .. Len(l[p])
       PROVE  next'[l[p][i]] = next[l[p][i]] /\ prev'[l[p][i]] = prev[l[p][i]]
  <2>1. l[p][i] \in Nodes
    BY <1>3, LayoutFacts
  <2>2. \A x \in 1 .. Len(l[p]), y \in 1 .. Len(l[r]) : l[p][x] = l[r][y] => p = r
    BY <1>3 DEF Once
  <2>3. \A j \in 1 .. Len(s) : l[p][i] # s[j]
    BY <1>2, <1>13, <2>2
  <2>4. k \in 1 .. Len(s) /\ (k > 1 => k - 1 \in 1 .. Len(s)) /\ (k < Len(s) => k + 1 \in 1 .. Len(s))
    BY <1>2, <1>4
  <2> QED
    BY <1>2, <2>1, <2>3, <2>4 DEF NextLeft, PrevLeft
<1>14. ASSUME NEW q \in ListRows PROVE RowIs(t[q], q)'
  <2>1. CASE q = r
    BY <1>12, <2>1
  <2>2. CASE q # r
    <3>1. q \in Places /\ q # Free /\ t[q] = l[q] /\ RowIs(l[q], q)
      BY <1>9, <2>2, PlacesApart DEF Layout
    <3>2. head'[q] = head[q] /\ tail'[q] = tail[q]
      BY <2>2 DEF ListsTypeOK
    <3>3. \A i \in 1 .. Len(l[q]) : next'[l[q][i]] = next[l[q][i]] /\ prev'[l[q][i]] = prev[l[q][i]]
      BY <1>13, <2>2, <3>1
    <3>4. RowIs(l[q], q)'
      BY <3>1, <3>2, <3>3, RowKept
    <3> QED
      BY <3>1, <3>4
  <2> QED
    BY <2>1, <2>2
<1>15. FreeingIs(t[Freeing])'
  <2>1. t[Freeing] = l[Freeing] /\ FreeingIs(l[Freeing])
    BY <1>3, <1>9, PlacesApart DEF Layout
  <2>2. \A i \in 1 .. Len(l[Freeing]) :
          next'[l[Freeing][i]] = next[l[Freeing][i]] /\ prev'[l[Freeing][i]] = prev[l[Freeing][i]]
    BY <1>3, <1>13, PlacesApart
  <2>3. FreeingIs(l[Freeing])'
    BY <2>1, <2>2, FreeingKept
  <2> QED
    BY <2>1, <2>3
<1>16. WaitingIs(t[Waiting])'
  <2>1. t[Waiting] = l[Waiting] /\ WaitingIs(l[Waiting])
    BY <1>3, <1>9, PlacesApart DEF Layout
  <2> QED
    BY <2>1 DEF WaitingIs
<1>17. Layout(t)'
  BY <1>7, <1>10, <1>14, <1>15, <1>16 DEF Layout
<1> QED
  BY <1>6, <1>11, <1>17

(* A deleted node goes from its row to the free ones.                      *)
LEMMA DeleteKeeps ==
  ASSUME ListsTypeOK, NEW l, Layout(l), NEW r \in ListRows, NEW k \in 1 .. Len(l[r]), Delete(r, l[r][k])
  PROVE  /\ ListsTypeOK' /\ listFault' = listFault /\ pending' = pending
         /\ Layout(Moved(l, r, k, Free, 1))'
<1>1. PICK s : s = l[r]
  OBVIOUS
<1>2. PICK n : n = s[k]
  OBVIOUS
<1>3. /\ s \in Seq(Nodes) /\ Len(s) \in Nat /\ NoRepeat(s) /\ k \in 1 .. Len(s) /\ n \in Nodes /\ n # NULL
      /\ \A i \in 1 .. Len(s) : s[i] \in Nodes /\ s[i] # NULL
      /\ next[n] = After(s, k) /\ prev[n] = InFront(s, k)
  <2>1. s \in Seq(Nodes) /\ Len(s) \in Nat /\ NoRepeat(s)
    BY <1>1, RowFacts
  <2>2. \A i \in 1 .. Len(s) : s[i] \in Nodes /\ s[i] # NULL
    BY <1>1, RowFacts
  <2>3. \A i \in 1 .. Len(s) : next[s[i]] = After(s, i) /\ prev[s[i]] = InFront(s, i)
    BY <1>1, RowFacts
  <2>4. k \in 1 .. Len(s)
    BY <1>1
  <2> QED
    BY <1>2, <2>1, <2>2, <2>3, <2>4
<1>4. /\ head[r] = s[1] /\ tail[r] = s[Len(s)] /\ 1 \in 1 .. Len(s) /\ Len(s) \in 1 .. Len(s)
      /\ (n = head[r] <=> k = 1) /\ (n = tail[r] <=> k = Len(s))
  <2>1. head[r] = After(s, 0) /\ tail[r] = InFront(s, Len(s) + 1)
    <3>1. l[r] = s /\ RowIs(l[r], r)
      BY <1>1 DEF Layout
    <3> QED
      BY <3>1 DEF RowIs, Threads
  <2>2. 1 \in 1 .. Len(s) /\ Len(s) \in 1 .. Len(s)
    BY <1>3
  <2>3. head[r] = s[1] /\ tail[r] = s[Len(s)]
    BY <1>3, <2>1, <2>2 DEF After, InFront
  <2> QED
    BY <1>2, <1>3, <2>2, <2>3 DEF NoRepeat
<1>5. k > 1 => k - 1 \in 1 .. Len(s) /\ prev[n] = s[k - 1] /\ s[k - 1] \in Nodes /\ s[k - 1] # n /\ s[k - 1] # NULL
  BY <1>2, <1>3 DEF InFront, NoRepeat
<1>6. k < Len(s) => k + 1 \in 1 .. Len(s) /\ next[n] = s[k + 1] /\ s[k + 1] \in Nodes /\ s[k + 1] # n /\ s[k + 1] # NULL
  BY <1>2, <1>3 DEF After, NoRepeat
<1>7. ~Undeletable(r, n) /\ ~Unfreeable
  <2>1. ~Undeletable(r, n)
    BY <1>3, <1>4, <1>5, <1>6 DEF Undeletable
  <2>2. r \in Places /\ r # Free
    BY PlacesApart
  <2> QED
    BY <2>1, <2>2, CanPutBack
<1>8. /\ CASE n = head[r]                 -> DeleteHead(r)
           [] n # head[r] /\ n = tail[r]  -> DeleteTail(r)
           [] n # head[r] /\ n # tail[r]  -> DeleteBetween(n)
      /\ PutBack(n) /\ UNCHANGED <<pending, cursor, listFault>>
  BY <1>1, <1>2, <1>7 DEF Delete
<1>9. /\ next \in [Nodes -> Pointers] /\ prev \in [Nodes -> Pointers]
      /\ head \in [ListRows -> Pointers] /\ tail \in [ListRows -> Pointers]
      /\ NULL \in Pointers /\ Nodes \subseteq Pointers
  BY DEF ListsTypeOK, Pointers
<1> DEFINE Outcome ==
      /\ next' \in [Nodes -> Pointers] /\ prev' \in [Nodes -> Pointers]
      /\ NextLeft(s, k, next, next') /\ PrevLeft(s, k, prev, prev')
      /\ head' = IF k = 1 THEN [head EXCEPT ![r] = After(s, 1)] ELSE head
      /\ tail' = IF k = Len(s) THEN [tail EXCEPT ![r] = InFront(s, k)] ELSE tail
<1>10. ASSUME k = 1 PROVE Outcome
  <2>1. DeleteHead(r)
    BY <1>4, <1>8, <1>10
  <2>2. /\ head' = [head EXCEPT ![r] = next[n]]
        /\ tail' = IF next[n] = NULL THEN [tail EXCEPT ![r] = NULL] ELSE tail
        /\ next' = [next EXCEPT ![n] = NULL]
        /\ prev' = IF next[n] = NULL THEN [prev EXCEPT ![n] = NULL]
                   ELSE [prev EXCEPT ![next[n]] = NULL, ![n] = NULL]
    BY <1>4, <1>10, <2>1 DEF DeleteHead
  <2>3. next[n] = NULL <=> k = Len(s)
    BY <1>3, <1>6 DEF After
  <2>4. InFront(s, k) = NULL /\ next[n] = After(s, 1)
    BY <1>3, <1>10 DEF InFront
  <2>5. next' \in [Nodes -> Pointers] /\ prev' \in [Nodes -> Pointers]
    BY <1>3, <1>6, <1>9, <2>2, <2>3
  <2>6. NextLeft(s, k, next, next')
    BY <1>2, <1>3, <1>9, <1>10, <2>2 DEF NextLeft
  <2>7. PrevLeft(s, k, prev, prev')
    <3>1. CASE k = Len(s)
      BY <1>2, <1>3, <1>9, <2>2, <2>3, <3>1 DEF PrevLeft
    <3>2. CASE k < Len(s)
      BY <1>2, <1>3, <1>6, <1>9, <2>2, <2>3, <2>4, <3>2 DEF PrevLeft
    <3> QED
      BY <1>3, <3>1, <3>2
  <2>8. /\ head' = IF k = 1 THEN [head EXCEPT ![r] = After(s, 1)] ELSE head
        /\ tail' = IF k = Len(s) THEN [tail EXCEPT ![r] = InFront(s, k)] ELSE tail
    BY <1>10, <2>2, <2>3, <2>4
  <2> QED
    BY <2>5, <2>6, <2>7, <2>8
<1>11. ASSUME k # 1 /\ k = Len(s) PROVE Outcome
  <2>1. DeleteTail(r)
    BY <1>4, <1>8, <1>11
  <2>2. k > 1 /\ ~(k < Len(s))
    BY <1>3, <1>11
  <2>3. /\ tail' = [tail EXCEPT ![r] = prev[n]]
        /\ next' = [next EXCEPT ![prev[n]] = NULL, ![n] = NULL]
        /\ prev' = [prev EXCEPT ![n] = NULL] /\ head' = head
    BY <1>4, <1>11, <2>1 DEF DeleteTail
  <2>4. After(s, k) = NULL
    BY <1>3, <1>11 DEF After
  <2>5. next' \in [Nodes -> Pointers] /\ prev' \in [Nodes -> Pointers]
    BY <1>3, <1>5, <1>9, <2>2, <2>3
  <2>6. NextLeft(s, k, next, next')
    BY <1>2, <1>3, <1>5, <1>9, <2>2, <2>3, <2>4 DEF NextLeft
  <2>7. PrevLeft(s, k, prev, prev')
    BY <1>2, <1>3, <1>9, <2>2, <2>3 DEF PrevLeft
  <2>8. /\ head' = IF k = 1 THEN [head EXCEPT ![r] = After(s, 1)] ELSE head
        /\ tail' = IF k = Len(s) THEN [tail EXCEPT ![r] = InFront(s, k)] ELSE tail
    BY <1>3, <1>11, <2>3
  <2> QED
    BY <2>5, <2>6, <2>7, <2>8
<1>12. ASSUME k # 1 /\ k # Len(s) PROVE Outcome
  <2>1. DeleteBetween(n)
    BY <1>4, <1>8, <1>12
  <2>2. k > 1 /\ k < Len(s)
    BY <1>3, <1>12
  <2>3. /\ next' = [next EXCEPT ![prev[n]] = next[n], ![n] = NULL]
        /\ prev' = [prev EXCEPT ![next[n]] = prev[n], ![n] = NULL]
        /\ head' = head /\ tail' = tail
    BY <2>1 DEF DeleteBetween
  <2>4. next' \in [Nodes -> Pointers] /\ prev' \in [Nodes -> Pointers]
    BY <1>3, <1>5, <1>6, <1>9, <2>2, <2>3
  <2>5. NextLeft(s, k, next, next')
    BY <1>2, <1>3, <1>5, <1>6, <1>9, <2>2, <2>3 DEF NextLeft
  <2>6. PrevLeft(s, k, prev, prev')
    BY <1>2, <1>3, <1>5, <1>6, <1>9, <2>2, <2>3 DEF PrevLeft
  <2> QED
    BY <1>12, <2>3, <2>4, <2>5, <2>6
<1>13. Outcome
  BY <1>10, <1>11, <1>12
<1>14. PutBack(l[r][k])
  BY <1>1, <1>2, <1>8
<1> QED
  BY <1>1, <1>3, <1>8, <1>13, <1>14, UnlinkKeeps

(* The whole list of a row goes to the place of the list being freed.      *)
LEMMA FreeListKeeps ==
  ASSUME ListsTypeOK, NEW l, Layout(l), NEW r \in ListRows, FreeList(r), head[r] # NULL
  PROVE  /\ ListsTypeOK' /\ listFault' = listFault /\ pending' = pending
         /\ l[r] # <<>> /\ l[Freeing] = <<>>
         /\ Layout(AllMoved(l, r, Freeing))'
<1>1. PICK s : s = l[r]
  OBVIOUS
<1>2. PICK f : f = l[Freeing]
  OBVIOUS
<1>3. PICK t : t = AllMoved(l, r, Freeing)
  OBVIOUS
<1>4. /\ l \in Layouts /\ Once(l) /\ Covered(l)
      /\ r \in Places /\ r # Waiting /\ r # Free /\ r # Freeing /\ Freeing \in Places
  BY PlacesApart DEF Layout
<1>5. s \in Seq(Nodes) /\ Len(s) \in Nat /\ f \in Seq(Nodes) /\ Len(f) \in Nat
  BY <1>1, <1>2, <1>4, LayoutFacts
<1>6. Threads(s, head[r], tail[r], next, prev)
  BY <1>1 DEF Layout, RowIs
<1>7. Len(s) > 0 /\ tail[r] # NULL
  <2>1. Len(s) > 0
    BY <1>5, <1>6 DEF Threads, After
  <2>2. Len(s) \in 1 .. Len(s) /\ Len(s) + 1 > 1 /\ Len(s) + 1 - 1 = Len(s)
    BY <1>5, <2>1
  <2>3. s[Len(s)] \in Nodes /\ tail[r] = s[Len(s)]
    BY <1>5, <1>6, <2>2 DEF Threads, InFront
  <2> QED
    BY <2>1, <2>3, NodesFacts
<1>8. /\ Idle /\ cursor' = head[r]
      /\ head' = [head EXCEPT ![r] = NULL] /\ tail' = [tail EXCEPT ![r] = NULL]
      /\ UNCHANGED <<nodeArr, currNodeIdx, next, prev, pending, listFault>>
  BY <1>7 DEF FreeList, pool
<1>9. f = <<>>
  <2>1. After(f, 0) = NULL
    BY <1>2, <1>8 DEF Idle, Layout, FreeingIs
  <2>2. CASE Len(f) > 0
    <3>1. f[1] \in Nodes /\ After(f, 0) = f[1]
      BY <1>5, <2>2 DEF After
    <3> QED
      BY <2>1, <3>1, NodesFacts
  <2>3. CASE Len(f) = 0
    BY <1>5, <2>3
  <2> QED
    BY <1>5, <2>2, <2>3
<1>10. /\ t \in Layouts /\ Once(t) /\ Covered(t) /\ t[r] = <<>> /\ t[Freeing] = s
       /\ \A p \in Places : p # r /\ p # Freeing => t[p] = l[p]
  <2>1. /\ l \in Layouts /\ r \in Places /\ Freeing \in Places /\ r # Freeing /\ l[Freeing] = <<>>
        /\ Once(l) /\ Covered(l)
    BY <1>2, <1>4, <1>9
  <2>2. t \in Layouts /\ Once(t) /\ Covered(t)
    BY <1>3, <2>1, AllMovedFacts
  <2>3. t[r] = <<>> /\ t[Freeing] = l[r]
    BY <1>3, <2>1, AllMovedFacts
  <2>4. \A p \in Places : p # r /\ p # Freeing => t[p] = l[p]
    BY <1>3, <2>1, AllMovedFacts
  <2> QED
    BY <1>1, <2>2, <2>3, <2>4
<1>11. ListsTypeOK'
  <2>1. NULL \in Pointers /\ head[r] \in Pointers
    BY DEF ListsTypeOK, Pointers
  <2> QED
    BY <1>8, <2>1 DEF ListsTypeOK
<1>12. ASSUME NEW q \in ListRows PROVE RowIs(t[q], q)'
  <2>1. CASE q = r
    <3>1. head'[r] = NULL /\ tail'[r] = NULL
      BY <1>8 DEF ListsTypeOK
    <3>2. Threads(<<>>, NULL, NULL, next', prev')
      BY DEF Threads, Linked, After, InFront
    <3> QED
      BY <1>10, <2>1, <3>1, <3>2 DEF RowIs
  <2>2. CASE q # r
    <3>1. q \in Places /\ q # Freeing /\ RowIs(l[q], q)
      BY PlacesApart DEF Layout
    <3>2. t[q] = l[q]
      BY <1>10, <2>2, <3>1
    <3>3. head'[q] = head[q] /\ tail'[q] = tail[q]
      BY <1>8, <2>2 DEF ListsTypeOK
    <3>4. \A i \in 1 .. Len(l[q]) : next'[l[q][i]] = next[l[q][i]] /\ prev'[l[q][i]] = prev[l[q][i]]
      BY <1>8
    <3>5. RowIs(l[q], q)'
      BY <3>1, <3>3, <3>4, RowKept
    <3> QED
      BY <3>2, <3>5
  <2> QED
    BY <2>1, <2>2
<1>13. FreeIs(t[Free])' /\ WaitingIs(t[Waiting])'
  <2>1. t[Free] = l[Free] /\ t[Waiting] = l[Waiting] /\ FreeIs(l[Free]) /\ WaitingIs(l[Waiting])
    BY <1>4, <1>10, PlacesApart DEF Layout
  <2> QED
    BY <1>8, <2>1 DEF FreeIs, WaitingIs
<1>14. FreeingIs(t[Freeing])'
  <2>1. cursor' = After(s, 0)
    BY <1>6, <1>8 DEF Threads
  <2>2. \A i \in 1 .. Len(s) : next[s[i]] = After(s, i) /\ prev[s[i]] = InFront(s, i)
    BY <1>6 DEF Threads, Linked
  <2>3. \A i \in 1 .. Len(s) : i > 1 => prev[s[i]] = s[i - 1]
    BY <2>2 DEF InFront
  <2> QED
    BY <1>8, <1>10, <2>1, <2>2, <2>3 DEF FreeingIs
<1>15. Layout(t)'
  BY <1>10, <1>12, <1>13, <1>14 DEF Layout
<1>16. l[r] # <<>>
  BY <1>1, <1>7
<1> QED
  BY <1>2, <1>3, <1>8, <1>9, <1>11, <1>15, <1>16

(* One step of the loop frees the first node of what is left of the list.  *)
LEMMA FreeStepKeeps ==
  ASSUME ListsTypeOK, NEW l, Layout(l), FreeStep
  PROVE  /\ ListsTypeOK' /\ listFault' = listFault /\ pending' = pending
         /\ 1 \in 1 .. Len(l[Freeing])
         /\ Layout(Moved(l, Freeing, 1, Free, 1))'
<1>1. PICK s : s = l[Freeing]
  OBVIOUS
<1>2. PICK t : t = Moved(l, Freeing, 1, Free, 1)
  OBVIOUS
<1>3. /\ l \in Layouts /\ Once(l) /\ Covered(l)
      /\ Free \in Places /\ Freeing \in Places /\ Freeing # Free
  BY PlacesApart DEF Layout
<1>4. s \in Seq(Nodes) /\ Len(s) \in Nat /\ NoRepeat(s)
  BY <1>1, <1>3, LayoutFacts, OnceFacts
<1>5. /\ cursor = After(s, 0)
      /\ \A i \in 1 .. Len(s) : next[s[i]] = After(s, i) /\ (i > 1 => prev[s[i]] = s[i - 1])
  BY <1>1 DEF Layout, FreeingIs
<1>6. Len(s) > 0 /\ 1 \in 1 .. Len(s) /\ cursor = s[1] /\ s[1] \in Nodes /\ next[cursor] = After(s, 1)
  <2>1. Len(s) > 0
    BY <1>4, <1>5 DEF FreeStep, After
  <2> QED
    BY <1>4, <1>5, <2>1 DEF After
<1>7. next[cursor] # NULL => prev[next[cursor]] = cursor
  <2>1. ASSUME next[cursor] # NULL PROVE prev[next[cursor]] = cursor
    <3>1. 2 \in 1 .. Len(s) /\ next[cursor] = s[2]
      BY <1>4, <1>6, <2>1 DEF After
    <3> QED
      BY <1>5, <1>6, <3>1
  <2> QED
    BY <2>1
<1>8. ~Unfreeable /\ currNodeIdx > 0
  <2>1. 1 \in 1 .. Len(l[Freeing])
    BY <1>1, <1>6
  <2> QED
    BY <1>3, <2>1, CanPutBack
<1>9. /\ cursor' = After(s, 1)
      /\ next' = [next EXCEPT ![s[1]] = NULL] /\ prev' = [prev EXCEPT ![s[1]] = NULL]
      /\ PutBack(s[1]) /\ UNCHANGED <<head, tail, pending, listFault>>
  <2>1. s[1] # NULL
    BY <1>6, NodesFacts
  <2>2. PICK v : v = IF next[cursor] = NULL THEN cursor ELSE prev[next[cursor]]
    OBVIOUS
  <2>3. v = s[1]
    BY <1>6, <1>7, <2>2
  <2>4. /\ cursor' = next[cursor]
        /\ next' = [next EXCEPT ![v] = NULL] /\ prev' = [prev EXCEPT ![v] = NULL]
        /\ PutBack(v) /\ UNCHANGED <<head, tail, pending, listFault>>
    BY <1>8, <2>1, <2>2, <2>3 DEF FreeStep
  <2> QED
    BY <1>6, <2>3, <2>4
<1>10. PICK f \in Seq(Nodes) : f = l[Free]
  BY <1>3, LayoutFacts
<1>11. /\ l \in Layouts /\ Freeing \in Places /\ Free \in Places /\ Freeing # Free
       /\ 1 \in 1 .. Len(l[Freeing]) /\ 1 \in 1 .. Len(l[Free]) + 1
  BY <1>1, <1>3, <1>6, <1>10
<1>12. t \in Layouts /\ Once(t) /\ Covered(t)
  <2>1. t \in Layouts
    BY <1>2, <1>11, MovedFacts
  <2>2. Once(t)
    BY <1>2, <1>3, <1>11, MovedOnce
  <2>3. Covered(t)
    BY <1>2, <1>3, <1>11, MovedCovered
  <2> QED
    BY <2>1, <2>2, <2>3
<1>13. t[Free] = InsertAt(f, 1, s[1])
  <2>1. t[Free] = InsertAt(l[Free], 1, l[Freeing][1])
    BY <1>2, <1>11, MovedFacts
  <2> QED
    BY <1>1, <1>10, <2>1
<1>14. PICK u : u = t[Freeing]
  OBVIOUS
<1>15. Len(u) = Len(s) - 1 /\ \A i \in 1 .. Len(u) : u[i] = s[i + 1]
  <2>1. /\ Len(t[Freeing]) = Len(l[Freeing]) - 1
        /\ \A i \in 1 .. Len(l[Freeing]) - 1 :
             t[Freeing][i] = IF i < 1 THEN l[Freeing][i] ELSE l[Freeing][i + 1]
    BY <1>2, <1>11, MovedFacts
  <2> QED
    BY <1>1, <1>14, <2>1
<1>16. \A p \in Places : p # Freeing /\ p # Free => t[p] = l[p]
  BY <1>2, <1>11, MovedFacts
<1>17. FreeIs(t[Free])' /\ nodeArr' \in [0 .. NumNodes - 1 -> Pointers] /\ currNodeIdx' \in 0 .. NumNodes - 1
  <2>1. FreeIs(f)
    BY <1>10 DEF Layout
  <2>2. PICK g : g = t[Free]
    OBVIOUS
  <2>3. g = InsertAt(f, 1, s[1])
    BY <1>13, <2>2
  <2>4. s[1] \in Nodes /\ currNodeIdx > 0 /\ PutBack(s[1])
    BY <1>6, <1>8, <1>9
  <2>5. FreeIs(g)' /\ nodeArr' \in [0 .. NumNodes - 1 -> Pointers] /\ currNodeIdx' \in 0 .. NumNodes - 1
    BY <2>1, <2>3, <2>4, PutBackKeeps
  <2> QED
    BY <2>2, <2>5
<1>18. ListsTypeOK'
  <2>1. cursor' \in Pointers
    BY <1>4, <1>9 DEF After, Pointers
  <2>2. next' \in [Nodes -> Pointers] /\ prev' \in [Nodes -> Pointers]
    BY <1>9 DEF ListsTypeOK, Pointers
  <2> QED
    BY <1>9, <1>17, <2>1, <2>2 DEF ListsTypeOK
<1>19. ASSUME NEW q \in ListRows PROVE RowIs(t[q], q)'
  <2>1. q \in Places /\ q # Freeing /\ q # Free /\ RowIs(l[q], q)
    BY PlacesApart DEF Layout
  <2>2. t[q] = l[q]
    BY <1>16, <2>1
  <2>3. ASSUME NEW i \in 1 .. Len(l[q])
        PROVE  next'[l[q][i]] = next[l[q][i]] /\ prev'[l[q][i]] = prev[l[q][i]]
    <3>1. l[q][i] \in Nodes
      BY <1>3, <2>1, LayoutFacts
    <3>2. \A x \in 1 .. Len(l[q]), y \in 1 .. Len(l[Freeing]) : l[q][x] = l[Freeing][y] => q = Freeing
      BY <1>3, <2>1 DEF Once
    <3>3. l[q][i] # s[1]
      BY <1>1, <1>6, <2>1, <3>2
    <3> QED
      BY <1>9, <3>1, <3>3 DEF ListsTypeOK
  <2>4. head'[q] = head[q] /\ tail'[q] = tail[q]
    BY <1>9
  <2>5. RowIs(l[q], q)'
    BY <2>1, <2>3, <2>4, RowKept
  <2> QED
    BY <2>2, <2>5
<1>20. WaitingIs(t[Waiting])'
  <2>1. t[Waiting] = l[Waiting] /\ WaitingIs(l[Waiting])
    BY <1>16, PlacesApart DEF Layout
  <2> QED
    BY <1>9, <2>1 DEF WaitingIs
<1>21. FreeingIs(u)'
  <2>1. cursor' = After(u, 0)
    BY <1>4, <1>6, <1>9, <1>15 DEF After
  <2>2. ASSUME NEW i \in 1 .. Len(u)
        PROVE  next'[u[i]] = After(u, i) /\ (i > 1 => prev'[u[i]] = u[i - 1])
    <3>1. i + 1 \in 1 .. Len(s) /\ u[i] = s[i + 1] /\ i + 1 > 1 /\ i + 1 # 1 /\ i \in Nat
      BY <1>4, <1>15
    <3>2. u[i] \in Nodes /\ u[i] # s[1]
      BY <1>4, <1>6, <3>1 DEF NoRepeat
    <3>3. next'[u[i]] = next[u[i]] /\ prev'[u[i]] = prev[u[i]]
      BY <1>9, <3>2 DEF ListsTypeOK
    <3>4. next[u[i]] = After(s, i + 1) /\ prev[u[i]] = s[i]
      <4>1. next[s[i + 1]] = After(s, i + 1) /\ (i + 1 > 1 => prev[s[i + 1]] = s[(i + 1) - 1])
        BY <1>5, <3>1
      <4> QED
        BY <3>1, <4>1
    <3>5. After(s, i + 1) = After(u, i)
      BY <1>4, <1>15, <3>1 DEF After
    <3>6. i > 1 => u[i - 1] = s[i]
      BY <1>4, <1>15, <3>1
    <3> QED
      BY <3>3, <3>4, <3>5, <3>6
  <2> QED
    BY <2>1, <2>2 DEF FreeingIs
<1>22. Layout(t)'
  BY <1>12, <1>14, <1>17, <1>19, <1>20, <1>21 DEF Layout
<1> QED
  BY <1>2, <1>9, <1>11, <1>18, <1>22

-----------------------------------------------------------------------------
(* After genericDLL_init every node is free, in the order of the pool.     *)
FreshLayout == [p \in Places |-> IF p = Free THEN [i \in 1 .. NumNodes |-> i] ELSE <<>>]

(* The empty lists of genericDLL_init are sound.                           *)
LEMMA InitKeeps == PoolInit => ListsTypeOK /\ PointersNeverCorrupt /\ Layout(FreshLayout)
<1> SUFFICES ASSUME PoolInit PROVE ListsTypeOK /\ PointersNeverCorrupt /\ Layout(FreshLayout)
  OBVIOUS
<1>1. PICK l : l = FreshLayout
  OBVIOUS
<1>2. PICK f : f = [i \in 1 .. NumNodes |-> i]
  OBVIOUS
<1>3. /\ nodeArr = [i \in 0 .. NumNodes - 1 |-> i + 1] /\ currNodeIdx = 0
      /\ next = [n \in Nodes |-> NULL] /\ prev = [n \in Nodes |-> NULL]
      /\ head = [r \in ListRows |-> NULL] /\ tail = [r \in ListRows |-> NULL]
      /\ pending = NULL /\ cursor = NULL /\ listFault = "none"
  BY DEF PoolInit, Fresh
<1>4. NumNodes \in Nat /\ NumNodes > 0
  BY NodesFacts
<1>5. ListsTypeOK /\ PointersNeverCorrupt
  BY <1>3, <1>4 DEF ListsTypeOK, PointersNeverCorrupt, Pointers, Nodes
<1>6. f \in Seq(Nodes) /\ Len(f) = NumNodes /\ \A i \in 1 .. Len(f) : f[i] = i
  BY <1>2, <1>4 DEF Nodes
<1>7. /\ l[Free] = f /\ \A p \in Places : p # Free => l[p] = <<>>
      /\ l \in Layouts
  <2>1. l[Free] = f /\ \A p \in Places : p # Free => l[p] = <<>>
    BY <1>1, <1>2, PlacesApart DEF FreshLayout
  <2>2. ASSUME NEW p \in Places PROVE l[p] \in Seq(Nodes)
    <3>1. <<>> \in Seq(Nodes)
      OBVIOUS
    <3> QED
      BY <1>6, <2>1, <3>1
  <2>3. l = [p \in Places |-> l[p]]
    BY <1>1 DEF FreshLayout
  <2> QED
    BY <2>1, <2>2, <2>3 DEF Layouts
<1>8. \A p \in Places : \A i \in 1 .. Len(l[p]) : p = Free
  BY <1>7
<1>9. Once(l)
  BY <1>6, <1>7, <1>8 DEF Once
<1>10. Covered(l)
  <2> SUFFICES ASSUME NEW n \in Nodes PROVE \E p \in Places : \E i \in 1 .. Len(l[p]) : l[p][i] = n
    BY DEF Covered
  <2>1. n \in 1 .. Len(l[Free]) /\ l[Free][n] = n /\ Free \in Places
    BY <1>6, <1>7, PlacesApart DEF Nodes
  <2> QED
    BY <2>1
<1>11. ASSUME NEW r \in ListRows PROVE RowIs(l[r], r)
  <2>1. l[r] = <<>> /\ head[r] = NULL /\ tail[r] = NULL
    BY <1>3, <1>7, PlacesApart
  <2> QED
    BY <2>1 DEF RowIs, Threads, Linked, After, InFront
<1>12. FreeIs(l[Free])
  BY <1>3, <1>4, <1>6, <1>7 DEF FreeIs
<1>13. WaitingIs(l[Waiting]) /\ FreeingIs(l[Freeing])
  <2>1. l[Waiting] = <<>> /\ l[Freeing] = <<>>
    BY <1>7, PlacesApart
  <2> QED
    BY <1>3, <2>1 DEF WaitingIs, FreeingIs, After
<1>14. Layout(l)
  BY <1>7, <1>9, <1>10, <1>11, <1>12, <1>13 DEF Layout
<1> QED
  BY <1>1, <1>5, <1>14

(* So are the ones of a restart.                                           *)
LEMMA RestartKeeps == Restart => ListsTypeOK' /\ PointersNeverCorrupt' /\ Layout(FreshLayout)'
<1>1. Restart => PoolInit'
  BY DEF Restart, PoolInit
<1>2. PoolInit' => (ListsTypeOK /\ PointersNeverCorrupt /\ Layout(FreshLayout))'
  BY InitKeeps, PTL
<1> QED
  BY <1>1, <1>2

-----------------------------------------------------------------------------
(* Every step, from one layout to the next.                                *)

(* A layout before a step and one after it, and what the step does to the  *)
(* rows: nothing, or it is one of the steps of RowLists.                   *)
Same(l, t) == \A q \in ListRows : t[q] = l[q]

(* The lists, as they are read, are the ones of the layout.                *)
LEMMA Seen ==
  ASSUME ListsTypeOK, NEW l, Layout(l), NEW t, Layout(t)'
  PROVE  /\ [r \in ListRows |-> Forward(r)] = [r \in ListRows |-> l[r]]
         /\ [r \in ListRows |-> Forward(r)]' = [r \in ListRows |-> t[r]]
<1>1. \A r \in ListRows : Forward(r) = l[r]
  BY LayoutRead
<1>2. \A r \in ListRows : Forward(r)' = t[r]
  BY ReadAfter
<1> QED
  BY <1>1, <1>2

(* Nothing happens to the rows.                                            *)
LEMMA SeenIdle ==
  ASSUME ListsTypeOK, NEW l, Layout(l), NEW t, Layout(t)', Same(l, t), pending' = pending
  PROVE  UNCHANGED <<[r \in ListRows |-> Forward(r)], pending>>
BY Seen DEF Same

(* A node enters a row.                                                    *)
LEMMA SeenLink ==
  ASSUME ListsTypeOK, NEW l, Layout(l), NEW t, Layout(t)', NEW r \in ListRows, NEW m \in 1 .. Len(l[r]) + 1,
         pending # NULL, pending' = NULL,
         t[r] = InsertAt(l[r], m, pending), \A q \in ListRows : q # r => t[q] = l[q]
  PROVE  Seqs!Next
<1>1. PICK k : k = m - 1
  OBVIOUS
<1>2. PICK u : u = [q \in ListRows |-> Forward(q)]
  OBVIOUS
<1>3. PICK v : v = [q \in ListRows |-> Forward(q)]'
  OBVIOUS
<1>4. u = [q \in ListRows |-> l[q]] /\ v = [q \in ListRows |-> t[q]]
  BY <1>2, <1>3, Seen
<1>5. Len(l[r]) \in Nat
  BY PlacesApart, LayoutFacts DEF Layout
<1>6. k \in 0 .. Len(u[r]) /\ k + 1 = m
  BY <1>1, <1>4, <1>5
<1>7. v = [u EXCEPT ![r] = InsertAt(u[r], k + 1, pending)]
  BY <1>4, <1>6
<1>8. Seqs!Link(r, k)
  <2>1. Seqs!InsertAt(u[r], k + 1, pending) = InsertAt(u[r], k + 1, pending)
    BY DEF Seqs!InsertAt, InsertAt
  <2> QED
    BY <1>2, <1>3, <1>7, <2>1 DEF Seqs!Link
<1> QED
  BY <1>2, <1>6, <1>8 DEF Seqs!Next

(* A node leaves a row.                                                    *)
LEMMA SeenDelete ==
  ASSUME ListsTypeOK, NEW l, Layout(l), NEW t, Layout(t)', NEW r \in ListRows, NEW k \in 1 .. Len(l[r]),
         pending' = pending, t[r] = RemoveAt(l[r], k), \A q \in ListRows : q # r => t[q] = l[q]
  PROVE  Seqs!Next
<1>1. PICK u : u = [q \in ListRows |-> Forward(q)]
  OBVIOUS
<1>2. PICK v : v = [q \in ListRows |-> Forward(q)]'
  OBVIOUS
<1>3. u = [q \in ListRows |-> l[q]] /\ v = [q \in ListRows |-> t[q]]
  BY <1>1, <1>2, Seen
<1>4. l[r] \in Seq(Nodes)
  BY PlacesApart, LayoutFacts DEF Layout
<1>5. k \in DOMAIN u[r]
  BY <1>3, <1>4
<1>6. v = [u EXCEPT ![r] = RemoveAt(u[r], k)]
  BY <1>3
<1>7. Seqs!Delete(r, k)
  <2>1. Seqs!RemoveAt(u[r], k) = RemoveAt(u[r], k)
    BY DEF Seqs!RemoveAt, RemoveAt
  <2> QED
    BY <1>1, <1>2, <1>6, <2>1 DEF Seqs!Delete
<1> QED
  BY <1>1, <1>5, <1>7 DEF Seqs!Next

(* A row loses all of its nodes.                                           *)
LEMMA SeenFreeList ==
  ASSUME ListsTypeOK, NEW l, Layout(l), NEW t, Layout(t)', NEW r \in ListRows,
         pending' = pending, l[r] # <<>>, t[r] = <<>>, \A q \in ListRows : q # r => t[q] = l[q]
  PROVE  Seqs!Next
<1>1. PICK u : u = [q \in ListRows |-> Forward(q)]
  OBVIOUS
<1>2. PICK v : v = [q \in ListRows |-> Forward(q)]'
  OBVIOUS
<1>3. u = [q \in ListRows |-> l[q]] /\ v = [q \in ListRows |-> t[q]]
  BY <1>1, <1>2, Seen
<1>4. u[r] # <<>> /\ v = [u EXCEPT ![r] = <<>>]
  BY <1>3
<1>5. Seqs!FreeList(r)
  BY <1>1, <1>2, <1>4 DEF Seqs!FreeList
<1> QED
  BY <1>5 DEF Seqs!Next

(* A free node is handed out.                                              *)
LEMMA SeenCreate ==
  ASSUME ListsTypeOK, NEW l, Layout(l), NEW t, Layout(t)', Same(l, t), pending = NULL,
         1 \in 1 .. Len(l[Free]), pending' = l[Free][1]
  PROVE  Seqs!Next
<1>1. PICK u : u = [q \in ListRows |-> Forward(q)]
  OBVIOUS
<1>2. PICK v : v = [q \in ListRows |-> Forward(q)]'
  OBVIOUS
<1>3. u = [q \in ListRows |-> l[q]] /\ v = u
  BY <1>1, <1>2, Seen DEF Same
<1>4. l \in Layouts /\ Once(l) /\ Free \in Places
  BY PlacesApart DEF Layout
<1>5. pending' \in Nodes /\ pending' # NULL
  BY <1>4, LayoutFacts, NodesFacts
<1>6. ASSUME NEW r \in ListRows PROVE pending' \notin Seqs!ToSet(u[r])
  <2>1. l[r] \in Seq(Nodes) /\ r \in Places /\ r # Free
    BY <1>4, PlacesApart, LayoutFacts
  <2>2. \A x \in 1 .. Len(l[Free]), y \in 1 .. Len(l[r]) : l[Free][x] = l[r][y] => Free = r
    BY <1>4, <2>1 DEF Once
  <2>3. \A y \in 1 .. Len(l[r]) : l[r][y] # pending'
    BY <2>1, <2>2
  <2>4. DOMAIN u[r] = 1 .. Len(l[r]) /\ u[r] = l[r]
    BY <1>3, <2>1
  <2> QED
    BY <2>3, <2>4 DEF Seqs!ToSet
<1>7. pending' \notin UNION {Seqs!ToSet(u[r]) : r \in ListRows}
  BY <1>6
<1>8. Seqs!Create
  BY <1>1, <1>2, <1>3, <1>5, <1>7 DEF Seqs!Create, Seqs!InUse
<1> QED
  BY <1>8 DEF Seqs!Next

(* Every step keeps the invariant, and is a step of RowLists or none.      *)
LEMMA StepKeeps ==
  ASSUME ListInv, [Next]_listVars
  PROVE  ListInv' /\ (Seqs!Next \/ UNCHANGED <<[r \in ListRows |-> Forward(r)], pending>>)
<1> DEFINE Shown == Seqs!Next \/ UNCHANGED <<[r \in ListRows |-> Forward(r)], pending>>
<1>1. ListsTypeOK /\ PointersNeverCorrupt
  BY DEF ListInv
<1>2. PICK l : Layout(l)
  BY DEF ListInv
<1>3. l \in Layouts
  BY <1>2 DEF Layout
<1>4. ASSUME ListsTypeOK', PointersNeverCorrupt', NEW t, Layout(t)' PROVE ListInv'
  BY <1>4 DEF ListInv
<1>5. ASSUME listFault' = listFault PROVE PointersNeverCorrupt'
  BY <1>1, <1>5 DEF PointersNeverCorrupt
<1>6. ASSUME NEW what \in {"outOfNodes", "emptyList"}, Fail(what) PROVE ListInv' /\ Shown
  <2>1. ListsTypeOK' /\ PointersNeverCorrupt' /\ Layout(l)'
    BY <1>1, <1>2, <1>6, FailKeeps
  <2>2. pending' = pending /\ Same(l, l)
    BY <1>6 DEF Fail, Same
  <2>3. UNCHANGED <<[r \in ListRows |-> Forward(r)], pending>>
    BY <1>1, <1>2, <2>1, <2>2, SeenIdle
  <2> QED
    BY <1>4, <2>1, <2>3
<1>7. ASSUME Create PROVE ListInv' /\ Shown
  <2>1. CASE currNodeIdx >= NumNodes - 1
    <3>1. Fail("outOfNodes")
      BY <1>7, <2>1 DEF Create
    <3> QED
      BY <1>6, <3>1
  <2>2. CASE currNodeIdx < NumNodes - 1
    <3>1. PICK t : t = Moved(l, Free, 1, Waiting, 1)
      OBVIOUS
    <3>2. /\ ListsTypeOK' /\ listFault' = listFault /\ 1 \in 1 .. Len(l[Free]) /\ pending' = l[Free][1]
          /\ Layout(t)'
      BY <1>1, <1>2, <1>7, <2>2, <3>1, CreateKeeps
    <3>3. Same(l, t)
      BY <3>1, PlacesApart DEF Moved, Same
    <3>4. pending = NULL
      BY <1>7 DEF Create
    <3>5. Seqs!Next
      BY <1>1, <1>2, <3>2, <3>3, <3>4, SeenCreate
    <3> QED
      BY <1>4, <1>5, <3>2, <3>5
  <2> QED
    <3>1. currNodeIdx \in Int /\ NumNodes \in Int
      BY <1>1, NodesFacts DEF ListsTypeOK
    <3> QED
      BY <2>1, <2>2, <3>1
<1>8. ASSUME NEW r \in ListRows, NEW m \in 1 .. Len(l[r]) + 1,
             ListsTypeOK', listFault' = listFault, pending' = NULL, pending # NULL,
             1 \in 1 .. Len(l[Waiting]), l[Waiting][1] = pending, Layout(Moved(l, Waiting, 1, r, m))'
      PROVE  ListInv' /\ Shown
  <2>1. PICK t : t = Moved(l, Waiting, 1, r, m)
    OBVIOUS
  <2>2. Layout(t)'
    BY <1>8, <2>1
  <2>3. t[r] = InsertAt(l[r], m, pending) /\ \A q \in ListRows : q # r => t[q] = l[q]
    BY <1>8, <2>1, PlacesApart DEF Moved
  <2>4. Seqs!Next
    <3>1. ListsTypeOK /\ Layout(l) /\ pending # NULL /\ pending' = NULL
      BY <1>1, <1>2, <1>8
    <3>2. r \in ListRows /\ m \in 1 .. Len(l[r]) + 1
      BY <1>8
    <3> QED
      BY <2>2, <2>3, <3>1, <3>2, SeenLink
  <2> QED
    BY <1>4, <1>5, <1>8, <2>2, <2>4
<1>9. ASSUME NEW r \in ListRows, AppendNode(r) PROVE ListInv' /\ Shown
  <2>1. PICK m : m = Len(l[r]) + 1
    OBVIOUS
  <2>2. m \in 1 .. Len(l[r]) + 1
    BY <1>3, <2>1, PlacesApart, LayoutFacts
  <2>3. /\ ListsTypeOK' /\ listFault' = listFault /\ pending' = NULL /\ pending # NULL
        /\ 1 \in 1 .. Len(l[Waiting]) /\ l[Waiting][1] = pending
        /\ Layout(Moved(l, Waiting, 1, r, m))'
    BY <1>1, <1>2, <1>9, <2>1, AppendKeeps
  <2> QED
    BY <1>8, <2>2, <2>3
<1>10. ASSUME NEW r \in ListRows, InsertAtHead(r) PROVE ListInv' /\ Shown
  <2>1. 1 \in 1 .. Len(l[r]) + 1
    BY <1>3, PlacesApart, LayoutFacts
  <2>2. /\ ListsTypeOK' /\ listFault' = listFault /\ pending' = NULL /\ pending # NULL
        /\ 1 \in 1 .. Len(l[Waiting]) /\ l[Waiting][1] = pending
        /\ Layout(Moved(l, Waiting, 1, r, 1))'
    BY <1>1, <1>2, <1>10, InsertAtHeadKeeps
  <2> QED
    BY <1>8, <2>1, <2>2
<1>11. ASSUME NEW r \in ListRows, NEW n \in ToSet(Forward(r))
       PROVE  \E k \in 1 .. Len(l[r]) : n = l[r][k]
  <2>1. Forward(r) = l[r] /\ l[r] \in Seq(Nodes)
    BY <1>1, <1>2, <1>3, PlacesApart, LayoutRead, LayoutFacts
  <2> QED
    BY <1>11, <2>1 DEF ToSet
<1>12. ASSUME NEW r \in ListRows, NEW n \in ToSet(Forward(r)), InsertAfter(r, n) PROVE ListInv' /\ Shown
  <2>1. PICK k \in 1 .. Len(l[r]) : n = l[r][k]
    BY <1>11
  <2>2. PICK m : m = k + 1
    OBVIOUS
  <2>3. m \in 1 .. Len(l[r]) + 1
    BY <1>3, <2>2, PlacesApart, LayoutFacts
  <2>4. InsertAfter(r, l[r][k])
    BY <1>12, <2>1
  <2>5. /\ ListsTypeOK' /\ listFault' = listFault /\ pending' = NULL /\ pending # NULL
        /\ 1 \in 1 .. Len(l[Waiting]) /\ l[Waiting][1] = pending
        /\ Layout(Moved(l, Waiting, 1, r, m))'
    BY <1>1, <1>2, <2>2, <2>4, InsertAfterKeeps
  <2> QED
    BY <1>8, <2>3, <2>5
<1>13. ASSUME NEW r \in ListRows, NEW n \in ToSet(Forward(r)), Delete(r, n) PROVE ListInv' /\ Shown
  <2>1. PICK k \in 1 .. Len(l[r]) : n = l[r][k]
    BY <1>11
  <2>2. Delete(r, l[r][k])
    BY <1>13, <2>1
  <2>3. PICK t : t = Moved(l, r, k, Free, 1)
    OBVIOUS
  <2>4. ListsTypeOK' /\ listFault' = listFault /\ pending' = pending /\ Layout(t)'
    BY <1>1, <1>2, <2>2, <2>3, DeleteKeeps
  <2>5. t[r] = RemoveAt(l[r], k) /\ \A q \in ListRows : q # r => t[q] = l[q]
    BY <2>3, PlacesApart DEF Moved
  <2>6. Seqs!Next
    BY <1>1, <1>2, <2>4, <2>5, SeenDelete
  <2> QED
    BY <1>4, <1>5, <2>4, <2>6
<1>14. ASSUME NEW r \in ListRows, FreeList(r) PROVE ListInv' /\ Shown
  <2>1. CASE head[r] = NULL
    <3>1. Fail("emptyList")
      BY <1>14, <2>1 DEF FreeList
    <3> QED
      BY <1>6, <3>1
  <2>2. CASE head[r] # NULL
    <3>1. PICK t : t = AllMoved(l, r, Freeing)
      OBVIOUS
    <3>2. ListsTypeOK' /\ listFault' = listFault /\ pending' = pending /\ l[r] # <<>> /\ Layout(t)'
      BY <1>1, <1>2, <1>14, <2>2, <3>1, FreeListKeeps
    <3>3. t[r] = <<>> /\ \A q \in ListRows : q # r => t[q] = l[q]
      BY <3>1, PlacesApart DEF AllMoved
    <3>4. Seqs!Next
      BY <1>1, <1>2, <3>2, <3>3, SeenFreeList
    <3> QED
      BY <1>4, <1>5, <3>2, <3>4
  <2> QED
    BY <2>1, <2>2
<1>15. ASSUME FreeStep PROVE ListInv' /\ Shown
  <2>1. PICK t : t = Moved(l, Freeing, 1, Free, 1)
    OBVIOUS
  <2>2. ListsTypeOK' /\ listFault' = listFault /\ pending' = pending /\ Layout(t)'
    BY <1>1, <1>2, <1>15, <2>1, FreeStepKeeps
  <2>3. Same(l, t)
    BY <2>1, PlacesApart DEF Moved, Same
  <2>4. UNCHANGED <<[r \in ListRows |-> Forward(r)], pending>>
    BY <1>1, <1>2, <2>2, <2>3, SeenIdle
  <2> QED
    BY <1>4, <1>5, <2>2, <2>4
<1>16. ASSUME Restart PROVE ListInv' /\ Shown
  <2>1. PICK t : t = FreshLayout
    OBVIOUS
  <2>2. ListsTypeOK' /\ PointersNeverCorrupt' /\ Layout(t)'
    BY <1>16, <2>1, RestartKeeps
  <2>3. [r \in ListRows |-> Forward(r)]' = [r \in ListRows |-> <<>>]
    <3>1. \A r \in ListRows : t[r] = <<>>
      BY <2>1, PlacesApart DEF FreshLayout
    <3> QED
      BY <1>1, <1>2, <2>2, <3>1, Seen
  <2>4. pending' = NULL
    BY <1>16 DEF Restart
  <2>5. Seqs!Next
    BY <2>3, <2>4 DEF Seqs!Next, Seqs!Restart
  <2> QED
    BY <1>4, <2>2, <2>5
<1>17. ASSUME UNCHANGED listVars PROVE ListInv' /\ Shown
  <2>1. /\ nodeArr' = nodeArr /\ currNodeIdx' = currNodeIdx /\ next' = next /\ prev' = prev /\ head' = head
        /\ tail' = tail /\ pending' = pending /\ cursor' = cursor /\ listFault' = listFault
    BY <1>17 DEF listVars
  <2>2. ListsTypeOK'
    BY <1>1, <2>1 DEF ListsTypeOK
  <2>3. Layout(l)'
    BY <1>2, <2>1 DEF Layout, RowIs, FreeIs, WaitingIs, FreeingIs
  <2>4. Same(l, l)
    BY DEF Same
  <2>5. UNCHANGED <<[r \in ListRows |-> Forward(r)], pending>>
    BY <1>1, <1>2, <2>1, <2>3, <2>4, SeenIdle
  <2> QED
    BY <1>4, <1>5, <2>1, <2>2, <2>3, <2>5
<1> HIDE DEF Shown
<1>18. ListInv' /\ Shown
  BY <1>7, <1>9, <1>10, <1>12, <1>13, <1>14, <1>15, <1>16, <1>17 DEF Next
<1> QED
  BY <1>18 DEF Shown

-----------------------------------------------------------------------------
(* The lists of genericDLL.c read the same in both directions, no node is  *)
(* lost or in two places, and the pointer assertions never fail, whatever  *)
(* the rows and the size of the pool.                                      *)
THEOREM ListsStaySound == Spec => []ListsSound
<1>1. PoolInit => ListInv
  BY InitKeeps DEF ListInv
<1>2. ListInv /\ [Next]_listVars => ListInv'
  BY StepKeeps
<1>3. Spec => []ListInv
  BY <1>1, <1>2, PTL DEF Spec
<1> QED
  BY <1>3, ListInvSound, PTL

(* The pointers of genericDLL.c implement one sequence of nodes per row,   *)
(* and a node handed out is one that nobody has.                           *)
THEOREM ListsImplementSequences == Spec => ImplementsRowLists
<1>1. PoolInit => ListInv
  BY InitKeeps DEF ListInv
<1>2. ListInv /\ [Next]_listVars => ListInv'
  BY StepKeeps
<1>3. PoolInit => Seqs!Init
  <2> SUFFICES ASSUME PoolInit PROVE Seqs!Init
    OBVIOUS
  <2>1. ListsTypeOK /\ Layout(FreshLayout)
    BY InitKeeps
  <2>2. \A r \in ListRows : FreshLayout[r] = <<>>
    BY PlacesApart DEF FreshLayout
  <2>3. \A r \in ListRows : Forward(r) = <<>>
    BY <2>1, <2>2, LayoutRead
  <2>4. pending = NULL
    BY DEF PoolInit
  <2> QED
    BY <2>3, <2>4 DEF Seqs!Init
<1>4. ListInv /\ [Next]_listVars => [Seqs!Next]_<<[r \in ListRows |-> Forward(r)], pending>>
  BY StepKeeps
<1> QED
  BY <1>1, <1>2, <1>3, <1>4, PTL DEF Spec, ImplementsRowLists, Seqs!Spec, Seqs!vars
=============================================================================
