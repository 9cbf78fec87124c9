--------------------------- MODULE BleClientProofs ---------------------------
(***************************************************************************)
(* The discovery of a peripheral and the stream to it: a discovery that    *)
(* reports success has found everything, the pools account for every       *)
(* block, and a packet sent after the announcement goes to the target      *)
(* characteristic of the connected peripheral, for every peripheral whose  *)
(* handles are in order, every pool size and every length of a stream.     *)
(*                                                                         *)
(* First come sequences laid end to end, which is how the lists of the     *)
(* peer make up its blocks; then the order of handles in a database; then  *)
(* the invariant, PeerInv: what is known of the peer is a beginning of its *)
(* database, and the running procedure stands at the end of it. Each       *)
(* callback is shown to keep it, and ClientInv builds on it.               *)
(***************************************************************************)
EXTENDS BleClient, SequenceTheorems, FiniteSetTheorems, WellFoundedInduction, TLAPS

-----------------------------------------------------------------------------
(* Natural numbers, and sequences of sequences laid end to end.            *)

(* Min is the least of a set of naturals.                                  *)
LEMMA LeastNatural ==
  ASSUME NEW S, S \subseteq Nat, S # {}
  PROVE  Min(S) \in S /\ \A k \in S : Min(S) <= k
<1>1. \E x \in S : \A y \in S : ~(<<y, x>> \in OpToRel(<, Nat))
  BY NatLessThanWellFounded, WFMin
<1>2. PICK x \in S : \A y \in S : ~(y < x)
  BY <1>1 DEF OpToRel
<1>3. \A y \in S : x <= y
  BY <1>2
<1> QED
  BY <1>3 DEF Min

(* A set with 0 and the successor of each of its numbers has all numbers   *)
(* up to n.                                                                *)
LEMMA UpTo ==
  ASSUME NEW n \in Nat, NEW S, 0 \in S, \A k \in 0 .. n - 1 : k \in S => k + 1 \in S
  PROVE  \A k \in 0 .. n : k \in S
<1> DEFINE missing == {k \in 0 .. n : k \notin S}
<1> SUFFICES missing = {}
  OBVIOUS
<1> SUFFICES ASSUME missing # {} PROVE FALSE
  OBVIOUS
<1>1. missing \subseteq Nat
  OBVIOUS
<1>2. PICK m \in missing : \A k \in missing : m <= k
  BY <1>1, LeastNatural
<1>3. m - 1 \in 0 .. n - 1 /\ m - 1 + 1 = m
  BY <1>2
<1>4. m - 1 \in S
  BY <1>2, <1>3
<1> QED
  BY <1>2, <1>3, <1>4

(* FlattenSeq is the last of the sequences that append one after another.  *)
LEMMA FlattenByPrefixes ==
  ASSUME NEW S, NEW ss \in Seq(Seq(S)), ss # <<>>
  PROVE  \E f : /\ f[1] = ss[1]
                /\ \A i \in 1 .. Len(ss) - 1 : f[i + 1] = f[i] \o ss[i + 1]
                /\ FlattenSeq(ss) = f[Len(ss)]
<1> DEFINE Joins(f, n) == f = [i \in 1 .. n |-> IF i = 1 THEN ss[i] ELSE f[i - 1] \o ss[i]]
           able == {n \in 0 .. Len(ss) : \E f : Joins(f, n)}
<1>1. Len(ss) \in Nat /\ Len(ss) > 0
  OBVIOUS
<1>2. 0 \in able
  <2>1. \E f : Joins(f, 0)
    <3>1. Joins(<<>>, 0)
      OBVIOUS
    <3> QED
      BY <3>1
  <2>2. 0 \in 0 .. Len(ss)
    BY <1>1
  <2> HIDE DEF Joins
  <2> QED
    BY <2>1, <2>2
<1>3. ASSUME NEW k \in 0 .. Len(ss) - 1, k \in able PROVE k + 1 \in able
  <2>1. PICK f : Joins(f, k)
    BY <1>3
  <2>a. DOMAIN f = 1 .. k /\ \A i \in 1 .. k : f[i] = IF i = 1 THEN ss[i] ELSE f[i - 1] \o ss[i]
    BY <2>1
  <2> DEFINE next == IF k = 0 THEN ss[1] ELSE f[k] \o ss[k + 1]
             g == [i \in 1 .. k + 1 |-> IF i <= k THEN f[i] ELSE next]
  <2>2. Joins(g, k + 1)
    <3>1. DOMAIN g = 1 .. k + 1
      OBVIOUS
    <3>2. ASSUME NEW i \in 1 .. k + 1
          PROVE  g[i] = IF i = 1 THEN ss[i] ELSE g[i - 1] \o ss[i]
      <4>1. CASE i <= k
        <5>1. i \in 1 .. k /\ (i # 1 => i - 1 \in 1 .. k /\ i - 1 \in 1 .. k + 1 /\ i - 1 <= k)
          BY <4>1
        <5>2. g[i] = f[i] /\ (i # 1 => g[i - 1] = f[i - 1])
          BY <5>1
        <5> HIDE DEF g
        <5> QED
          BY <5>1, <5>2, <2>a
      <4>2. CASE i = k + 1 /\ k = 0
        BY <4>2
      <4>3. CASE i = k + 1 /\ k # 0
        BY <4>3
      <4> QED
        BY <4>1, <4>2, <4>3
    <3>3. g = [i \in 1 .. k + 1 |-> g[i]]
      BY Zenon
    <3>4. g = [i \in 1 .. k + 1 |-> IF i = 1 THEN ss[i] ELSE g[i - 1] \o ss[i]]
      <4> HIDE DEF g
      <4> QED
        BY <3>2, <3>3
    <3> QED
      BY <3>4
  <2>3. \E h : Joins(h, k + 1)
    BY <2>2
  <2>4. k + 1 \in 0 .. Len(ss)
    BY <1>1
  <2> HIDE DEF Joins
  <2> QED
    BY <2>3, <2>4
<1>4. Len(ss) \in able
  <2> HIDE DEF able
  <2>1. Len(ss) \in Nat /\ Len(ss) \in 0 .. Len(ss)
    BY <1>1
  <2>2. \A k \in 0 .. Len(ss) : k \in able
    BY <2>1, <1>2, <1>3, UpTo
  <2> QED
    BY <2>1, <2>2
<1>5. PICK f : Joins(f, Len(ss))
  BY <1>4
<1> DEFINE chosen == CHOOSE h : Joins(h, Len(ss))
<1>6. Joins(chosen, Len(ss))
  BY <1>5
<1>7. FlattenSeq(ss) = chosen[Len(ss)]
  BY <1>1 DEF FlattenSeq
<1>8. chosen[1] = ss[1]
  <2>1. 1 \in 1 .. Len(ss)
    BY <1>1
  <2>2. \A k \in 1 .. Len(ss) : chosen[k] = IF k = 1 THEN ss[k] ELSE chosen[k - 1] \o ss[k]
    BY <1>6
  <2> HIDE DEF chosen
  <2> QED
    BY <2>1, <2>2, Zenon
<1>9. ASSUME NEW i \in 1 .. Len(ss) - 1 PROVE chosen[i + 1] = chosen[i] \o ss[i + 1]
  <2>1. i + 1 \in 1 .. Len(ss) /\ i + 1 # 1 /\ (i + 1) - 1 = i
    BY <1>1
  <2>2. \A k \in 1 .. Len(ss) : chosen[k] = IF k = 1 THEN ss[k] ELSE chosen[k - 1] \o ss[k]
    BY <1>6
  <2> HIDE DEF chosen
  <2>3. chosen[i + 1] = IF i + 1 = 1 THEN ss[i + 1] ELSE chosen[(i + 1) - 1] \o ss[i + 1]
    BY <2>1, <2>2, Zenon
  <2> QED
    BY <2>1, <2>3
<1> HIDE DEF chosen
<1> QED
  BY <1>7, <1>8, <1>9

(* Where each sequence starts when they are laid end to end.               *)
Offsets(ss, off) ==
  /\ off \in [0 .. Len(ss) -> Nat]
  /\ off[0] = 0
  /\ \A i \in 1 .. Len(ss) : off[i] = off[i - 1] + Len(ss[i])

LaidBy(ss, off, t) ==
  /\ Offsets(ss, off)
  /\ Len(t) = off[Len(ss)]
  /\ \A i \in 1 .. Len(ss) : \A j \in 1 .. Len(ss[i]) : t[off[i - 1] + j] = ss[i][j]

Covers(ss, off) ==
  \A p \in 1 .. off[Len(ss)] :
    \E i \in 1 .. Len(ss) : \E j \in 1 .. Len(ss[i]) : p = off[i - 1] + j

(* Later sequences start no earlier.                                       *)
LEMMA OffsetsGrow ==
  ASSUME NEW S, NEW ss \in Seq(Seq(S)), NEW off, Offsets(ss, off),
         NEW i \in 0 .. Len(ss), NEW k \in i .. Len(ss)
  PROVE  off[i] <= off[k]
<1> DEFINE T == {d \in Nat : i + d <= Len(ss) => off[i] <= off[i + d]}
<1>1. k - i \in Nat /\ i + (k - i) = k /\ i \in Nat /\ k <= Len(ss) /\ Len(ss) \in Nat
  OBVIOUS
<1>2. \A d \in 0 .. Len(ss) : off[d] \in Nat
  BY DEF Offsets
<1>3. 0 \in T
  <2>1. i + 0 = i /\ off[i] \in Nat
    BY <1>1, <1>2
  <2> QED
    BY <2>1
<1>4. ASSUME NEW d \in 0 .. k - i - 1, d \in T PROVE d + 1 \in T
  <2>1. i + d + 1 \in 1 .. Len(ss) /\ i + d \in 0 .. Len(ss) /\ d + 1 \in Nat
        /\ (i + d + 1) - 1 = i + d /\ i + d + 1 = i + (d + 1) /\ d \in Nat
    BY <1>1
  <2>2. off[i + d + 1] = off[i + d] + Len(ss[i + d + 1])
    BY <2>1 DEF Offsets
  <2>3. Len(ss[i + d + 1]) \in Nat
    BY <2>1
  <2>4. off[i + d] \in Nat /\ off[i] \in Nat /\ off[i] <= off[i + d]
    BY <1>2, <1>4, <2>1
  <2>5. off[i] <= off[i + d + 1]
    BY <2>2, <2>3, <2>4
  <2> QED
    BY <2>1, <2>5
<1>5. \A d \in 0 .. k - i : d \in T
  <2> HIDE DEF T
  <2> QED
    BY <1>1, <1>3, <1>4, UpTo
<1>6. k - i \in T
  <2> HIDE DEF T
  <2> QED
    BY <1>1, <1>5
<1> QED
  BY <1>1, <1>6

(* Every place is some place of some sequence.                             *)
LEMMA OffsetsCover ==
  ASSUME NEW S, NEW ss \in Seq(Seq(S)), NEW off, Offsets(ss, off)
  PROVE  Covers(ss, off)
<1> SUFFICES ASSUME NEW p \in 1 .. off[Len(ss)]
             PROVE  \E i \in 1 .. Len(ss) : \E j \in 1 .. Len(ss[i]) : p = off[i - 1] + j
  BY DEF Covers
<1> DEFINE T == {i \in 0 .. Len(ss) : p <= off[i]}
<1>1. Len(ss) \in T /\ T \subseteq Nat
  BY DEF Offsets
<1>2. PICK i \in T : \A k \in T : i <= k
  BY <1>1, LeastNatural
<1>3. i # 0
  BY DEF Offsets
<1>4. i - 1 \in 0 .. Len(ss) /\ i - 1 \notin T /\ i \in 1 .. Len(ss)
  BY <1>2, <1>3
<1>5. off[i - 1] \in Nat /\ off[i] = off[i - 1] + Len(ss[i]) /\ p <= off[i] /\ ~(p <= off[i - 1])
  BY <1>4 DEF Offsets
<1>6. Len(ss[i]) \in Nat
  BY <1>4
<1>7. p - off[i - 1] \in 1 .. Len(ss[i]) /\ p = off[i - 1] + (p - off[i - 1])
  BY <1>5, <1>6
<1> QED
  BY <1>4, <1>7

(* The prefixes FlattenSeq builds.                                         *)
LEMMA PrefixesAreSequences ==
  ASSUME NEW S, NEW ss \in Seq(Seq(S)), NEW f, f[1] = ss[1],
         \A i \in 1 .. Len(ss) - 1 : f[i + 1] = f[i] \o ss[i + 1]
  PROVE  \A i \in 1 .. Len(ss) : f[i] \in Seq(S)
<1> DEFINE T == {k \in Nat : k \in 1 .. Len(ss) => f[k] \in Seq(S)}
<1>1. Len(ss) \in Nat /\ \A i \in 1 .. Len(ss) : ss[i] \in Seq(S)
  OBVIOUS
<1>2. 0 \in T
  OBVIOUS
<1>3. ASSUME NEW k \in 0 .. Len(ss) - 1, k \in T PROVE k + 1 \in T
  <2>1. k + 1 \in 1 .. Len(ss) /\ k + 1 \in Nat /\ (k + 1) - 1 = k /\ ss[k + 1] \in Seq(S)
    BY <1>1
  <2>2. CASE k = 0
    BY <2>1, <2>2
  <2>3. CASE k # 0
    <3>1. f[k + 1] = f[k] \o ss[k + 1]
      <4>1. k \in 1 .. Len(ss) - 1
        BY <1>1, <2>3
      <4> QED
        BY <4>1
    <3>2. f[k] \in Seq(S)
      BY <1>1, <1>3, <2>3
    <3>3. f[k] \o ss[k + 1] \in Seq(S)
      <4> DEFINE a == f[k]
                 b == ss[k + 1]
      <4>1. a \in Seq(S) /\ b \in Seq(S)
        BY <2>1, <3>2
      <4> HIDE DEF a, b
      <4>2. a \o b \in Seq(S)
        BY <4>1, ConcatProperties
      <4> QED
        BY <4>2 DEF a, b
    <3> QED
      BY <2>1, <3>1, <3>3
  <2> QED
    BY <2>2, <2>3
<1>4. \A k \in 0 .. Len(ss) : k \in T
  <2> HIDE DEF T
  <2> QED
    BY <1>1, <1>2, <1>3, UpTo
<1> QED
  BY <1>1, <1>4

(* The places of two sequences, one behind the other.                      *)
LEMMA ConcatPlaces ==
  ASSUME NEW S, NEW s \in Seq(S), NEW t \in Seq(S)
  PROVE  /\ \A p \in 1 .. Len(s) : (s \o t)[p] = s[p]
         /\ \A p \in 1 .. Len(t) : (s \o t)[Len(s) + p] = t[p]
  OBVIOUS

(* FlattenSeq lays the sequences end to end.                               *)
LEMMA FlattenLaid ==
  ASSUME NEW S, NEW ss \in Seq(Seq(S))
  PROVE  FlattenSeq(ss) \in Seq(S) /\ \E off : LaidBy(ss, off, FlattenSeq(ss))
<1>1. CASE ss = <<>>
  <2>1. FlattenSeq(ss) = <<>> /\ Len(ss) = 0
    BY <1>1 DEF FlattenSeq
  <2>2. LaidBy(ss, [i \in 0 .. 0 |-> 0], <<>>)
    BY <2>1 DEF LaidBy, Offsets
  <2> QED
    BY <2>1, <2>2
<1>2. CASE ss # <<>>
  <2> DEFINE n == Len(ss)
  <2>1. n \in Nat /\ n > 0 /\ \A i \in 1 .. n : ss[i] \in Seq(S) /\ Len(ss[i]) \in Nat
    BY <1>2
  <2>2. PICK f : /\ f[1] = ss[1]
                 /\ \A i \in 1 .. n - 1 : f[i + 1] = f[i] \o ss[i + 1]
                 /\ FlattenSeq(ss) = f[n]
    BY <1>2, FlattenByPrefixes, Zenon
  <2>4. \A i \in 1 .. n : f[i] \in Seq(S)
    BY <2>2, PrefixesAreSequences
  <2>5. \A i \in 1 .. n : Len(f[i]) \in Nat
    BY <2>4
  <2> DEFINE off == [i \in 0 .. n |-> IF i = 0 THEN 0 ELSE Len(f[i])]
  <2>6. off \in [0 .. n -> Nat] /\ off[0] = 0 /\ \A i \in 1 .. n : off[i] = Len(f[i])
    BY <2>1, <2>5
  <2> HIDE DEF off, n
  <2>7. ASSUME NEW i \in 1 .. n PROVE off[i] = off[i - 1] + Len(ss[i])
    <3>1. CASE i = 1
      <4>1. off[1] = Len(ss[1]) /\ off[0] = 0 /\ Len(ss[1]) \in Nat
        BY <2>1, <2>2, <2>6, <3>1
      <4> QED
        BY <3>1, <4>1
    <3>2. CASE i # 1
      <4>1. i - 1 \in 1 .. n - 1 /\ (i - 1) + 1 = i /\ i - 1 \in 1 .. n
        BY <2>1, <3>2
      <4>2. f[i] = f[i - 1] \o ss[i]
        BY <2>2, <4>1
      <4>3. Len(f[i]) = Len(f[i - 1]) + Len(ss[i])
        BY <2>1, <2>4, <4>1, <4>2, ConcatProperties
      <4> QED
        BY <2>6, <4>1, <4>3
    <3> QED
      BY <3>1, <3>2
  <2>8. Offsets(ss, off)
    BY <2>6, <2>7 DEF Offsets, n
  <2> DEFINE T == {k \in Nat : \A i \in 1 .. k : \A j \in 1 .. Len(ss[i]) :
                                  f[k][off[i - 1] + j] = ss[i][j]}
  <2>9. 0 \in T
    OBVIOUS
  <2>10. ASSUME NEW k \in 0 .. n - 1, k \in T PROVE k + 1 \in T
    <3>1. k + 1 \in 1 .. n /\ k + 1 \in Nat /\ (k + 1) - 1 = k /\ k \in Nat
      BY <2>1
    <3> SUFFICES ASSUME NEW i \in 1 .. k + 1, NEW j \in 1 .. Len(ss[i])
                 PROVE  f[k + 1][off[i - 1] + j] = ss[i][j]
      BY <3>1
    <3>2. i \in 1 .. n /\ i - 1 \in 0 .. n /\ i \in 0 .. n
      BY <2>1
    <3>3. Len(ss[i]) \in Nat /\ off[i - 1] \in Nat /\ j \in Nat
      BY <2>1, <2>6, <3>2
    <3>4. CASE k = 0
      <4>1. i = 1
        BY <3>4
      <4>2. f[1] = ss[1] /\ off[0] + j = j
        BY <2>1, <2>2, <2>6, <3>3, <3>2, <4>1
      <4> QED
        BY <3>4, <4>1, <4>2
    <3>5. CASE k # 0
      <4>0. k \in 1 .. n - 1 /\ k \in 1 .. n
        BY <2>1, <3>5
      <4>1. f[k + 1] = f[k] \o ss[k + 1] /\ ss[k + 1] \in Seq(S) /\ f[k] \in Seq(S)
        BY <2>1, <2>2, <2>4, <3>1, <4>0
      <4>2. /\ \A p \in 1 .. Len(f[k]) : f[k + 1][p] = f[k][p]
            /\ \A p \in 1 .. Len(ss[k + 1]) : f[k + 1][Len(f[k]) + p] = ss[k + 1][p]
        <5>1. /\ \A p \in 1 .. Len(f[k]) : (f[k] \o ss[k + 1])[p] = f[k][p]
              /\ \A p \in 1 .. Len(ss[k + 1]) : (f[k] \o ss[k + 1])[Len(f[k]) + p] = ss[k + 1][p]
          <6> DEFINE a == f[k]
                     b == ss[k + 1]
          <6>1. a \in Seq(S) /\ b \in Seq(S)
            BY <4>1
          <6> HIDE DEF a, b
          <6>2. /\ \A p \in 1 .. Len(a) : (a \o b)[p] = a[p]
                /\ \A p \in 1 .. Len(b) : (a \o b)[Len(a) + p] = b[p]
            BY <6>1, ConcatPlaces
          <6> QED
            BY <6>2 DEF a, b
        <5> QED
          BY <4>1, <5>1, Zenon
      <4>3. Len(f[k]) = off[k] /\ off[k] \in Nat
        BY <2>6, <3>1, <4>0
      <4>4. CASE i = k + 1
        BY <3>1, <4>2, <4>3, <4>4
      <4>5. CASE i \in 1 .. k
        <5> DEFINE p == off[i - 1] + j
        <5>1. off[i] <= off[k] /\ off[i] = off[i - 1] + Len(ss[i])
          <6>1. k \in i .. Len(ss) /\ i \in 0 .. Len(ss)
            BY <3>1, <4>5, <3>2 DEF n
          <6> QED
            BY <2>7, <2>8, <3>2, <6>1, OffsetsGrow
        <5>2. p \in 1 .. off[k]
          <6> DEFINE x == off[i - 1]
                     y == Len(ss[i])
                     z == off[k]
          <6>1. x \in Nat /\ y \in Nat /\ z \in Nat /\ j \in 1 .. y
            BY <3>3, <4>3
          <6>2. x + y <= z
            BY <5>1
          <6> HIDE DEF x, y, z
          <6>3. x + j \in 1 .. z
            BY <6>1, <6>2
          <6> QED
            BY <6>3 DEF x, z
        <5>3. f[k][p] = ss[i][j]
          BY <2>10, <4>5
        <5> HIDE DEF p
        <5>4. f[k + 1][p] = ss[i][j]
          BY <4>2, <4>3, <5>2, <5>3
        <5> QED
          BY <5>4 DEF p
      <4> QED
        BY <3>1, <4>4, <4>5
    <3> QED
      BY <3>4, <3>5
  <2>11. \A k \in 0 .. n : k \in T
    <3> HIDE DEF T
    <3> QED
      BY <2>1, <2>9, <2>10, UpTo
  <2>12. \A i \in 1 .. n : \A j \in 1 .. Len(ss[i]) : f[n][off[i - 1] + j] = ss[i][j]
    BY <2>1, <2>11
  <2>13. f[n] \in Seq(S) /\ Len(f[n]) = off[n]
    BY <2>1, <2>4, <2>6
  <2>14. LaidBy(ss, off, f[n])
    BY <2>8, <2>12, <2>13 DEF LaidBy, n
  <2> QED
    BY <2>2, <2>13, <2>14
<1> QED
  BY <1>1, <1>2

(* What is in the sequences is what is in FlattenSeq of them.              *)
LEMMA FlattenRange ==
  ASSUME NEW S, NEW ss \in Seq(Seq(S))
  PROVE  Range(FlattenSeq(ss)) = {x \in S : \E i \in 1 .. Len(ss) : \E j \in 1 .. Len(ss[i]) : x = ss[i][j]}
<1> DEFINE t == FlattenSeq(ss)
<1>1. PICK off : LaidBy(ss, off, t)
  BY FlattenLaid
<1>2. t \in Seq(S) /\ Len(t) = off[Len(ss)] /\ Offsets(ss, off)
  BY <1>1, FlattenLaid DEF LaidBy
<1> HIDE DEF t
<1>0. Covers(ss, off)
  <2>1. Offsets(ss, off)
    BY <1>1 DEF LaidBy
  <2> QED
    BY <2>1, OffsetsCover
<1>3. ASSUME NEW p \in 1 .. Len(t)
      PROVE  \E i \in 1 .. Len(ss) : \E j \in 1 .. Len(ss[i]) : t[p] = ss[i][j]
  <2>1. PICK i \in 1 .. Len(ss) : \E j \in 1 .. Len(ss[i]) : p = off[i - 1] + j
    <3>1. p \in 1 .. off[Len(ss)]
      BY <1>2
    <3> QED
      BY <1>0, <3>1 DEF Covers
  <2>2. PICK j \in 1 .. Len(ss[i]) : p = off[i - 1] + j
    BY <2>1
  <2> QED
    BY <1>1, <2>2 DEF LaidBy
<1>4. ASSUME NEW i \in 1 .. Len(ss), NEW j \in 1 .. Len(ss[i])
      PROVE  \E p \in 1 .. Len(t) : t[p] = ss[i][j]
  <2>1. off[i] <= off[Len(ss)] /\ off[i] = off[i - 1] + Len(ss[i]) /\ off[i - 1] \in Nat
        /\ off[Len(ss)] \in Nat
    <3>1. Len(ss) \in i .. Len(ss) /\ i \in 0 .. Len(ss) /\ i - 1 \in 0 .. Len(ss) /\ Len(ss) \in 0 .. Len(ss)
      OBVIOUS
    <3>2. off[i] <= off[Len(ss)]
      BY <1>2, <3>1, OffsetsGrow
    <3> QED
      BY <1>2, <3>1, <3>2 DEF Offsets
  <2>2. off[i - 1] + j \in 1 .. Len(t)
    <3> DEFINE a == off[i - 1]
               b == off[i]
               c == off[Len(ss)]
    <3>1. b <= c /\ b = a + Len(ss[i]) /\ a \in Nat /\ c \in Nat /\ Len(t) = c
      BY <1>2, <2>1
    <3>2. Len(ss[i]) \in Nat
      OBVIOUS
    <3> HIDE DEF a, b, c
    <3>3. a + j \in 1 .. c
      BY <3>1, <3>2
    <3> QED
      BY <3>1, <3>3 DEF a
  <2>3. t[off[i - 1] + j] = ss[i][j]
    BY <1>1 DEF LaidBy
  <2> QED
    BY <2>2, <2>3
<1>5. Range(t) = {t[p] : p \in 1 .. Len(t)}
  BY <1>2 DEF Range
<1>6. \A i \in 1 .. Len(ss) : \A j \in 1 .. Len(ss[i]) : ss[i][j] \in S
  OBVIOUS
<1>7. ASSUME NEW x \in Range(t)
      PROVE  x \in S /\ \E i \in 1 .. Len(ss) : \E j \in 1 .. Len(ss[i]) : x = ss[i][j]
  <2>1. PICK p \in 1 .. Len(t) : x = t[p]
    BY <1>5
  <2>2. PICK i \in 1 .. Len(ss) : \E j \in 1 .. Len(ss[i]) : x = ss[i][j]
    BY <1>3, <2>1
  <2> QED
    BY <1>6, <2>2
<1>8. ASSUME NEW x, \E i \in 1 .. Len(ss) : \E j \in 1 .. Len(ss[i]) : x = ss[i][j]
      PROVE  x \in Range(t)
  BY <1>4, <1>5, <1>8
<1>9. Range(t) = {x \in S : \E i \in 1 .. Len(ss) : \E j \in 1 .. Len(ss[i]) : x = ss[i][j]}
  BY <1>7, <1>8, Zenon
<1> QED
  BY <1>9 DEF t

(* Nothing follows from nothing.                                           *)
LEMMA FlattenNothing ==
  ASSUME NEW S, NEW ss \in Seq(Seq(S)), \A i \in 1 .. Len(ss) : ss[i] = <<>>
  PROVE  FlattenSeq(ss) = <<>>
<1> DEFINE t == FlattenSeq(ss)
<1>1. PICK off : LaidBy(ss, off, t)
  BY FlattenLaid
<1>2. t \in Seq(S) /\ Len(t) = off[Len(ss)] /\ Offsets(ss, off)
  BY <1>1, FlattenLaid DEF LaidBy
<1> HIDE DEF t
<1>3. SUFFICES ASSUME t # <<>> PROVE FALSE
  BY DEF t
<1>4. 1 \in 1 .. off[Len(ss)]
  BY <1>2, <1>3
<1>0. Covers(ss, off)
  <2>1. Offsets(ss, off)
    BY <1>1 DEF LaidBy
  <2> QED
    BY <2>1, OffsetsCover
<1>5. PICK i \in 1 .. Len(ss) : \E j \in 1 .. Len(ss[i]) : 1 = off[i - 1] + j
  BY <1>0, <1>4 DEF Covers
<1>6. Len(ss[i]) = 0
  BY <1>5
<1> QED
  BY <1>5, <1>6

(* One of them grows by one.                                               *)
LEMMA FlattenGrows ==
  ASSUME NEW S, NEW ss \in Seq(Seq(S)), NEW tt \in Seq(Seq(S)), NEW k \in 1 .. Len(ss),
         Len(tt) = Len(ss), Len(tt[k]) = Len(ss[k]) + 1,
         \A i \in 1 .. Len(ss) : i # k => Len(tt[i]) = Len(ss[i])
  PROVE  Len(FlattenSeq(tt)) = Len(FlattenSeq(ss)) + 1
<1> DEFINE n == Len(ss)
<1>1. PICK off : Offsets(ss, off) /\ Len(FlattenSeq(ss)) = off[n]
  BY FlattenLaid DEF LaidBy
<1>2. PICK noff : Offsets(tt, noff) /\ Len(FlattenSeq(tt)) = noff[n]
  BY FlattenLaid DEF LaidBy
<1>3. /\ n \in Nat /\ k \in 1 .. n
      /\ off[0] = 0 /\ noff[0] = 0
      /\ \A i \in 0 .. n : off[i] \in Nat /\ noff[i] \in Nat
      /\ \A i \in 1 .. n : off[i] = off[i - 1] + Len(ss[i]) /\ noff[i] = noff[i - 1] + Len(tt[i])
      /\ \A i \in 1 .. n : Len(ss[i]) \in Nat
  <2>1. n \in Nat /\ k \in 1 .. n /\ \A i \in 1 .. n : Len(ss[i]) \in Nat
    OBVIOUS
  <2>2. /\ off[0] = 0 /\ \A i \in 0 .. n : off[i] \in Nat
        /\ \A i \in 1 .. n : off[i] = off[i - 1] + Len(ss[i])
    BY <1>1 DEF Offsets
  <2>3. /\ noff[0] = 0 /\ \A i \in 0 .. n : noff[i] \in Nat
        /\ \A i \in 1 .. n : noff[i] = noff[i - 1] + Len(tt[i])
    BY <1>2 DEF Offsets
  <2> HIDE DEF n
  <2> QED
    BY <2>1, <2>2, <2>3
<1> HIDE DEF n
<1> DEFINE T == {i \in Nat : noff[i] = IF i < k THEN off[i] ELSE off[i] + 1}
<1>4. 0 \in T
  BY <1>3
<1>5. ASSUME NEW i \in 0 .. n - 1, i \in T PROVE i + 1 \in T
  <2> DEFINE a == off[i]
             b == noff[i]
             c == off[i + 1]
             d == noff[i + 1]
             l == Len(ss[i + 1])
             m == Len(tt[i + 1])
  <2>1. i + 1 \in 1 .. n /\ (i + 1) - 1 = i /\ i \in Nat /\ i \in 0 .. n /\ i + 1 \in Nat
    BY <1>3
  <2>2. c = a + l /\ d = b + m /\ a \in Nat /\ b \in Nat /\ l \in Nat
    BY <1>3, <2>1
  <2>3. m = IF i + 1 = k THEN l + 1 ELSE l
    BY <2>1 DEF n
  <2>4. b = IF i < k THEN a ELSE a + 1
    BY <1>5
  <2> HIDE DEF a, b, c, d, l, m
  <2>5. k \in Nat
    BY <1>3
  <2>6. d = IF i + 1 < k THEN c ELSE c + 1
    <3>1. CASE i + 1 < k
      BY <2>1, <2>2, <2>3, <2>4, <2>5, <3>1
    <3>2. CASE i + 1 = k
      BY <2>1, <2>2, <2>3, <2>4, <2>5, <3>2
    <3>3. CASE i + 1 > k
      BY <2>1, <2>2, <2>3, <2>4, <2>5, <3>3
    <3> QED
      BY <2>1, <2>5, <3>1, <3>2, <3>3
  <2> QED
    BY <2>1, <2>6 DEF c, d
<1>6. \A i \in 0 .. n : i \in T
  <2> HIDE DEF T
  <2> QED
    BY <1>3, <1>4, <1>5, UpTo
<1>7. noff[n] = off[n] + 1
  BY <1>3, <1>6
<1> QED
  BY <1>1, <1>2, <1>7

(* If nothing is twice in FlattenSeq, nothing is in two places.            *)
Once(t) == \A p, q \in 1 .. Len(t) : t[p] = t[q] => p = q

(* No element has two places if none occurs twice in the flattened         *)
(* sequence.                                                               *)
LEMMA FlattenOnce ==
  ASSUME NEW S, NEW ss \in Seq(Seq(S)), Once(FlattenSeq(ss)),
         NEW i \in 1 .. Len(ss), NEW j \in 1 .. Len(ss[i]),
         NEW k \in 1 .. Len(ss), NEW l \in 1 .. Len(ss[k]), ss[i][j] = ss[k][l]
  PROVE  i = k /\ j = l
<1> DEFINE t == FlattenSeq(ss)
<1>1. PICK off : LaidBy(ss, off, t)
  BY FlattenLaid
<1>2. Len(t) = off[Len(ss)] /\ Offsets(ss, off) /\ Once(t)
  BY <1>1 DEF LaidBy
<1> HIDE DEF t
<1>3. ASSUME NEW a \in 1 .. Len(ss), NEW b \in 1 .. Len(ss[a])
      PROVE  /\ off[a - 1] + b \in 1 .. Len(t) /\ t[off[a - 1] + b] = ss[a][b]
             /\ off[a - 1] \in Nat /\ off[a] = off[a - 1] + Len(ss[a])
             /\ \A c \in a + 1 .. Len(ss) : off[a] <= off[c - 1] /\ off[c - 1] \in Nat
  <2>1. /\ Len(ss) \in a .. Len(ss) /\ a \in 0 .. Len(ss) /\ a - 1 \in 0 .. Len(ss)
        /\ Len(ss) \in 0 .. Len(ss) /\ a - 1 \in Nat
        /\ \A c \in a + 1 .. Len(ss) : c - 1 \in a .. Len(ss) /\ c - 1 \in 0 .. Len(ss)
    <3>a. PICK n : n = Len(ss)
      OBVIOUS
    <3>1. n \in Nat /\ a \in 1 .. n
      BY <3>a
    <3>2. n \in a .. n /\ a \in 0 .. n /\ a - 1 \in 0 .. n /\ n \in 0 .. n /\ a - 1 \in Nat
      BY <3>1
    <3>3. \A c \in a + 1 .. n : c - 1 \in a .. n /\ c - 1 \in 0 .. n
      BY <3>1
    <3> QED
      BY <3>2, <3>3, <3>a
  <2>2. off[a] <= off[Len(ss)] /\ \A c \in a + 1 .. Len(ss) : off[a] <= off[c - 1]
    BY <1>2, <2>1, OffsetsGrow
  <2>3. off[a] = off[a - 1] + Len(ss[a]) /\ off[a - 1] \in Nat /\ off[Len(ss)] \in Nat
        /\ \A c \in a + 1 .. Len(ss) : off[c - 1] \in Nat
    BY <1>2, <2>1 DEF Offsets
  <2>4. off[a - 1] + b \in 1 .. Len(t)
    <3> DEFINE x == off[a - 1]
               y == off[a]
               z == off[Len(ss)]
    <3>1. y <= z /\ y = x + Len(ss[a]) /\ x \in Nat /\ z \in Nat /\ Len(t) = z
      BY <1>2, <2>2, <2>3
    <3>2. Len(ss[a]) \in Nat
      OBVIOUS
    <3> HIDE DEF x, y, z
    <3>3. x + b \in 1 .. z
      BY <3>1, <3>2
    <3> QED
      BY <3>1, <3>3 DEF x
  <2>5. t[off[a - 1] + b] = ss[a][b]
    BY <1>1 DEF LaidBy
  <2> QED
    BY <2>2, <2>3, <2>4, <2>5
<1>4. off[i - 1] + j = off[k - 1] + l
  <2> DEFINE x == off[i - 1] + j
             y == off[k - 1] + l
  <2>1. x \in 1 .. Len(t) /\ t[x] = ss[i][j]
    BY <1>3
  <2>2. y \in 1 .. Len(t) /\ t[y] = ss[k][l]
    BY <1>3
  <2> HIDE DEF x, y
  <2>3. x = y
    BY <1>2, <2>1, <2>2 DEF Once
  <2> QED
    BY <2>3 DEF x, y
<1>5. ASSUME NEW a \in 1 .. Len(ss), NEW b \in 1 .. Len(ss[a]),
             NEW c \in 1 .. Len(ss), NEW d \in 1 .. Len(ss[c]), a < c,
             off[a - 1] + b = off[c - 1] + d
      PROVE  FALSE
  <2> DEFINE x == off[a - 1]
             y == off[c - 1]
  <2>1. x \in Nat /\ x + Len(ss[a]) <= y /\ y \in Nat
    <3>1. c \in a + 1 .. Len(ss)
      BY <1>5
    <3> QED
      BY <1>3, <3>1
  <2>2. Len(ss[a]) \in Nat /\ b <= Len(ss[a]) /\ d >= 1 /\ b \in Nat /\ d \in Nat
    OBVIOUS
  <2>3. x + b = y + d
    BY <1>5
  <2> HIDE DEF x, y
  <2> QED
    BY <2>1, <2>2, <2>3
<1>6. i = k
  <2>1. ~(i < k)
    BY <1>4, <1>5
  <2>2. ~(k < i)
    BY <1>4, <1>5
  <2> QED
    BY <2>1, <2>2
<1>7. j = l
  <2> DEFINE x == off[i - 1]
  <2>1. x + j = x + l /\ x \in Nat
    BY <1>3, <1>4, <1>6
  <2> HIDE DEF x
  <2> QED
    BY <2>1
<1> QED
  BY <1>6, <1>7

(* A sequence of N numbers that has all numbers from 1 to N has each once. *)
LEMMA AllOnce ==
  ASSUME NEW N \in Nat, NEW t \in Seq(1 .. N), Len(t) = N, Range(t) = 1 .. N
  PROVE  Once(t)
<1>0. t \in [1 .. N -> 1 .. N] /\ DOMAIN t = 1 .. N
  OBVIOUS
<1>1. \A x \in 1 .. N : \E p \in 1 .. N : t[p] = x
  BY <1>0 DEF Range
<1>2. t \in Surjection(1 .. N, 1 .. N)
  BY <1>0, <1>1 DEF Surjection
<1>3. IsFiniteSet(1 .. N)
  BY FS_Interval
<1>4. t \in Injection(1 .. N, 1 .. N)
  BY <1>2, <1>3, FS_Surjection
<1> QED
  BY <1>4 DEF Injection, IsInjective, Once

-----------------------------------------------------------------------------
(* Databases in handle order.                                              *)

(* The handles and the characteristics of a service.                       *)
LEMMA DatabaseFacts ==
  ASSUME NEW db, OrderedDatabase(db), NEW i \in 1 .. Len(db)
  PROVE  /\ db \in Seq(Services) /\ DOMAIN db = 1 .. Len(db) /\ Len(db) \in Nat
         /\ db[i].start \in Nat /\ db[i].end \in Nat /\ db[i].uuid \in Uuids
         /\ 0 < db[i].start /\ db[i].start <= db[i].end
         /\ db[i].chrs \in Seq(Characteristics)
         /\ DOMAIN db[i].chrs = 1 .. Len(db[i].chrs) /\ Len(db[i].chrs) \in Nat
<1>1. db \in Seq(Services) /\ DOMAIN db = 1 .. Len(db) /\ Len(db) \in Nat
  BY DEF OrderedDatabase
<1>2. db[i] \in Services /\ OrderedService(db[i])
  BY <1>1 DEF OrderedDatabase
<1>3. db[i].start \in Nat /\ db[i].end \in Nat /\ db[i].uuid \in Uuids
      /\ db[i].chrs \in Seq(Characteristics)
  BY <1>2 DEF Services
<1>4. 0 < db[i].start /\ db[i].start <= db[i].end
  BY <1>2 DEF OrderedService
<1>5. DOMAIN db[i].chrs = 1 .. Len(db[i].chrs) /\ Len(db[i].chrs) \in Nat
  BY <1>3
<1> QED
  BY <1>1, <1>3, <1>4, <1>5

(* The handles of a characteristic, and those before it.                   *)
LEMMA CharacteristicFacts ==
  ASSUME NEW db, OrderedDatabase(db), NEW i \in 1 .. Len(db), NEW j \in 1 .. Len(db[i].chrs)
  PROVE  LET c == db[i].chrs[j]
         IN /\ c \in Characteristics /\ c.def \in Nat /\ c.val \in Nat /\ c.uuid \in Uuids
            /\ c.dscs \in Seq(Nat) /\ DOMAIN c.dscs = 1 .. Len(c.dscs) /\ Len(c.dscs) \in Nat
            /\ InHandleOrder(c) /\ WithinService(c, db[i])
            /\ \A k \in 1 .. j - 1 : ChrPrecedes(db[i].chrs[k], c)
<1> DEFINE c == db[i].chrs[j]
<1>1. db[i].chrs \in Seq(Characteristics) /\ DOMAIN db[i].chrs = 1 .. Len(db[i].chrs)
      /\ DOMAIN db = 1 .. Len(db)
  BY DatabaseFacts
<1>2. OrderedService(db[i])
  BY <1>1 DEF OrderedDatabase
<1>3. InHandleOrder(c) /\ WithinService(c, db[i]) /\ \A k \in 1 .. j - 1 : ChrPrecedes(db[i].chrs[k], c)
  BY <1>1, <1>2 DEF OrderedService
<1>4. c \in Characteristics
  BY <1>1
<1> HIDE DEF c
<1>5. c.def \in Nat /\ c.val \in Nat /\ c.uuid \in Uuids /\ c.dscs \in Seq(Nat)
  BY <1>4 DEF Characteristics
<1>6. DOMAIN c.dscs = 1 .. Len(c.dscs) /\ Len(c.dscs) \in Nat
  BY <1>5
<1>7. /\ c \in Characteristics /\ c.def \in Nat /\ c.val \in Nat /\ c.uuid \in Uuids
      /\ c.dscs \in Seq(Nat) /\ DOMAIN c.dscs = 1 .. Len(c.dscs) /\ Len(c.dscs) \in Nat
      /\ InHandleOrder(c) /\ WithinService(c, db[i])
      /\ \A k \in 1 .. j - 1 : ChrPrecedes(db[i].chrs[k], c)
  BY <1>3, <1>4, <1>5, <1>6
<1> QED
  BY <1>7 DEF c

(* A service ends before the later ones start.                             *)
LEMMA ServicesApart ==
  ASSUME NEW db, OrderedDatabase(db), NEW k \in 1 .. Len(db), NEW i \in 1 .. k - 1
  PROVE  db[i].end < db[k].start
  BY DatabaseFacts DEF OrderedDatabase

(* The characteristic in an earlier place has the lower handles.           *)
LEMMA EarlierPrecedes ==
  ASSUME NEW db, OrderedDatabase(db),
         NEW i \in 1 .. Len(db), NEW j \in 1 .. Len(db[i].chrs),
         NEW k \in 1 .. Len(db), NEW l \in 1 .. Len(db[k].chrs),
         i < k \/ (i = k /\ j < l)
  PROVE  ChrPrecedes(db[i].chrs[j], db[k].chrs[l])
<1>1. CASE i < k
  <2> DEFINE c == db[i].chrs[j]
             d == db[k].chrs[l]
             e == db[i].end
             s == db[k].start
  <2>1. e < s
    BY <1>1, ServicesApart
  <2>2. e \in Nat /\ s \in Nat
    BY DatabaseFacts
  <2>3. c.val <= e /\ \A m \in DOMAIN c.dscs : c.dscs[m] <= e
    BY CharacteristicFacts DEF WithinService
  <2>4. s < d.def
    BY CharacteristicFacts DEF WithinService
  <2>5. c.val \in Nat /\ d.def \in Nat /\ c.dscs \in Seq(Nat)
    BY CharacteristicFacts
  <2> HIDE DEF c, d, e, s
  <2>6. ASSUME NEW m \in DOMAIN c.dscs PROVE c.dscs[m] \in Nat
    <3>1. m \in 1 .. Len(c.dscs)
      BY <2>5, SMTT(30)
    <3> QED
      BY <2>5, <3>1, ElementOfSeq
  <2>7. ChrPrecedes(c, d)
    <3>1. e < d.def
      BY <2>1, <2>2, <2>4, <2>5
    <3>2. c.val < d.def
      BY <2>2, <2>3, <2>5, <3>1
    <3>3. ASSUME NEW m \in DOMAIN c.dscs PROVE c.dscs[m] < d.def
      BY <2>2, <2>3, <2>5, <2>6, <3>1
    <3> QED
      BY <3>2, <3>3 DEF ChrPrecedes
  <2> QED
    BY <2>7 DEF c, d
<1>2. CASE i = k /\ j < l
  <2>1. j \in 1 .. l - 1
    BY <1>2
  <2> QED
    BY <1>2, <2>1, CharacteristicFacts
<1> QED
  BY <1>1, <1>2

(* No two characteristics share their definition or their value handle.    *)
LEMMA HandlesDiffer ==
  ASSUME NEW db, OrderedDatabase(db),
         NEW i \in 1 .. Len(db), NEW j \in 1 .. Len(db[i].chrs),
         NEW k \in 1 .. Len(db), NEW l \in 1 .. Len(db[k].chrs),
         \/ db[i].chrs[j].def = db[k].chrs[l].def
         \/ db[i].chrs[j].val = db[k].chrs[l].val
  PROVE  i = k /\ j = l
<1> DEFINE c == db[i].chrs[j]
           d == db[k].chrs[l]
<1>1. /\ c.def \in Nat /\ c.val \in Nat /\ c.def < c.val
      /\ d.def \in Nat /\ d.val \in Nat /\ d.def < d.val
  BY CharacteristicFacts DEF InHandleOrder
<1>2. c.def = d.def \/ c.val = d.val
  OBVIOUS
<1>3. i < k \/ (i = k /\ j < l) => c.val < d.def
  BY EarlierPrecedes DEF ChrPrecedes
<1>4. k < i \/ (i = k /\ l < j) => d.val < c.def
  BY EarlierPrecedes DEF ChrPrecedes
<1> HIDE DEF c, d
<1>5. ~(i < k \/ (i = k /\ j < l)) /\ ~(k < i \/ (i = k /\ l < j))
  BY <1>1, <1>2, <1>3, <1>4
<1> QED
  BY <1>5

(* The order of value handles is the order of places.                      *)
LEMMA LaterPlace ==
  ASSUME NEW db, OrderedDatabase(db),
         NEW i \in 1 .. Len(db), NEW j \in 1 .. Len(db[i].chrs),
         NEW k \in 1 .. Len(db), NEW l \in 1 .. Len(db[k].chrs),
         db[i].chrs[j].val < db[k].chrs[l].val
  PROVE  i < k \/ (i = k /\ j < l)
<1> DEFINE c == db[i].chrs[j]
           d == db[k].chrs[l]
<1>1. /\ c.def \in Nat /\ c.val \in Nat /\ c.def < c.val
      /\ d.def \in Nat /\ d.val \in Nat /\ d.def < d.val
  BY CharacteristicFacts DEF InHandleOrder
<1>2. k < i \/ (i = k /\ l < j) => d.val < c.def
  BY EarlierPrecedes DEF ChrPrecedes
<1>3. c.val < d.val
  OBVIOUS
<1> HIDE DEF c, d
<1>4. ~(k < i \/ (i = k /\ l < j))
  BY <1>1, <1>2, <1>3
<1>5. i # k \/ j # l
  BY <1>1, <1>3 DEF c, d
<1> QED
  BY <1>4, <1>5
-----------------------------------------------------------------------------
(* The inductive invariant of the discovery. What is known of the peer is  *)
(* at all times a beginning of its database, and the procedure that runs   *)
(* stands at the end of that beginning.                                    *)

KnownServices == [start : Nat, end : Nat, uuid : Uuids, chrs : Seq(1 .. MaxChrs)]
KnownPeers == [known : BOOLEAN, svcs : Seq(KnownServices), prevVal : Nat, cur : Nat]
Procedures == [kind : {"svcs", "chrs", "dscs"}, lo : Nat, hi : Nat, after : Nat]

PeerTypeOK ==
  /\ OrderedDatabase(server)
  /\ peer \in KnownPeers
  /\ chrMem \in [1 .. MaxChrs -> Characteristics]
  /\ freeChrs \in Seq(1 .. MaxChrs)
  /\ freeSvcs \in Nat /\ freeDscs \in Nat
  /\ proc \in Procedures \cup {NoProc}
  /\ completion \in {"no", "ok", "failed"}

(* The characteristic in place j of service i, as the client holds it.     *)
Held(i, j) == chrMem[peer.svcs[i].chrs[j]]

SameService(i) ==
  /\ peer.svcs[i].start = server[i].start /\ peer.svcs[i].end = server[i].end
  /\ peer.svcs[i].uuid = server[i].uuid

SameChr(i, j) ==
  /\ Held(i, j).def = server[i].chrs[j].def /\ Held(i, j).val = server[i].chrs[j].val
  /\ Held(i, j).uuid = server[i].chrs[j].uuid

AllServices == Len(peer.svcs) = Len(server) /\ \A i \in DOMAIN server : SameService(i)

ChrsFound(i, m) ==
  /\ Len(peer.svcs[i].chrs) = m /\ m <= Len(server[i].chrs)
  /\ \A j \in 1 .. m : SameChr(i, j)

AllChrs(i) == ChrsFound(i, Len(server[i].chrs))

NoDscs(i) == \A j \in DOMAIN peer.svcs[i].chrs : Held(i, j).dscs = <<>>

FindingServices ==
  /\ peer.prevVal = 1 /\ Len(peer.svcs) <= Len(server)
  /\ \A i \in DOMAIN peer.svcs : SameService(i) /\ peer.svcs[i].chrs = <<>>
  /\ proc.after = IF Len(peer.svcs) = 0 THEN 0 ELSE server[Len(peer.svcs)].start

(* Services before the current one that have room for characteristics have *)
(* some, so that the search never goes back.                               *)
ServicesBefore(k) ==
  \A i \in 1 .. k - 1 :
    AllChrs(i) /\ (server[i].start < server[i].end => peer.svcs[i].chrs # <<>>)

FindingChrs ==
  /\ peer.prevVal = 1 /\ AllServices /\ peer.cur \in DOMAIN server
  /\ proc.lo = server[peer.cur].start /\ proc.hi = server[peer.cur].end
  /\ ServicesBefore(peer.cur)
  /\ \A i \in peer.cur + 1 .. Len(server) : peer.svcs[i].chrs = <<>>
  /\ \A i \in DOMAIN server : NoDscs(i)
  /\ ChrsFound(peer.cur, Len(peer.svcs[peer.cur].chrs))
  /\ proc.after = IF peer.svcs[peer.cur].chrs = <<>> THEN 0
                  ELSE server[peer.cur].chrs[Len(peer.svcs[peer.cur].chrs)].def

(* The last handle that may belong to a characteristic.                    *)
LastHandle(i, j) ==
  IF j < Len(server[i].chrs) THEN server[i].chrs[j + 1].def - 1 ELSE server[i].end

AllKnown == AllServices /\ \A i \in DOMAIN server : AllChrs(i)

(* Where the descriptors of a characteristic stand while those behind the  *)
(* value handle lo are asked for, up to the handle after.                  *)
DscsUpTo(c, d, lo, after) ==
  /\ c.val < lo => d = c.dscs
  /\ c.val > lo => d = <<>>
  /\ c.val = lo => /\ Len(d) <= Len(c.dscs) /\ \A k \in DOMAIN d : d[k] = c.dscs[k]
                   /\ after = IF d = <<>> THEN 0 ELSE c.dscs[Len(d)]

FindingDscs ==
  /\ AllKnown /\ peer.prevVal = proc.lo
  /\ \E i \in DOMAIN server : \E j \in DOMAIN server[i].chrs :
       proc.lo = server[i].chrs[j].val /\ proc.hi = LastHandle(i, j)
  /\ \A i \in DOMAIN server : \A j \in DOMAIN server[i].chrs :
       DscsUpTo(server[i].chrs[j], Held(i, j).dscs, proc.lo, proc.after)

Finding ==
  /\ proc.kind = "svcs" => FindingServices
  /\ proc.kind = "chrs" => FindingChrs
  /\ proc.kind = "dscs" => FindingDscs

PeerControl ==
  /\ ~peer.known => peer = NoPeer
  /\ proc # NoProc \/ completion # "no" => peer.known
  /\ completion # "no" => proc = NoProc

PeerInv == PeerTypeOK /\ PeerControl /\ PoolsAccounted /\ Finding /\ DiscoveryExact

-----------------------------------------------------------------------------
(* The inductive invariant of the client.                                  *)

ApiTypeOK ==
  /\ Var \in BOOLEAN /\ announced \in BOOLEAN
  /\ file \in 0 .. MaxPackets /\ queue \in Seq(1 .. MaxPackets)
  /\ writes \in Seq([val : Nat, announced : BOOLEAN]) /\ overlap \in Nat

(* The first pointer is the target characteristic of the connected peer.   *)
HoldsTarget ==
  /\ characteristic[1] \in 1 .. MaxChrs
  /\ \E c \in Range(ServerChrs) : IsTarget(c) /\ c.val = chrMem[characteristic[1]].val

LinkControl ==
  /\ gap = "connected" <=> peer.known
  /\ gap # "connected" => ~announced /\ ~breaking /\ finding = 0 /\ writes = <<>>
  /\ finding # 0 => completion = "ok"
  /\ announced => proc = NoProc /\ completion = "no"
  /\ announced \/ finding # 0 => HoldsTarget

(* An answer frees the turn that the next packet takes.                    *)
AnswersCounted == Var => Len(writes) <= overlap

StreamLength == state = 2 => sent = 1 \/ sent < file

ClientInv ==
  PeerInv /\ ClientTypeOK /\ ApiTypeOK /\ LinkControl /\ AnswersCounted /\ StreamLength
    /\ PacketsPaced /\ PlaybackReachesTarget

-----------------------------------------------------------------------------
(* The blocks and the descriptors of a peer.                               *)

(* The types of what is known of a peer.                                   *)
LEMMA PeerFacts ==
  ASSUME NEW p \in KnownPeers
  PROVE  /\ p.known \in BOOLEAN /\ p.prevVal \in Nat /\ p.cur \in Nat
         /\ p.svcs \in Seq(KnownServices)
         /\ DOMAIN p.svcs = 1 .. Len(p.svcs) /\ Len(p.svcs) \in Nat
         /\ \A i \in 1 .. Len(p.svcs) :
              /\ p.svcs[i] \in KnownServices
              /\ p.svcs[i].start \in Nat /\ p.svcs[i].end \in Nat
              /\ p.svcs[i].uuid \in Uuids /\ p.svcs[i].chrs \in Seq(1 .. MaxChrs)
              /\ DOMAIN p.svcs[i].chrs = 1 .. Len(p.svcs[i].chrs)
              /\ Len(p.svcs[i].chrs) \in Nat
<1>1. p.known \in BOOLEAN /\ p.prevVal \in Nat /\ p.cur \in Nat /\ p.svcs \in Seq(KnownServices)
  BY DEF KnownPeers
<1>2. DOMAIN p.svcs = 1 .. Len(p.svcs) /\ Len(p.svcs) \in Nat
  BY <1>1
<1>3. ASSUME NEW i \in 1 .. Len(p.svcs)
      PROVE  /\ p.svcs[i] \in KnownServices
             /\ p.svcs[i].start \in Nat /\ p.svcs[i].end \in Nat
             /\ p.svcs[i].uuid \in Uuids /\ p.svcs[i].chrs \in Seq(1 .. MaxChrs)
             /\ DOMAIN p.svcs[i].chrs = 1 .. Len(p.svcs[i].chrs)
             /\ Len(p.svcs[i].chrs) \in Nat
  <2>1. p.svcs[i] \in KnownServices
    BY <1>1
  <2>2. p.svcs[i].start \in Nat /\ p.svcs[i].end \in Nat
        /\ p.svcs[i].uuid \in Uuids /\ p.svcs[i].chrs \in Seq(1 .. MaxChrs)
    BY <2>1 DEF KnownServices
  <2> QED
    BY <2>1, <2>2
<1> QED
  BY <1>1, <1>2, <1>3

ChrLists(p) == [i \in DOMAIN p.svcs |-> p.svcs[i].chrs]

(* The blocks of a peer are its characteristic lists, end to end.          *)
LEMMA ChrListsFacts ==
  ASSUME NEW p \in KnownPeers
  PROVE  /\ ChrLists(p) \in Seq(Seq(1 .. MaxChrs)) /\ Len(ChrLists(p)) = Len(p.svcs)
         /\ \A i \in 1 .. Len(p.svcs) : ChrLists(p)[i] = p.svcs[i].chrs
         /\ Blocks(p) = FlattenSeq(ChrLists(p))
<1>1. Len(p.svcs) \in Nat /\ DOMAIN p.svcs = 1 .. Len(p.svcs)
      /\ \A i \in 1 .. Len(p.svcs) : p.svcs[i].chrs \in Seq(1 .. MaxChrs)
  BY PeerFacts
<1>2. ChrLists(p) = [i \in 1 .. Len(p.svcs) |-> p.svcs[i].chrs]
  BY <1>1 DEF ChrLists
<1>3. Blocks(p) = FlattenSeq(ChrLists(p))
  BY DEF ChrLists, Blocks
<1>4. ChrLists(p) \in Seq(Seq(1 .. MaxChrs)) /\ Len(ChrLists(p)) = Len(p.svcs)
  BY <1>1, <1>2
<1>5. \A i \in 1 .. Len(p.svcs) : ChrLists(p)[i] = p.svcs[i].chrs
  BY <1>2
<1> QED
  BY <1>3, <1>4, <1>5

(* The blocks of a peer are those in its characteristic lists.             *)
LEMMA BlocksFacts ==
  ASSUME NEW p \in KnownPeers
  PROVE  /\ Blocks(p) \in Seq(1 .. MaxChrs)
         /\ Len(Blocks(p)) \in Nat /\ DOMAIN Blocks(p) = 1 .. Len(Blocks(p))
         /\ \A i \in 1 .. Len(p.svcs) : \A j \in 1 .. Len(p.svcs[i].chrs) :
              p.svcs[i].chrs[j] \in 1 .. MaxChrs /\ p.svcs[i].chrs[j] \in Range(Blocks(p))
         /\ \A b \in Range(Blocks(p)) :
              \E i \in 1 .. Len(p.svcs) : \E j \in 1 .. Len(p.svcs[i].chrs) : b = p.svcs[i].chrs[j]
<1>1. Blocks(p) \in Seq(1 .. MaxChrs)
  BY ChrListsFacts, FlattenLaid
<1>2. Range(Blocks(p)) = {x \in 1 .. MaxChrs : \E i \in 1 .. Len(ChrLists(p)) :
                            \E j \in 1 .. Len(ChrLists(p)[i]) : x = ChrLists(p)[i][j]}
  <2> DEFINE ss == ChrLists(p)
             S == 1 .. MaxChrs
  <2>1. ss \in Seq(Seq(S)) /\ Blocks(p) = FlattenSeq(ss)
    BY ChrListsFacts
  <2> HIDE DEF ss, S
  <2>2. Range(FlattenSeq(ss)) = {x \in S : \E i \in 1 .. Len(ss) :
                            \E j \in 1 .. Len(ss[i]) : x = ss[i][j]}
    BY <2>1, FlattenRange
  <2> QED
    BY <2>1, <2>2 DEF ss, S
<1>3. ASSUME NEW i \in 1 .. Len(p.svcs), NEW j \in 1 .. Len(p.svcs[i].chrs)
      PROVE  p.svcs[i].chrs[j] \in 1 .. MaxChrs
  <2> DEFINE s == p.svcs[i].chrs
             S == 1 .. MaxChrs
  <2>1. s \in Seq(S)
    BY PeerFacts
  <2> HIDE DEF S
  <2>2. s[j] \in S
    BY <2>1, ElementOfSeq
  <2> QED
    BY <2>2 DEF S
<1>4. \A i \in 1 .. Len(p.svcs) : ChrLists(p)[i] = p.svcs[i].chrs
  BY ChrListsFacts
<1>5. Len(ChrLists(p)) = Len(p.svcs)
  BY ChrListsFacts
<1>6. Range(Blocks(p)) = {x \in 1 .. MaxChrs : \E i \in 1 .. Len(p.svcs) :
                            \E j \in 1 .. Len(p.svcs[i].chrs) : x = p.svcs[i].chrs[j]}
  <2>1. Range(Blocks(p)) = {x \in 1 .. MaxChrs : \E i \in 1 .. Len(p.svcs) :
                            \E j \in 1 .. Len(ChrLists(p)[i]) : x = ChrLists(p)[i][j]}
    BY <1>2, <1>5
  <2>2. ASSUME NEW x
        PROVE  (\E i \in 1 .. Len(p.svcs) : \E j \in 1 .. Len(ChrLists(p)[i]) : x = ChrLists(p)[i][j])
           <=> (\E i \in 1 .. Len(p.svcs) : \E j \in 1 .. Len(p.svcs[i].chrs) : x = p.svcs[i].chrs[j])
    BY <1>4
  <2> QED
    BY <2>1, <2>2
<1> QED
  BY <1>1, <1>3, <1>6

DscLists(p, mem) == [i \in DOMAIN Blocks(p) |-> mem[Blocks(p)[i]].dscs]

(* The types of a block of the characteristic pool.                        *)
LEMMA MemFacts ==
  ASSUME NEW mem \in [1 .. MaxChrs -> Characteristics], NEW b \in 1 .. MaxChrs
  PROVE  /\ mem[b] \in Characteristics /\ mem[b].def \in Nat /\ mem[b].val \in Nat
         /\ mem[b].uuid \in Uuids /\ mem[b].dscs \in Seq(Nat)
         /\ Len(mem[b].dscs) \in Nat /\ DOMAIN mem[b].dscs = 1 .. Len(mem[b].dscs)
<1>1. mem[b] \in Characteristics
  OBVIOUS
<1>2. mem[b].def \in Nat /\ mem[b].val \in Nat /\ mem[b].uuid \in Uuids /\ mem[b].dscs \in Seq(Nat)
  BY <1>1 DEF Characteristics
<1> QED
  BY <1>1, <1>2

(* The descriptors of a peer are those of its blocks, end to end.          *)
LEMMA DscListsFacts ==
  ASSUME NEW p \in KnownPeers, NEW mem \in [1 .. MaxChrs -> Characteristics]
  PROVE  /\ DscLists(p, mem) \in Seq(Seq(Nat)) /\ Len(DscLists(p, mem)) = Len(Blocks(p))
         /\ \A i \in 1 .. Len(Blocks(p)) :
              Blocks(p)[i] \in 1 .. MaxChrs /\ DscLists(p, mem)[i] = mem[Blocks(p)[i]].dscs
         /\ Descriptors(p, mem) = FlattenSeq(DscLists(p, mem))
         /\ Descriptors(p, mem) \in Seq(Nat) /\ Len(Descriptors(p, mem)) \in Nat
<1>1. Blocks(p) \in Seq(1 .. MaxChrs)
  BY BlocksFacts
<1>2. ASSUME NEW i \in 1 .. Len(Blocks(p)) PROVE Blocks(p)[i] \in 1 .. MaxChrs
  BY <1>1, ElementOfSeq
<1>3. \A i \in 1 .. Len(Blocks(p)) : mem[Blocks(p)[i]].dscs \in Seq(Nat)
  BY <1>2, MemFacts
<1>4. DOMAIN Blocks(p) = 1 .. Len(Blocks(p)) /\ Len(Blocks(p)) \in Nat
  BY <1>1
<1>5. DscLists(p, mem) \in Seq(Seq(Nat)) /\ Len(DscLists(p, mem)) = Len(Blocks(p))
  BY <1>3, <1>4 DEF DscLists
<1>6. \A i \in 1 .. Len(Blocks(p)) : DscLists(p, mem)[i] = mem[Blocks(p)[i]].dscs
  BY <1>4 DEF DscLists
<1>7. Descriptors(p, mem) = FlattenSeq(DscLists(p, mem))
  BY DEF Descriptors, DscLists
<1>8. Descriptors(p, mem) \in Seq(Nat)
  BY <1>5, <1>7, FlattenLaid
<1> QED
  BY <1>2, <1>5, <1>6, <1>7, <1>8

(* A peer whose characteristics have no descriptors holds none.            *)
LEMMA NoDescriptors ==
  ASSUME NEW p \in KnownPeers, NEW mem \in [1 .. MaxChrs -> Characteristics],
         \A i \in 1 .. Len(p.svcs) : \A j \in 1 .. Len(p.svcs[i].chrs) :
            mem[p.svcs[i].chrs[j]].dscs = <<>>
  PROVE  Descriptors(p, mem) = <<>>
<1>1. ASSUME NEW n \in 1 .. Len(Blocks(p)) PROVE DscLists(p, mem)[n] = <<>>
  <2>1. Blocks(p)[n] \in Range(Blocks(p))
    BY BlocksFacts DEF Range
  <2>2. PICK i \in 1 .. Len(p.svcs) : \E j \in 1 .. Len(p.svcs[i].chrs) : Blocks(p)[n] = p.svcs[i].chrs[j]
    BY <2>1, BlocksFacts
  <2>3. PICK j \in 1 .. Len(p.svcs[i].chrs) : Blocks(p)[n] = p.svcs[i].chrs[j]
    BY <2>2
  <2>4. mem[Blocks(p)[n]].dscs = <<>>
    BY <2>3
  <2> QED
    BY <2>4, DscListsFacts
<1>2. DscLists(p, mem) \in Seq(Seq(Nat)) /\ Len(DscLists(p, mem)) = Len(Blocks(p))
  BY DscListsFacts
<1>3. FlattenSeq(DscLists(p, mem)) = <<>>
  BY <1>1, <1>2, FlattenNothing
<1> QED
  BY <1>3, DscListsFacts

(* The pools account for each block once, so a block stands in one place.  *)
ChrsAccounted(p, free) ==
  Len(Blocks(p) \o free) = MaxChrs /\ Range(Blocks(p) \o free) = 1 .. MaxChrs

(* In a sequence without repetition the first part shares nothing with the *)
(* rest.                                                                   *)
LEMMA OncePrefix ==
  ASSUME NEW S, NEW s \in Seq(S), NEW t \in Seq(S), Once(s \o t)
  PROVE  Once(s) /\ \A p \in 1 .. Len(s), q \in 1 .. Len(t) : s[p] # t[q]
<1>1. /\ Len(s) \in Nat /\ Len(t) \in Nat /\ Len(s \o t) = Len(s) + Len(t)
      /\ \A p \in 1 .. Len(s) : (s \o t)[p] = s[p]
      /\ \A q \in 1 .. Len(t) : (s \o t)[Len(s) + q] = t[q]
  BY ConcatPlaces, ConcatProperties
<1>2. Once(s)
  BY <1>1 DEF Once
<1>3. ASSUME NEW p \in 1 .. Len(s), NEW q \in 1 .. Len(t), s[p] = t[q] PROVE FALSE
  <2>1. p \in 1 .. Len(s \o t) /\ Len(s) + q \in 1 .. Len(s \o t) /\ p # Len(s) + q
    BY <1>1
  <2>2. (s \o t)[p] = (s \o t)[Len(s) + q]
    BY <1>1, <1>3
  <2> QED
    BY <2>1, <2>2 DEF Once
<1> QED
  BY <1>2, <1>3

(* A block of the characteristic pool stands in one list of the peer, at   *)
(* one place, or in the free list.                                         *)
LEMMA OnePlace ==
  ASSUME NEW p \in KnownPeers, NEW free \in Seq(1 .. MaxChrs), ChrsAccounted(p, free)
  PROVE  /\ Once(Blocks(p))
         /\ \A i \in 1 .. Len(p.svcs) : \A j \in 1 .. Len(p.svcs[i].chrs) :
            \A k \in 1 .. Len(p.svcs) : \A l \in 1 .. Len(p.svcs[k].chrs) :
               p.svcs[i].chrs[j] = p.svcs[k].chrs[l] => i = k /\ j = l
         /\ \A n \in 1 .. Len(free) : free[n] \notin Range(Blocks(p))
<1>0. MaxChrs \in Nat
  BY PoolAssumption
<1>1. Blocks(p) \in Seq(1 .. MaxChrs)
  BY BlocksFacts
<1>2. Blocks(p) \o free \in Seq(1 .. MaxChrs)
  BY <1>1, ConcatProperties
<1>3. Once(Blocks(p) \o free)
  BY <1>0, <1>2, AllOnce DEF ChrsAccounted
<1>4. Once(Blocks(p)) /\ \A m \in 1 .. Len(Blocks(p)), n \in 1 .. Len(free) : Blocks(p)[m] # free[n]
  BY <1>1, <1>3, OncePrefix
<1>5. ASSUME NEW n \in 1 .. Len(free) PROVE free[n] \notin Range(Blocks(p))
  BY <1>1, <1>4 DEF Range
<1>6. ASSUME NEW i \in 1 .. Len(p.svcs), NEW j \in 1 .. Len(p.svcs[i].chrs),
             NEW k \in 1 .. Len(p.svcs), NEW l \in 1 .. Len(p.svcs[k].chrs),
             p.svcs[i].chrs[j] = p.svcs[k].chrs[l]
      PROVE  i = k /\ j = l
  <2> DEFINE ss == ChrLists(p)
  <2>1. /\ ss \in Seq(Seq(1 .. MaxChrs)) /\ Len(ss) = Len(p.svcs)
        /\ ss[i] = p.svcs[i].chrs /\ ss[k] = p.svcs[k].chrs /\ Once(FlattenSeq(ss))
    BY <1>4, ChrListsFacts
  <2>2. i \in 1 .. Len(ss) /\ k \in 1 .. Len(ss) /\ j \in 1 .. Len(ss[i]) /\ l \in 1 .. Len(ss[k])
        /\ ss[i][j] = ss[k][l]
    BY <1>6, <2>1
  <2>3. Once(FlattenSeq(ss))
    BY <2>1
  <2> DEFINE S == 1 .. MaxChrs
  <2>4. ss \in Seq(Seq(S))
    BY <2>1
  <2> HIDE DEF ss, S
  <2> QED
    BY <2>2, <2>3, <2>4, FlattenOnce
<1> QED
  BY <1>4, <1>5, <1>6

-----------------------------------------------------------------------------
(* The steps of the discovery keep the invariant.                          *)

(* The types, and what each pool accounts for.                             *)
LEMMA PeerInvFacts ==
  ASSUME PeerInv
  PROVE  /\ OrderedDatabase(server) /\ peer \in KnownPeers
         /\ chrMem \in [1 .. MaxChrs -> Characteristics]
         /\ freeChrs \in Seq(1 .. MaxChrs) /\ freeSvcs \in Nat /\ freeDscs \in Nat
         /\ proc \in Procedures \cup {NoProc} /\ completion \in {"no", "ok", "failed"}
         /\ freeSvcs + Len(peer.svcs) = MaxSvcs
         /\ ChrsAccounted(peer, freeChrs)
         /\ freeDscs + Len(Descriptors(peer, chrMem)) = MaxDscs
  BY DEF PeerInv, PeerTypeOK, PoolsAccounted, ChrsAccounted

(* The blocks of a peer depend on its lists only.                          *)
LEMMA SameServices ==
  ASSUME NEW p, NEW q, p.svcs = q.svcs
  PROVE  /\ Blocks(p) = Blocks(q)
         /\ \A mem : Descriptors(p, mem) = Descriptors(q, mem)
         /\ \A free : ChrsAccounted(p, free) <=> ChrsAccounted(q, free)
<1>1. Blocks(p) = Blocks(q)
  BY DEF Blocks
<1> QED
  BY <1>1 DEF Descriptors, ChrsAccounted

(* Without a peer no block is in use.                                      *)
LEMMA NothingKnown ==
  /\ NoPeer \in KnownPeers /\ NoPeer.svcs = <<>> /\ ~NoPeer.known
  /\ Blocks(NoPeer) = <<>>
  /\ \A mem : Descriptors(NoPeer, mem) = <<>>
<1>1. NoPeer.svcs = <<>> /\ ~NoPeer.known
  BY DEF NoPeer
<1>2. <<>> \in Seq(KnownServices)
  OBVIOUS
<1>3. NoPeer \in KnownPeers
  BY <1>2 DEF NoPeer, KnownPeers
<1>4. [i \in DOMAIN NoPeer.svcs |-> NoPeer.svcs[i].chrs] = <<>>
  BY <1>1
<1>5. FlattenSeq(<<>>) = <<>>
  BY DEF FlattenSeq
<1>6. Blocks(NoPeer) = <<>>
  BY <1>4, <1>5 DEF Blocks
<1>7. ASSUME NEW mem PROVE Descriptors(NoPeer, mem) = <<>>
  <2>1. [i \in DOMAIN Blocks(NoPeer) |-> mem[Blocks(NoPeer)[i]].dscs] = <<>>
    BY <1>6
  <2> QED
    BY <1>5, <2>1 DEF Descriptors
<1> QED
  BY <1>1, <1>3, <1>6, <1>7

(* A step that keeps the three sums keeps PoolsAccounted.                  *)
LEMMA PoolsAccountedAfter ==
  ASSUME freeSvcs' + Len(peer'.svcs) = MaxSvcs, ChrsAccounted(peer', freeChrs'),
         freeDscs' + Len(Descriptors(peer', chrMem')) = MaxDscs
  PROVE  PoolsAccounted'
  BY DEF PoolsAccounted, ChrsAccounted, Descriptors, Blocks

(* peer_init leaves the pools full and no peer.                            *)
LEMMA DiscoveryBegins == PeerInit => PeerInv
<1> SUFFICES ASSUME PeerInit PROVE PeerInv
  OBVIOUS
<1> USE DEF PeerInit
<1>1. PeerTypeOK
  <2>1. OrderedDatabase(server)
    <3>1. <<>> \in Seq(Services) /\ DOMAIN <<>> = {}
      OBVIOUS
    <3> QED
      BY <3>1 DEF OrderedDatabase
  <2>2. NoChr \in Characteristics
    <3>1. <<>> \in Seq(Nat)
      OBVIOUS
    <3>2. "none" \in Uuids
      BY UuidsAssumption
    <3>3. \A u \in Uuids, d \in Seq(Nat) :
            [def |-> 0, val |-> 0, uuid |-> u, dscs |-> d] \in Characteristics
      BY DEF Characteristics
    <3> QED
      BY <3>1, <3>2, <3>3, Zenon DEF NoChr
  <2>3. chrMem \in [1 .. MaxChrs -> Characteristics]
    BY <2>2
  <2>4. freeChrs \in Seq(1 .. MaxChrs)
    BY PoolAssumption
  <2> QED
    BY <2>1, <2>3, <2>4, NothingKnown, PoolAssumption DEF PeerTypeOK
<1>2. PeerControl
  BY DEF PeerControl
<1>3. PoolsAccounted
  <2>1. freeSvcs + Len(peer.svcs) = MaxSvcs
    BY PoolAssumption, NothingKnown
  <2>2. Blocks(peer) \o freeChrs = freeChrs
    <3>1. freeChrs \in Seq(1 .. MaxChrs)
      BY PoolAssumption
    <3>2. <<>> \o freeChrs = freeChrs
      BY <3>1, ConcatEmptySeq
    <3> QED
      BY <3>2, NothingKnown
  <2>3. Len(freeChrs) = MaxChrs /\ Range(freeChrs) = 1 .. MaxChrs
    BY PoolAssumption DEF Range
  <2>4. freeDscs + Len(Descriptors(peer, chrMem)) = MaxDscs
    BY PoolAssumption, NothingKnown
  <2> QED
    BY <2>1, <2>2, <2>3, <2>4 DEF PoolsAccounted
<1>4. Finding
  BY DEF Finding, NoProc
<1>5. DiscoveryExact
  BY DEF DiscoveryExact
<1> QED
  BY <1>1, <1>2, <1>3, <1>4, <1>5 DEF PeerInv

(* A step of the others keeps the invariant of the discovery.              *)
LEMMA PeerUnchanged ==
  ASSUME PeerInv, UNCHANGED peerVars
  PROVE  PeerInv'
<1> USE DEF peerVars
<1>1. PeerTypeOK'
  BY DEF PeerInv, PeerTypeOK
<1>2. PeerControl'
  BY DEF PeerInv, PeerControl
<1>3. PoolsAccounted'
  BY DEF PeerInv, PoolsAccounted, Blocks, Descriptors
<1>4. Finding'
  <2>1. Finding
    BY DEF PeerInv
  <2>2. FindingServices => FindingServices'
    BY DEF FindingServices, SameService
  <2>3. FindingChrs => FindingChrs'
    BY DEF FindingChrs, SameService, SameChr, Held, AllServices, ChrsFound, AllChrs, NoDscs,
           ServicesBefore
  <2>4. FindingDscs => FindingDscs'
    <3>1. AllKnown => AllKnown'
      BY DEF SameService, SameChr, Held, AllServices, ChrsFound, AllChrs, AllKnown
    <3>2. server' = server /\ peer' = peer /\ proc' = proc /\ chrMem' = chrMem
      OBVIOUS
    <3>3. \A i, j : LastHandle(i, j)' = LastHandle(i, j) /\ Held(i, j)' = Held(i, j)
      BY <3>2 DEF LastHandle, Held
    <3> QED
      BY <3>1, <3>2, <3>3 DEF FindingDscs
  <2> QED
    BY <2>1, <2>2, <2>3, <2>4 DEF Finding
<1>5. DiscoveryExact'
  BY DEF PeerInv, DiscoveryExact
<1> QED
  BY <1>1, <1>2, <1>3, <1>4, <1>5 DEF PeerInv

(* The discovery is over, and not reported as successful.                  *)
LEMMA DiscoveryStops ==
  ASSUME PeerInv, UNCHANGED <<server, chrMem, freeChrs, freeSvcs, freeDscs>>,
         peer' \in KnownPeers, peer'.svcs = peer.svcs, peer'.known,
         proc' = NoProc, completion' \in {"no", "failed"}
  PROVE  PeerInv'
<1>1. PeerTypeOK'
  BY DEF PeerInv, PeerTypeOK
<1>2. PeerControl'
  BY DEF PeerControl
<1>3. PoolsAccounted'
  BY PeerInvFacts, SameServices, PoolsAccountedAfter
<1>4. Finding'
  BY DEF Finding, NoProc
<1>5. DiscoveryExact'
  BY DEF DiscoveryExact
<1> QED
  BY <1>1, <1>2, <1>3, <1>4, <1>5 DEF PeerInv

(* Setting disc_prev_chr_val leaves the lists alone.                       *)
LEMMA PrevValSet ==
  ASSUME NEW p \in KnownPeers, NEW v \in Nat
  PROVE  /\ [p EXCEPT !.prevVal = v] \in KnownPeers
         /\ [p EXCEPT !.prevVal = v].svcs = p.svcs
         /\ [p EXCEPT !.prevVal = v].known = p.known
         /\ [p EXCEPT !.prevVal = v].prevVal = v
  BY DEF KnownPeers

(* Setting cur_svc leaves the lists alone.                                 *)
LEMMA CurSet ==
  ASSUME NEW p \in KnownPeers, NEW k \in Nat
  PROVE  /\ [p EXCEPT !.cur = k] \in KnownPeers
         /\ [p EXCEPT !.cur = k].svcs = p.svcs
         /\ [p EXCEPT !.cur = k].known = p.known
         /\ [p EXCEPT !.cur = k].cur = k
         /\ [p EXCEPT !.cur = k].prevVal = p.prevVal
  BY DEF KnownPeers

(* peer_disc_complete with an error keeps the invariant.                   *)
LEMMA CompleteFails ==
  ASSUME PeerInv, peer.known, Complete("failed"),
         UNCHANGED <<server, chrMem, freeChrs, freeSvcs, freeDscs>>
  PROVE  PeerInv'
<1>1. peer \in KnownPeers
  BY PeerInvFacts
<1>2. peer' \in KnownPeers /\ peer'.svcs = peer.svcs /\ peer'.known = peer.known
  BY <1>1, PrevValSet DEF Complete
<1> QED
  BY <1>2, DiscoveryStops DEF Complete

(* A procedure that ends with an error keeps the invariant.                *)
LEMMA ProcedureFailsKeeps ==
  ASSUME PeerInv, ProcedureFails
  PROVE  PeerInv'
<1>1. peer.known
  BY DEF PeerInv, PeerControl, ProcedureFails
<1> QED
  BY <1>1, CompleteFails DEF ProcedureFails

(* peer_add and peer_disc_all keep the invariant.                          *)
LEMMA AddPeerKeeps ==
  ASSUME PeerInv, ~peer.known, NEW database \in Databases, AddPeer(database)
  PROVE  PeerInv'
<1>1. peer = NoPeer /\ proc = NoProc /\ completion = "no"
  BY PeerInvFacts DEF PeerInv, PeerControl
<1>2. /\ peer'.known /\ peer'.prevVal = 1 /\ peer'.svcs = <<>> /\ peer' \in KnownPeers
  <2>1. peer' = [known |-> TRUE, svcs |-> <<>>, prevVal |-> 1, cur |-> 0]
    BY DEF AddPeer
  <2>2. <<>> \in Seq(KnownServices)
    OBVIOUS
  <2> QED
    BY <2>1, <2>2 DEF KnownPeers
<1>3. proc' = NoProc \/ (proc' = Procedure("svcs", 1, 65535) /\ proc' \in Procedures)
  BY DEF AddPeer, Procedure, Procedures
<1>4. PeerTypeOK'
  <2>1. OrderedDatabase(server')
    BY DatabasesAssumption DEF AddPeer
  <2> QED
    BY <1>2, <1>3, <2>1 DEF PeerInv, PeerTypeOK, AddPeer
<1>5. PeerControl'
  BY <1>1, <1>2 DEF PeerControl, AddPeer
<1>6. PoolsAccounted'
  <2>1. peer'.svcs = peer.svcs
    BY <1>1, <1>2, NothingKnown
  <2>2. UNCHANGED <<chrMem, freeChrs, freeSvcs, freeDscs>>
    BY DEF AddPeer
  <2> QED
    BY <2>1, <2>2, PeerInvFacts, SameServices, PoolsAccountedAfter
<1>7. Finding'
  <2>1. CASE proc' = NoProc
    BY <2>1 DEF Finding, NoProc
  <2>2. CASE proc' = Procedure("svcs", 1, 65535)
    <3>1. proc'.kind = "svcs" /\ proc'.after = 0
      BY <2>2 DEF Procedure
    <3>2. Len(server') \in Nat
      BY DatabasesAssumption DEF AddPeer, OrderedDatabase
    <3>3. Len(peer'.svcs) = 0 /\ DOMAIN peer'.svcs = {}
      BY <1>2
    <3>4. FindingServices'
      BY <1>2, <3>1, <3>2, <3>3 DEF FindingServices
    <3> QED
      BY <3>1, <3>4 DEF Finding
  <2> QED
    BY <1>3, <2>1, <2>2
<1>8. DiscoveryExact'
  BY <1>1 DEF DiscoveryExact, AddPeer
<1> QED
  BY <1>4, <1>5, <1>6, <1>7, <1>8 DEF PeerInv

(* A sequence turned round has the same elements.                          *)
LEMMA RangeOfReverse ==
  ASSUME NEW S, NEW s \in Seq(S)
  PROVE  Reverse(s) \in Seq(S) /\ Len(Reverse(s)) = Len(s) /\ Range(Reverse(s)) = Range(s)
<1>1. Len(s) \in Nat /\ DOMAIN s = 1 .. Len(s) /\ \A i \in 1 .. Len(s) : s[i] \in S
  OBVIOUS
<1>2. \A i \in 1 .. Len(s) : (Len(s) - i) + 1 \in 1 .. Len(s) /\ (Len(s) - ((Len(s) - i) + 1)) + 1 = i
  BY <1>1
<1>3. Reverse(s) \in Seq(S) /\ Len(Reverse(s)) = Len(s)
  BY <1>1, <1>2 DEF Reverse
<1>4. DOMAIN Reverse(s) = 1 .. Len(s) /\ \A i \in 1 .. Len(s) : Reverse(s)[i] = s[(Len(s) - i) + 1]
  BY DEF Reverse
<1>5. ASSUME NEW i \in 1 .. Len(s) PROVE s[i] \in Range(Reverse(s)) /\ Reverse(s)[i] \in Range(s)
  <2> DEFINE k == (Len(s) - i) + 1
  <2>1. k \in 1 .. Len(s) /\ Reverse(s)[i] = s[k] /\ Reverse(s)[k] = s[i]
    BY <1>2, <1>4
  <2> HIDE DEF k
  <2> QED
    BY <1>1, <1>4, <2>1 DEF Range
<1> QED
  BY <1>1, <1>3, <1>4, <1>5 DEF Range

(* peer_delete gives every block back.                                     *)
LEMMA DeletePeerKeeps ==
  ASSUME PeerInv, proc = NoProc, completion = "no", DeletePeer, UNCHANGED <<proc, completion, server>>
  PROVE  PeerInv'
<1> DEFINE blocks == Blocks(peer)
<1>1. peer' = NoPeer /\ freeChrs' = Reverse(blocks) \o freeChrs /\ freeSvcs' = freeSvcs + Len(peer.svcs)
      /\ freeDscs' = freeDscs + Len(Descriptors(peer, chrMem))
      /\ chrMem' = [b \in DOMAIN chrMem |->
                     IF b \in Range(blocks) THEN [chrMem[b] EXCEPT !.dscs = <<>>] ELSE chrMem[b]]
  BY DEF DeletePeer, ForgetServices
<1>2. /\ blocks \in Seq(1 .. MaxChrs) /\ freeChrs \in Seq(1 .. MaxChrs)
      /\ Len(blocks \o freeChrs) = MaxChrs /\ Range(blocks \o freeChrs) = 1 .. MaxChrs
  BY PeerInvFacts, BlocksFacts DEF ChrsAccounted
<1>3. peer \in KnownPeers /\ chrMem \in [1 .. MaxChrs -> Characteristics]
  BY PeerInvFacts
<1>4. Len(peer.svcs) \in Nat /\ Len(Descriptors(peer, chrMem)) \in Nat
  BY <1>3, PeerFacts, DscListsFacts
<1> DEFINE S == 1 .. MaxChrs
<1> HIDE DEF blocks
<1>5. /\ freeChrs' \in Seq(S) /\ Len(freeChrs') = MaxChrs /\ Range(freeChrs') = S
  <2> HIDE DEF S
  <2>0. blocks \in Seq(S) /\ freeChrs \in Seq(S)
    BY <1>2 DEF S
  <2>1. /\ Reverse(blocks) \in Seq(S) /\ Len(Reverse(blocks)) = Len(blocks)
        /\ Range(Reverse(blocks)) = Range(blocks)
    BY <2>0, RangeOfReverse
  <2> DEFINE r == Reverse(blocks)
  <2> HIDE DEF r
  <2>2. /\ r \o freeChrs \in Seq(S) /\ Len(r \o freeChrs) = Len(r) + Len(freeChrs)
        /\ Range(r \o freeChrs) = Range(r) \cup Range(freeChrs)
    <3>1. r \in Seq(S)
      BY <2>1 DEF r
    <3> QED
      BY <2>0, <3>1, ConcatProperties, RangeConcatenation
  <2>3. /\ Len(blocks \o freeChrs) = Len(blocks) + Len(freeChrs)
        /\ Range(blocks \o freeChrs) = Range(blocks) \cup Range(freeChrs)
    BY <2>0, ConcatProperties, RangeConcatenation
  <2>4. Range(blocks \o freeChrs) = S /\ Len(blocks \o freeChrs) = MaxChrs
    BY <1>2 DEF S
  <2> QED
    BY <1>1, <2>1, <2>2, <2>3, <2>4 DEF r
<1>6. chrMem' \in [1 .. MaxChrs -> Characteristics]
  <2>1. \A b \in 1 .. MaxChrs : [chrMem[b] EXCEPT !.dscs = <<>>] \in Characteristics
    <3>1. <<>> \in Seq(Nat)
      OBVIOUS
    <3>2. ASSUME NEW c \in Characteristics PROVE [c EXCEPT !.dscs = <<>>] \in Characteristics
      BY <3>1 DEF Characteristics
    <3> QED
      BY <1>3, <3>2
  <2> QED
    BY <1>1, <1>3, <2>1
<1>7. PeerTypeOK'
  BY <1>1, <1>4, <1>5, <1>6, NothingKnown DEF PeerInv, PeerTypeOK
<1>8. PeerControl'
  BY <1>1 DEF PeerControl
<1>9. PoolsAccounted'
  <2>1. freeSvcs' + Len(peer'.svcs) = MaxSvcs
    <3>1. Len(peer'.svcs) = 0 /\ freeSvcs \in Nat /\ freeSvcs + Len(peer.svcs) = MaxSvcs
      BY <1>1, NothingKnown, PeerInvFacts
    <3> QED
      BY <1>1, <1>4, <3>1
  <2>2. ChrsAccounted(peer', freeChrs')
    <3>1. <<>> \o freeChrs' = freeChrs'
      BY <1>5, ConcatEmptySeq
    <3>2. Blocks(peer') \o freeChrs' = freeChrs'
      BY <1>1, <3>1, NothingKnown
    <3> QED
      BY <1>5, <3>2 DEF ChrsAccounted
  <2>3. freeDscs' + Len(Descriptors(peer', chrMem')) = MaxDscs
    <3>1. Len(Descriptors(peer', chrMem')) = 0 /\ freeDscs \in Nat
          /\ freeDscs + Len(Descriptors(peer, chrMem)) = MaxDscs
      BY <1>1, NothingKnown, PeerInvFacts
    <3> QED
      BY <1>1, <1>4, <3>1
  <2> QED
    BY <2>1, <2>2, <2>3, PoolsAccountedAfter
<1>10. Finding'
  BY DEF Finding, NoProc
<1>11. DiscoveryExact'
  BY DEF DiscoveryExact
<1> QED
  BY <1>7, <1>8, <1>9, <1>10, <1>11 DEF PeerInv

(* What the peripheral reports.                                            *)
LEMMA ServerChrsFacts ==
  ASSUME OrderedDatabase(server)
  PROVE  /\ ServerChrs \in Seq(Characteristics)
         /\ Range(ServerChrs) = {ServerChrs[n] : n \in DOMAIN ServerChrs}
         /\ \A i \in 1 .. Len(server) : \A j \in 1 .. Len(server[i].chrs) :
              server[i].chrs[j] \in Range(ServerChrs)
         /\ \A c \in Range(ServerChrs) :
              \E i \in 1 .. Len(server) : \E j \in 1 .. Len(server[i].chrs) : c = server[i].chrs[j]
<1> DEFINE ss == [i \in DOMAIN server |-> server[i].chrs]
           S == Characteristics
<1>1. server \in Seq(Services) /\ DOMAIN server = 1 .. Len(server) /\ Len(server) \in Nat
  BY DEF OrderedDatabase
<1>2. ASSUME NEW i \in 1 .. Len(server) PROVE server[i].chrs \in Seq(S)
  BY DatabaseFacts
<1>3. ss = [i \in 1 .. Len(server) |-> server[i].chrs]
  BY <1>1
<1>4. ss \in Seq(Seq(S)) /\ Len(ss) = Len(server)
  BY <1>1, <1>2, <1>3
<1>5. \A i \in 1 .. Len(server) : ss[i] = server[i].chrs
  BY <1>3
<1>6. ServerChrs = FlattenSeq(ss)
  BY DEF ServerChrs
<1> HIDE DEF ss, S
<1>7. Range(ServerChrs) = {x \in S : \E i \in 1 .. Len(ss) : \E j \in 1 .. Len(ss[i]) : x = ss[i][j]}
  BY <1>4, <1>6, FlattenRange
<1>8. ServerChrs \in Seq(S)
  BY <1>4, <1>6, FlattenLaid
<1>9. ASSUME NEW i \in 1 .. Len(server), NEW j \in 1 .. Len(server[i].chrs)
      PROVE  server[i].chrs[j] \in Range(ServerChrs)
  <2>1. server[i].chrs[j] \in S
    BY <1>2, ElementOfSeq
  <2> QED
    BY <1>4, <1>5, <1>7, <2>1
<1>10. ASSUME NEW c \in Range(ServerChrs)
       PROVE  \E i \in 1 .. Len(server) : \E j \in 1 .. Len(server[i].chrs) : c = server[i].chrs[j]
  <2>1. PICK i \in 1 .. Len(ss) : \E j \in 1 .. Len(ss[i]) : c = ss[i][j]
    BY <1>7
  <2>2. PICK j \in 1 .. Len(ss[i]) : c = ss[i][j]
    BY <2>1
  <2>3. i \in 1 .. Len(server) /\ ss[i] = server[i].chrs
    BY <1>4, <1>5
  <2> QED
    BY <2>2, <2>3
<1> QED
  BY <1>8, <1>9, <1>10 DEF Range, S

(* Later services start later.                                             *)
LEMMA StartsGrow ==
  ASSUME NEW db, OrderedDatabase(db), NEW k \in 1 .. Len(db), NEW i \in 1 .. k - 1
  PROVE  db[i].start < db[k].start
<1>1. i \in 1 .. Len(db)
  BY DatabaseFacts
<1>2. db[i].end < db[k].start
  BY ServicesApart
<1>3. db[i].start <= db[i].end /\ db[i].start \in Nat /\ db[i].end \in Nat /\ db[k].start \in Nat
  BY <1>1, DatabaseFacts
<1> DEFINE a == db[i].start
           b == db[i].end
           c == db[k].start
<1>4. b < c /\ a <= b /\ a \in Nat /\ b \in Nat /\ c \in Nat
  BY <1>2, <1>3
<1> HIDE DEF a, b, c
<1>5. a < c
  BY <1>4
<1> QED
  BY <1>5 DEF a, c

(* Handles are natural numbers.                                            *)
LEMMA UnreportedNumbers ==
  ASSUME PeerInv
  PROVE  Unreported \subseteq Nat
<1>1. CASE proc.kind = "svcs"
  <2>1. OrderedDatabase(server) /\ DOMAIN server = 1 .. Len(server)
    BY PeerInvFacts DEF OrderedDatabase
  <2>2. \A i \in 1 .. Len(server) : server[i].start \in Nat
    BY <2>1, DatabaseFacts
  <2> QED
    BY <1>1, <2>1, <2>2 DEF Unreported, Reportable
<1>2. CASE proc.kind = "chrs"
  <2>1. proc.lo \in Nat /\ proc.hi \in Nat
    BY <1>2, PeerInvFacts DEF Procedures, NoProc
  <2>2. Reportable \subseteq proc.lo .. proc.hi
    BY <1>2 DEF Reportable
  <2>3. proc.lo .. proc.hi \subseteq Nat
    BY <2>1
  <2>4. Reportable \subseteq Nat
    BY <2>2, <2>3, Zenon
  <2> QED
    BY <2>4 DEF Unreported
<1>3. CASE proc.kind = "dscs"
  <2>1. proc.lo \in Nat /\ proc.hi \in Nat
    BY <1>3, PeerInvFacts DEF Procedures, NoProc
  <2>2. Reportable \subseteq proc.lo + 1 .. proc.hi
    BY <1>3 DEF Reportable
  <2>3. proc.lo + 1 .. proc.hi \subseteq Nat
    BY <2>1
  <2>4. Reportable \subseteq Nat
    BY <2>2, <2>3, Zenon
  <2> QED
    BY <2>4 DEF Unreported
<1>4. CASE proc = NoProc
  <2>1. Reportable = {}
    BY <1>4 DEF Reportable, NoProc
  <2> QED
    BY <2>1 DEF Unreported
<1>5. proc \in Procedures => proc.kind \in {"svcs", "chrs", "dscs"}
  BY DEF Procedures
<1> QED
  BY <1>1, <1>2, <1>3, <1>4, <1>5, PeerInvFacts

(* The next to be reported.                                                *)
NextReported(h) == h \in Unreported /\ \A y \in Unreported : h <= y

(* The host reports handles in order.                                      *)
LEMMA LeastReported ==
  ASSUME PeerInv, Unreported # {}
  PROVE  NextReported(CHOOSE x \in Unreported : \A y \in Unreported : x <= y)
<1>1. \E x \in Unreported : \A y \in Unreported : x <= y
  BY UnreportedNumbers, LeastNatural
<1> QED
  BY <1>1 DEF NextReported

(* Behind the last entry both forms of insertion append.                   *)
LEMMA InsertLast ==
  ASSUME NEW S, NEW s \in Seq(S), NEW x \in S
  PROVE  /\ InsertKeeping(s, Len(s), x) = Append(s, x)
         /\ InsertDropping(s, Len(s), x) = Append(s, x)
<1>1. Len(s) \in Nat /\ SubSeq(s, 1, Len(s)) = s
  BY SubSeqFull
<1>2. SubSeq(s, Len(s) + 1, Len(s)) = <<>>
  BY <1>1, SubSeqEmpty
<1>3. <<x>> \in Seq(S)
  OBVIOUS
<1>4. Append(s, x) = s \o <<x>> /\ s \o <<x>> \in Seq(S)
  BY <1>3, AppendIsConcat, ConcatProperties
<1>5. (s \o <<x>>) \o <<>> = s \o <<x>>
  BY <1>4, ConcatEmptySeq
<1>6. InsertKeeping(s, Len(s), x) = Append(s, x)
  BY <1>1, <1>2, <1>4, <1>5 DEF InsertKeeping
<1>7. CASE Len(s) = 0
  <2>1. s = <<>> /\ <<x>> \o s = <<x>> /\ s \o <<x>> = <<x>>
    BY <1>3, <1>7, ConcatEmptySeq
  <2> QED
    BY <1>4, <1>6, <1>7, <2>1 DEF InsertDropping
<1>8. CASE Len(s) # 0
  BY <1>1, <1>4, <1>6, <1>8 DEF InsertDropping
<1> QED
  BY <1>7, <1>8

(* An interval from 1 has as many elements as its end.                     *)
LEMMA AllCounted ==
  ASSUME NEW m \in Nat, NEW T, T = 1 .. m
  PROVE  Cardinality(T) = m
<1>1. Cardinality(1 .. m) = IF 1 > m THEN 0 ELSE m - 1 + 1
  BY FS_Interval
<1> QED
  BY <1>1

(* A peer whose services have no characteristics holds no blocks.          *)
LEMMA NoBlocks ==
  ASSUME NEW p \in KnownPeers, \A i \in 1 .. Len(p.svcs) : p.svcs[i].chrs = <<>>
  PROVE  Blocks(p) = <<>> /\ \A mem \in [1 .. MaxChrs -> Characteristics] : Descriptors(p, mem) = <<>>
<1>1. Blocks(p) = <<>>
  <2> DEFINE ss == ChrLists(p)
             S == 1 .. MaxChrs
  <2>1. ss \in Seq(Seq(S)) /\ (\A i \in 1 .. Len(ss) : ss[i] = <<>>) /\ Blocks(p) = FlattenSeq(ss)
    BY ChrListsFacts
  <2> HIDE DEF ss, S
  <2> QED
    BY <2>1, FlattenNothing
<1>2. ASSUME NEW mem \in [1 .. MaxChrs -> Characteristics] PROVE Descriptors(p, mem) = <<>>
  <2>1. \A i \in 1 .. Len(p.svcs) : Len(p.svcs[i].chrs) = 0
    OBVIOUS
  <2> QED
    BY <2>1, NoDescriptors
<1> QED
  BY <1>1, <1>2

(* The next service is the one behind those that are known.                *)
LEMMA NextService ==
  ASSUME PeerInv, proc.kind = "svcs", NEW h, NextReported(h)
  PROVE  LET m == Len(peer.svcs)
         IN /\ m \in Nat /\ m + 1 \in 1 .. Len(server) /\ h = server[m + 1].start
            /\ (CHOOSE x \in Range(server) : x.start = h) = server[m + 1]
            /\ \A i \in 1 .. m : peer.svcs[i].start < h
<1> DEFINE m == Len(peer.svcs)
<1>1. OrderedDatabase(server) /\ DOMAIN server = 1 .. Len(server) /\ Len(server) \in Nat
  BY PeerInvFacts DEF OrderedDatabase
<1>2. FindingServices
  BY DEF PeerInv, Finding
<1>3. m \in Nat /\ m <= Len(server) /\ DOMAIN peer.svcs = 1 .. m
  BY <1>2, PeerInvFacts, PeerFacts DEF FindingServices
<1>4. PICK n \in 1 .. Len(server) : h = server[n].start
  BY <1>1 DEF NextReported, Unreported, Reportable
<1>5. proc.after = IF m = 0 THEN 0 ELSE server[m].start
  BY <1>2 DEF FindingServices
<1>6. h > proc.after
  BY DEF NextReported, Unreported
<1>7. ~(n < m)
  <2> SUFFICES ASSUME n < m PROVE FALSE
    OBVIOUS
  <2>1. m \in 1 .. Len(server) /\ n \in 1 .. m - 1
    BY <1>3, <1>4
  <2>2. server[n].start < server[m].start /\ server[n].start \in Nat /\ server[m].start \in Nat
    BY <1>1, <2>1, StartsGrow, DatabaseFacts
  <2>3. proc.after = server[m].start
    BY <1>3, <1>5, <2>1
  <2> QED
    BY <1>4, <1>6, <2>2, <2>3
<1>8. n # m
  <2> SUFFICES ASSUME n = m PROVE FALSE
    OBVIOUS
  <2>1. h = proc.after /\ h \in Nat
    BY <1>1, <1>3, <1>4, <1>5, DatabaseFacts
  <2> QED
    BY <1>6, <2>1
<1>9. m + 1 \in 1 .. Len(server) /\ n \in m + 1 .. Len(server)
  BY <1>1, <1>3, <1>4, <1>7, <1>8
<1>10. server[m + 1].start \in Unreported
  <2>1. server[m + 1].start \in Reportable
    BY <1>1, <1>9 DEF Reportable
  <2>2. server[m + 1].start > proc.after
    <3>1. CASE m = 0
      <4>1. 0 < server[m + 1].start /\ server[m + 1].start \in Nat
        BY <1>1, <1>9, DatabaseFacts
      <4> QED
        BY <1>5, <3>1, <4>1
    <3>2. CASE m # 0
      <4>1. m \in 1 .. Len(server) /\ m \in 1 .. (m + 1) - 1
        BY <1>3, <3>2
      <4>2. server[m].start < server[m + 1].start
        BY <1>1, <1>9, <4>1, StartsGrow
      <4>3. server[m].start \in Nat /\ server[m + 1].start \in Nat
        BY <1>1, <1>9, <4>1, DatabaseFacts
      <4>4. proc.after = server[m].start
        BY <1>5, <3>2
      <4> QED
        BY <4>2, <4>3, <4>4
    <3> QED
      BY <3>1, <3>2
  <2> QED
    BY <2>1, <2>2 DEF Unreported
<1>11. n = m + 1
  <2> SUFFICES ASSUME n # m + 1 PROVE FALSE
    OBVIOUS
  <2>1. m + 1 \in 1 .. n - 1
    BY <1>3, <1>9
  <2>2. server[m + 1].start < server[n].start /\ server[n].start \in Nat /\ server[m + 1].start \in Nat
    BY <1>1, <1>9, <2>1, StartsGrow, DatabaseFacts
  <2>3. h <= server[m + 1].start
    BY <1>10 DEF NextReported
  <2> QED
    BY <1>4, <2>2, <2>3
<1>12. h = server[m + 1].start
  BY <1>4, <1>11
<1>13. \A i \in 1 .. Len(server) : server[i].start = h => i = m + 1
  <2> SUFFICES ASSUME NEW i \in 1 .. Len(server), server[i].start = h PROVE i = m + 1
    OBVIOUS
  <2>1. server[i].start \in Nat /\ server[m + 1].start \in Nat /\ server[i].start = server[m + 1].start
    BY <1>1, <1>9, <1>12, DatabaseFacts
  <2>2. ~(i < m + 1)
    <3>1. i < m + 1 => i \in 1 .. (m + 1) - 1
      BY <1>3
    <3>2. i < m + 1 => server[i].start < server[m + 1].start
      BY <1>1, <1>9, <3>1, StartsGrow
    <3> QED
      BY <2>1, <3>2
  <2>3. ~(m + 1 < i)
    <3>1. m + 1 < i => m + 1 \in 1 .. i - 1
      BY <1>3
    <3>2. m + 1 < i => server[m + 1].start < server[i].start
      BY <1>1, <1>9, <3>1, StartsGrow
    <3> QED
      BY <2>1, <3>2
  <2> QED
    BY <1>3, <2>2, <2>3
<1>14. (CHOOSE x \in Range(server) : x.start = h) = server[m + 1]
  <2>1. Range(server) = {server[i] : i \in 1 .. Len(server)}
    BY <1>1 DEF Range
  <2>2. \A x \in Range(server) : x.start = h => x = server[m + 1]
    BY <1>13, <2>1
  <2>3. server[m + 1] \in Range(server) /\ server[m + 1].start = h
    BY <1>9, <1>12, <2>1
  <2> QED
    BY <2>2, <2>3
<1>15. ASSUME NEW i \in 1 .. m PROVE peer.svcs[i].start < h
  <2>1. peer.svcs[i].start = server[i].start
    BY <1>2, <1>3 DEF FindingServices, SameService
  <2>2. i \in 1 .. (m + 1) - 1
    BY <1>3
  <2>3. server[i].start < server[m + 1].start
    BY <1>1, <1>9, <2>2, StartsGrow
  <2> QED
    BY <1>12, <2>1, <2>3
<1> QED
  BY <1>3, <1>9, <1>12, <1>14, <1>15

(* peer_svc_disced keeps the invariant.                                    *)
LEMMA SvcFoundKeeps ==
  ASSUME PeerInv, proc.kind = "svcs", NEW h, NextReported(h), SvcFound(h), UNCHANGED server
  PROVE  PeerInv'
<1>1. peer \in KnownPeers /\ proc # NoProc /\ peer.known /\ completion = "no" /\ proc \in Procedures
  BY PeerInvFacts DEF PeerInv, PeerControl, NoProc
<1>2. CASE freeSvcs = 0
  BY <1>1, <1>2, CompleteFails DEF SvcFound
<1>3. CASE freeSvcs # 0
  <2> DEFINE m == Len(peer.svcs)
             s == server[m + 1]
             new == [start |-> s.start, end |-> s.end, uuid |-> s.uuid, chrs |-> <<>>]
  <2>1. /\ m \in Nat /\ m + 1 \in 1 .. Len(server) /\ h = s.start
        /\ (CHOOSE x \in Range(server) : x.start = h) = s
        /\ \A i \in 1 .. m : peer.svcs[i].start < h
    BY NextService
  <2>2. /\ OrderedDatabase(server) /\ s.start \in Nat /\ s.end \in Nat /\ s.uuid \in Uuids
        /\ Len(server) \in Nat /\ DOMAIN server = 1 .. Len(server)
    BY <2>1, PeerInvFacts, DatabaseFacts
  <2>3. new \in KnownServices
    <3>1. <<>> \in Seq(1 .. MaxChrs)
      OBVIOUS
    <3> QED
      BY <2>2, <3>1 DEF KnownServices
  <2>4. peer.svcs \in Seq(KnownServices) /\ DOMAIN peer.svcs = 1 .. m
    BY <1>1, PeerFacts
  <2>5. Before(peer.svcs, LAMBDA x : x.start, h) = m
    <3> DEFINE T == {i \in DOMAIN peer.svcs : \A j \in 1 .. i : peer.svcs[j].start < h}
    <3>1. T = 1 .. m
      BY <2>1, <2>4
    <3>2. Cardinality(T) = m
      <4> HIDE DEF T
      <4> QED
        BY <2>1, <3>1, AllCounted
    <3> QED
      BY <3>2 DEF Before
  <2>6. /\ peer' = [peer EXCEPT !.svcs = InsertKeeping(peer.svcs, m, new)]
        /\ freeSvcs' = freeSvcs - 1 /\ proc' = [proc EXCEPT !.after = h]
        /\ UNCHANGED <<chrMem, freeChrs, freeDscs, completion>>
    <3> HIDE DEF m
    <3> QED
      BY <1>3, <2>1, <2>5 DEF SvcFound
  <2>7. InsertKeeping(peer.svcs, m, new) = Append(peer.svcs, new)
    <3> HIDE DEF new
    <3> QED
      BY <2>3, <2>4, InsertLast
  <2>8. /\ Append(peer.svcs, new) \in Seq(KnownServices) /\ Len(Append(peer.svcs, new)) = m + 1
        /\ \A i \in 1 .. m : Append(peer.svcs, new)[i] = peer.svcs[i]
        /\ Append(peer.svcs, new)[m + 1] = new
    <3> HIDE DEF new
    <3> QED
      BY <2>3, <2>4, AppendProperties
  <2> HIDE DEF new
  <2>9. /\ peer' \in KnownPeers /\ peer'.svcs = Append(peer.svcs, new) /\ peer'.known = peer.known
        /\ peer'.prevVal = peer.prevVal
    <3> DEFINE x == Append(peer.svcs, new)
    <3>1. x \in Seq(KnownServices) /\ peer' = [peer EXCEPT !.svcs = x]
      BY <2>6, <2>7, <2>8
    <3> HIDE DEF x
    <3>2. /\ peer' \in KnownPeers /\ peer'.svcs = x /\ peer'.known = peer.known
          /\ peer'.prevVal = peer.prevVal
      BY <1>1, <3>1 DEF KnownPeers
    <3> QED
      BY <3>2 DEF x
  <2>10. /\ proc' \in Procedures /\ proc'.kind = "svcs" /\ proc'.after = h
    BY <1>1, <2>1, <2>2, <2>6 DEF Procedures
  <2>11. FindingServices /\ peer.prevVal = 1
    BY DEF PeerInv, Finding, FindingServices
  <2>12. \A i \in 1 .. m : peer.svcs[i].chrs = <<>> /\ SameService(i)
    BY <2>4, <2>11 DEF FindingServices
  <2>13. /\ Len(peer'.svcs) = m + 1 /\ DOMAIN peer'.svcs = 1 .. m + 1
         /\ \A i \in 1 .. m : peer'.svcs[i] = peer.svcs[i]
         /\ peer'.svcs[m + 1] = new
    BY <2>8, <2>9
  <2>14. \A i \in 1 .. m + 1 : peer'.svcs[i].chrs = <<>>
    <3>1. peer'.svcs[m + 1].chrs = <<>>
      BY <2>13 DEF new
    <3>2. \A i \in 1 .. m : peer'.svcs[i].chrs = <<>>
      BY <2>12, <2>13
    <3>3. \A i \in 1 .. m + 1 : i = m + 1 \/ i \in 1 .. m
      BY <2>1
    <3> QED
      BY <3>1, <3>2, <3>3
  <2>15. PeerTypeOK'
    <3>1. freeSvcs - 1 \in Nat
      BY <1>3, PeerInvFacts
    <3> QED
      BY <2>6, <2>9, <2>10, <3>1 DEF PeerInv, PeerTypeOK
  <2>16. PeerControl'
    BY <1>1, <2>6, <2>9 DEF PeerControl
  <2>17. PoolsAccounted'
    <3>1. freeSvcs' + Len(peer'.svcs) = MaxSvcs
      BY <2>1, <2>6, <2>13, PeerInvFacts, SMTT(30)
    <3>2. Blocks(peer) = <<>> /\ Descriptors(peer, chrMem) = <<>>
      BY <1>1, <2>12, NoBlocks, PeerInvFacts
    <3>3. Blocks(peer') = <<>> /\ Descriptors(peer', chrMem) = <<>>
      BY <2>9, <2>13, <2>14, NoBlocks, PeerInvFacts
    <3>4. ChrsAccounted(peer', freeChrs)
      BY <3>2, <3>3, PeerInvFacts DEF ChrsAccounted
    <3>5. freeDscs + Len(Descriptors(peer', chrMem)) = MaxDscs
      BY <3>2, <3>3, PeerInvFacts
    <3> QED
      BY <2>6, <3>1, <3>4, <3>5, PoolsAccountedAfter
  <2>18. Finding'
    <3>1. ASSUME NEW i \in 1 .. m + 1 PROVE SameService(i)'
      <4>1. CASE i \in 1 .. m
        BY <2>12, <2>13, <4>1 DEF SameService
      <4>2. CASE i = m + 1
        BY <2>13, <4>2 DEF SameService, new
      <4> QED
        BY <2>1, <4>1, <4>2
    <3>2. proc'.after = IF Len(peer'.svcs) = 0 THEN 0 ELSE server'[Len(peer'.svcs)].start
      BY <2>1, <2>10, <2>13
    <3>3. FindingServices'
      <4>1. peer'.prevVal = 1 /\ Len(peer'.svcs) <= Len(server')
        BY <2>1, <2>2, <2>9, <2>11, <2>13
      <4> QED
        BY <2>13, <2>14, <3>1, <3>2, <4>1 DEF FindingServices
    <3> QED
      BY <2>10, <3>3 DEF Finding
  <2>19. DiscoveryExact'
    BY <1>1, <2>6 DEF DiscoveryExact
  <2> QED
    BY <2>15, <2>16, <2>17, <2>18, <2>19 DEF PeerInv
<1> QED
  BY <1>2, <1>3

(* The handles of characteristics grow with their places.                  *)
LEMMA DefsGrow ==
  ASSUME NEW db, OrderedDatabase(db),
         NEW i \in 1 .. Len(db), NEW j \in 1 .. Len(db[i].chrs),
         NEW k \in 1 .. Len(db), NEW l \in 1 .. Len(db[k].chrs),
         i < k \/ (i = k /\ j < l)
  PROVE  /\ db[i].chrs[j].def < db[k].chrs[l].def /\ db[i].chrs[j].val < db[k].chrs[l].def
         /\ db[i].chrs[j].val < db[k].chrs[l].val
<1> DEFINE c == db[i].chrs[j]
           d == db[k].chrs[l]
<1>1. /\ c.def \in Nat /\ c.val \in Nat /\ c.def < c.val
      /\ d.def \in Nat /\ d.val \in Nat /\ d.def < d.val
  BY CharacteristicFacts DEF InHandleOrder
<1>2. c.val < d.def
  BY EarlierPrecedes DEF ChrPrecedes
<1> HIDE DEF c, d
<1>3. c.def < d.def /\ c.val < d.def /\ c.val < d.val
  BY <1>1, <1>2
<1> QED
  BY <1>3 DEF c, d

(* Every characteristic lies between the handles of its service alone.     *)
LEMMA OwnService ==
  ASSUME NEW db, OrderedDatabase(db),
         NEW i \in 1 .. Len(db), NEW j \in 1 .. Len(db[i].chrs), NEW k \in 1 .. Len(db),
         db[k].start <= db[i].chrs[j].def, db[i].chrs[j].def <= db[k].end
  PROVE  i = k
<1> DEFINE d == db[i].chrs[j].def
           v == db[i].chrs[j].val
           s == db[i].start
           e == db[i].end
           ks == db[k].start
           ke == db[k].end
<1>1. s < d /\ d < v /\ v <= e
  BY CharacteristicFacts DEF InHandleOrder, WithinService
<1>2. s \in Nat /\ d \in Nat /\ v \in Nat /\ e \in Nat /\ ks \in Nat /\ ke \in Nat
  BY DatabaseFacts, CharacteristicFacts
<1>3. i < k => e < ks
  <2>1. i < k => i \in 1 .. k - 1
    OBVIOUS
  <2> QED
    BY <2>1, ServicesApart
<1>4. k < i => ke < s
  <2>1. k < i => k \in 1 .. i - 1
    OBVIOUS
  <2> QED
    BY <2>1, ServicesApart
<1>5. ks <= d /\ d <= ke
  OBVIOUS
<1> HIDE DEF d, v, s, e, ks, ke
<1>6. ~(i < k) /\ ~(k < i)
  BY <1>1, <1>2, <1>3, <1>4, <1>5
<1> QED
  BY <1>6

(* The next characteristic is the one behind those of the current service. *)
LEMMA NextChr ==
  ASSUME PeerInv, proc.kind = "chrs", NEW h, NextReported(h)
  PROVE  LET s == peer.cur
             m == Len(peer.svcs[s].chrs)
         IN /\ s \in 1 .. Len(server) /\ s \in 1 .. Len(peer.svcs)
            /\ m \in Nat /\ m + 1 \in 1 .. Len(server[s].chrs)
            /\ h = server[s].chrs[m + 1].def
            /\ (CHOOSE x \in Range(ServerChrs) : x.def = h) = server[s].chrs[m + 1]
            /\ \A j \in 1 .. m : Held(s, j).val < h
<1> DEFINE s == peer.cur
           m == Len(peer.svcs[s].chrs)
<1>1. OrderedDatabase(server) /\ DOMAIN server = 1 .. Len(server) /\ Len(server) \in Nat
  BY PeerInvFacts DEF OrderedDatabase
<1>2. FindingChrs
  BY DEF PeerInv, Finding
<1>3. s \in 1 .. Len(server) /\ Len(peer.svcs) = Len(server)
  BY <1>1, <1>2 DEF FindingChrs, AllServices
<1>4. m \in Nat /\ m <= Len(server[s].chrs) /\ \A j \in 1 .. m : SameChr(s, j)
  BY <1>2, <1>3, PeerInvFacts, PeerFacts DEF FindingChrs, ChrsFound
<1>5. PICK i \in 1 .. Len(server) : \E j \in 1 .. Len(server[i].chrs) : h = server[i].chrs[j].def
  <2>1. h \in {ServerChrs[n].def : n \in DOMAIN ServerChrs}
    BY DEF NextReported, Unreported, Reportable
  <2>2. PICK n \in DOMAIN ServerChrs : h = ServerChrs[n].def
    BY <2>1
  <2>3. ServerChrs[n] \in Range(ServerChrs)
    BY <1>1, ServerChrsFacts
  <2> DEFINE c == ServerChrs[n]
  <2>4. c \in Range(ServerChrs) /\ h = c.def
    BY <2>2, <2>3
  <2> HIDE DEF c
  <2> QED
    BY <1>1, <2>4, ServerChrsFacts
<1>6. PICK l \in 1 .. Len(server[i].chrs) : h = server[i].chrs[l].def
  BY <1>5
<1>7. i = s
  <2>1. h \in proc.lo .. proc.hi /\ proc.lo = server[s].start /\ proc.hi = server[s].end
    BY <1>2 DEF NextReported, Unreported, Reportable, FindingChrs
  <2>2. server[s].start <= server[i].chrs[l].def /\ server[i].chrs[l].def <= server[s].end
    BY <1>6, <2>1
  <2> QED
    BY <1>1, <1>3, <2>2, OwnService
<1> DEFINE chrs == server[s].chrs
<1>8. l \in 1 .. Len(chrs) /\ h = chrs[l].def /\ Len(chrs) \in Nat
  BY <1>1, <1>3, <1>6, <1>7, DatabaseFacts
<1>9. /\ \A j \in 1 .. Len(chrs) : chrs[j].def \in Nat /\ chrs[j].val \in Nat
  BY <1>1, <1>3, CharacteristicFacts
<1>10. \A j \in 1 .. Len(chrs) : \A k \in 1 .. Len(chrs) :
         j < k => chrs[j].def < chrs[k].def /\ chrs[j].val < chrs[k].def
  BY <1>1, <1>3, DefsGrow
<1>11. proc.after = IF m = 0 THEN 0 ELSE chrs[m].def
  <2>1. peer.svcs[s].chrs = <<>> <=> m = 0
    BY <1>3, <1>4, PeerInvFacts, PeerFacts
  <2>2. proc.after = IF peer.svcs[s].chrs = <<>> THEN 0
                     ELSE server[s].chrs[Len(peer.svcs[s].chrs)].def
    BY <1>2 DEF FindingChrs
  <2> QED
    BY <1>4, <2>1, <2>2
<1>12. h > proc.after /\ \A y \in Unreported : h <= y
  BY DEF NextReported, Unreported
<1>13. \A j \in 1 .. Len(chrs) : chrs[j].def > proc.after => chrs[j].def \in Unreported
  <2> SUFFICES ASSUME NEW j \in 1 .. Len(chrs), chrs[j].def > proc.after
               PROVE  chrs[j].def \in Unreported
    OBVIOUS
  <2> DEFINE c == chrs[j]
  <2>1. c \in Range(ServerChrs)
    BY <1>1, <1>3, ServerChrsFacts
  <2>2. c.def \in {ServerChrs[n].def : n \in DOMAIN ServerChrs}
    <3>1. PICK n \in DOMAIN ServerChrs : c = ServerChrs[n]
      BY <1>1, <2>1, ServerChrsFacts
    <3> QED
      BY <3>1
  <2>3. c.def \in proc.lo .. proc.hi
    <3>1. proc.lo = server[s].start /\ proc.hi = server[s].end
      BY <1>2 DEF FindingChrs
    <3>2. server[s].start < c.def /\ c.val <= server[s].end /\ c.def < c.val /\ c.def \in Nat /\ c.val \in Nat
      BY <1>1, <1>3, CharacteristicFacts DEF InHandleOrder, WithinService
    <3>3. server[s].start \in Nat /\ server[s].end \in Nat
      BY <1>1, <1>3, DatabaseFacts
    <3>a. PICK a : a = server[s].start
      OBVIOUS
    <3>b. PICK b : b = server[s].end
      OBVIOUS
    <3>d. PICK d : d = c.def
      OBVIOUS
    <3>v. PICK v : v = c.val
      OBVIOUS
    <3>4. a < d /\ v <= b /\ d < v /\ d \in Nat /\ v \in Nat /\ a \in Nat /\ b \in Nat
      BY <3>2, <3>3, <3>a, <3>b, <3>d, <3>v
    <3>5. d \in a .. b
      BY <3>4
    <3> QED
      BY <3>1, <3>5, <3>a, <3>b, <3>d
  <2> QED
    BY <2>2, <2>3 DEF Unreported, Reportable
<1>14. m <= Len(chrs)
  BY <1>4
<1> DEFINE def == [j \in 1 .. Len(chrs) |-> chrs[j].def]
<1>15. /\ \A j \in 1 .. Len(chrs) : def[j] \in Nat
       /\ \A j \in 1 .. Len(chrs) : \A k \in 1 .. Len(chrs) : j < k => def[j] < def[k]
       /\ m # 0 => proc.after = def[m]
       /\ m = 0 => proc.after = 0
       /\ \A j \in 1 .. Len(chrs) : def[j] > proc.after => h <= def[j]
       /\ h = def[l]
  <2>1. \A j \in 1 .. Len(chrs) : def[j] = chrs[j].def
    OBVIOUS
  <2> HIDE DEF def, s, m, chrs
  <2>2. m # 0 => m \in 1 .. Len(chrs)
    BY <1>4, <1>8, <1>14
  <2> QED
    BY <2>1, <2>2, <1>8, <1>9, <1>10, <1>11, <1>12, <1>13
<1> HIDE DEF def, s, m, chrs
<1>16. m < l
  <2> SUFFICES ASSUME ~(m < l) PROVE FALSE
    OBVIOUS
  <2>1. m \in 1 .. Len(chrs) /\ (l < m \/ l = m) /\ m # 0
    BY <1>4, <1>8, <1>14
  <2>2. def[l] < def[m] \/ def[l] = def[m]
    BY <1>8, <1>15, <2>1
  <2>3. def[l] > def[m] /\ def[l] \in Nat /\ def[m] \in Nat
    BY <1>8, <1>12, <1>15, <2>1
  <2> QED
    BY <2>2, <2>3
<1>17. m + 1 \in 1 .. Len(chrs)
  BY <1>4, <1>8, <1>16
<1>18. def[m + 1] > proc.after
  <2>1. CASE m = 0
    <3>1. chrs[m + 1].def > 0
      <4>1. server[s].start < chrs[m + 1].def /\ chrs[m + 1].def \in Nat /\ server[s].start \in Nat
        BY <1>1, <1>3, <1>17, CharacteristicFacts, DatabaseFacts DEF WithinService, chrs
      <4> QED
        BY <4>1
    <3> QED
      BY <1>15, <1>17, <2>1, <3>1 DEF def
  <2>2. CASE m # 0
    <3>1. m \in 1 .. Len(chrs) /\ m < m + 1
      BY <1>4, <1>14, <2>2
    <3>2. def[m] < def[m + 1] /\ def[m] \in Nat /\ def[m + 1] \in Nat
      BY <1>15, <1>17, <3>1
    <3> QED
      BY <1>15, <2>2, <3>2
  <2> QED
    BY <2>1, <2>2
<1>19. l = m + 1
  <2>1. h <= def[m + 1]
    BY <1>15, <1>17, <1>18
  <2>2. ~(m + 1 < l)
    <3>1. m + 1 < l => def[m + 1] < def[l]
      BY <1>8, <1>15, <1>17
    <3>2. def[m + 1] \in Nat /\ def[l] \in Nat /\ h = def[l]
      BY <1>8, <1>15, <1>17
    <3> QED
      BY <2>1, <3>1, <3>2
  <2> QED
    BY <1>4, <1>8, <1>16, <2>2
<1>20. h = chrs[m + 1].def
  BY <1>8, <1>19
<1>21. (CHOOSE x \in Range(ServerChrs) : x.def = h) = chrs[m + 1]
  <2>1. chrs[m + 1] \in Range(ServerChrs)
    BY <1>1, <1>3, <1>17, ServerChrsFacts DEF chrs
  <2>2. ASSUME NEW x \in Range(ServerChrs), x.def = h PROVE x = chrs[m + 1]
    <3>1. PICK a \in 1 .. Len(server) : \E b \in 1 .. Len(server[a].chrs) : x = server[a].chrs[b]
      BY <1>1, ServerChrsFacts
    <3>2. PICK b \in 1 .. Len(server[a].chrs) : x = server[a].chrs[b]
      BY <3>1
    <3>3. server[a].chrs[b].def = server[s].chrs[m + 1].def
      BY <1>20, <2>2, <3>2 DEF chrs
    <3>4. m + 1 \in 1 .. Len(server[s].chrs)
      BY <1>17 DEF chrs
    <3>5. a = s /\ b = m + 1
      <4> DEFINE n == m + 1
      <4>1. n \in 1 .. Len(server[s].chrs) /\ server[a].chrs[b].def = server[s].chrs[n].def
        BY <3>3, <3>4
      <4> HIDE DEF n
      <4>2. a = s /\ b = n
        BY <1>1, <1>3, <4>1, HandlesDiffer
      <4> QED
        BY <4>2 DEF n
    <3> QED
      BY <3>2, <3>5 DEF chrs
  <2> QED
    BY <1>20, <2>1, <2>2
<1>22. ASSUME NEW j \in 1 .. m PROVE Held(s, j).val < h
  <2>1. Held(s, j).val = chrs[j].val
    BY <1>4 DEF SameChr, chrs
  <2>2. chrs[j].val < chrs[m + 1].def
    <3>1. j \in 1 .. Len(chrs) /\ j < m + 1
      BY <1>4, <1>14
    <3> QED
      BY <1>10, <1>17, <3>1
  <2> QED
    BY <1>20, <2>1, <2>2
<1>23. m + 1 \in 1 .. Len(server[s].chrs) /\ h = server[s].chrs[m + 1].def
       /\ (CHOOSE x \in Range(ServerChrs) : x.def = h) = server[s].chrs[m + 1]
  BY <1>17, <1>20, <1>21 DEF chrs
<1> QED
  BY <1>3, <1>4, <1>22, <1>23 DEF s, m

WithChrs(p, s, x) == [p EXCEPT !.svcs[s].chrs = x]

DiffersInChrs(q, p, s, x) ==
  /\ q \in KnownPeers
  /\ q.known = p.known /\ q.cur = p.cur /\ q.prevVal = p.prevVal
  /\ Len(q.svcs) = Len(p.svcs)
  /\ \A i \in 1 .. Len(p.svcs) : i # s => q.svcs[i] = p.svcs[i]
  /\ q.svcs[s].chrs = x /\ q.svcs[s].start = p.svcs[s].start
  /\ q.svcs[s].end = p.svcs[s].end /\ q.svcs[s].uuid = p.svcs[s].uuid

(* Setting one service's list changes nothing else.                        *)
LEMMA ChrListSet ==
  ASSUME NEW p \in KnownPeers, NEW s \in 1 .. Len(p.svcs), NEW x \in Seq(1 .. MaxChrs)
  PROVE  DiffersInChrs(WithChrs(p, s, x), p, s, x)
<1> DEFINE q == WithChrs(p, s, x)
           e == [p.svcs[s] EXCEPT !.chrs = x]
           l == [p.svcs EXCEPT ![s] = e]
<1>1. p.svcs \in Seq(KnownServices) /\ p.svcs[s] \in KnownServices
  BY PeerFacts
<1>2. /\ e \in KnownServices /\ e.chrs = x /\ e.start = p.svcs[s].start
      /\ e.end = p.svcs[s].end /\ e.uuid = p.svcs[s].uuid
  BY <1>1 DEF KnownServices
<1> HIDE DEF e
<1>3. /\ l \in Seq(KnownServices) /\ Len(l) = Len(p.svcs)
      /\ \A i \in 1 .. Len(p.svcs) : l[i] = IF i = s THEN e ELSE p.svcs[i]
  BY <1>1, <1>2, ExceptSeq
<1>4. q = [p EXCEPT !.svcs = l]
  BY DEF e, KnownPeers, WithChrs
<1> HIDE DEF l
<1> HIDE DEF q
<1>5. q \in KnownPeers /\ q.svcs = l /\ q.known = p.known /\ q.cur = p.cur /\ q.prevVal = p.prevVal
  BY <1>3, <1>4 DEF KnownPeers
<1>6. q.svcs[s] = e
  BY <1>3, <1>5
<1>7. \A i \in 1 .. Len(p.svcs) : i # s => q.svcs[i] = p.svcs[i]
  BY <1>3, <1>5
<1> QED
  BY <1>2, <1>3, <1>5, <1>6, <1>7 DEF DiffersInChrs, q

(* A block moves from the free list to the end of a service's list.        *)
LEMMA BlockMoves ==
  ASSUME NEW p \in KnownPeers, NEW s \in 1 .. Len(p.svcs), NEW free \in Seq(1 .. MaxChrs),
         ChrsAccounted(p, free), free # <<>>,
         NEW q \in KnownPeers, Len(q.svcs) = Len(p.svcs),
         \A i \in 1 .. Len(p.svcs) : i # s => q.svcs[i] = p.svcs[i],
         q.svcs[s].chrs = Append(p.svcs[s].chrs, Head(free))
  PROVE  ChrsAccounted(q, Tail(free))
<1> DEFINE S == 1 .. MaxChrs
           b == Head(free)
           old == p.svcs[s].chrs
<1>1. b \in S /\ Tail(free) \in Seq(S) /\ Len(Tail(free)) = Len(free) - 1 /\ Len(free) \in Nat
      /\ Len(free) # 0
  <2> HIDE DEF S
  <2>1. free \in Seq(S)
    BY DEF S
  <2> QED
    BY <2>1, HeadTailProperties, EmptySeq
<1>2. Range(free) = {b} \cup Range(Tail(free))
  <2>1. free = <<b>> \o Tail(free)
    BY <1>1
  <2>2. <<b>> \in Seq(S)
    BY <1>1
  <2>3. Range(<<b>> \o Tail(free)) = Range(<<b>>) \cup Range(Tail(free))
    <3> DEFINE x == <<b>>
               y == Tail(free)
    <3>1. x \in Seq(S) /\ y \in Seq(S)
      BY <1>1, <2>2
    <3> HIDE DEF x, y, S
    <3>2. Range(x \o y) = Range(x) \cup Range(y)
      BY <3>1, RangeConcatenation
    <3> QED
      BY <3>2 DEF x, y
  <2>4. Range(<<b>>) = {b}
    BY DEF Range
  <2> QED
    BY <2>1, <2>3, <2>4
<1>3. old \in Seq(S) /\ Len(old) \in Nat
  BY PeerFacts
<1>4. /\ Append(old, b) \in Seq(S) /\ Len(Append(old, b)) = Len(old) + 1
      /\ \A j \in 1 .. Len(old) : Append(old, b)[j] = old[j]
      /\ Append(old, b)[Len(old) + 1] = b
  <2> HIDE DEF S, b, old
  <2> QED
    BY <1>1, <1>3, AppendProperties
<1>5. Len(Blocks(q)) = Len(Blocks(p)) + 1
  <2> DEFINE ss == ChrLists(p)
             tt == ChrLists(q)
  <2>1. /\ ss \in Seq(Seq(S)) /\ tt \in Seq(Seq(S)) /\ Len(ss) = Len(p.svcs) /\ Len(tt) = Len(ss)
        /\ Blocks(p) = FlattenSeq(ss) /\ Blocks(q) = FlattenSeq(tt)
    BY ChrListsFacts
  <2>2. \A i \in 1 .. Len(p.svcs) : ss[i] = p.svcs[i].chrs /\ tt[i] = q.svcs[i].chrs
    BY ChrListsFacts
  <2>3. s \in 1 .. Len(ss) /\ Len(tt[s]) = Len(ss[s]) + 1
    BY <1>4, <2>1, <2>2
  <2>4. \A i \in 1 .. Len(ss) : i # s => Len(tt[i]) = Len(ss[i])
    BY <2>1, <2>2
  <2> HIDE DEF S, ss, tt
  <2>5. Len(FlattenSeq(tt)) = Len(FlattenSeq(ss)) + 1
    BY <2>1, <2>3, <2>4, FlattenGrows
  <2> QED
    BY <2>1, <2>5
<1>6. Range(Blocks(q)) = Range(Blocks(p)) \cup {b}
  <2>1. ASSUME NEW x \in Range(Blocks(p)) PROVE x \in Range(Blocks(q))
    <3>1. PICK i \in 1 .. Len(p.svcs) : \E j \in 1 .. Len(p.svcs[i].chrs) : x = p.svcs[i].chrs[j]
      BY <2>1, BlocksFacts
    <3>2. PICK j \in 1 .. Len(p.svcs[i].chrs) : x = p.svcs[i].chrs[j]
      BY <3>1
    <3>3. CASE i = s
      <4>1. j \in 1 .. Len(q.svcs[s].chrs) /\ x = q.svcs[s].chrs[j]
        BY <1>3, <1>4, <3>2, <3>3
      <4> QED
        BY <4>1, BlocksFacts
    <3>4. CASE i # s
      <4>1. i \in 1 .. Len(q.svcs) /\ j \in 1 .. Len(q.svcs[i].chrs) /\ x = q.svcs[i].chrs[j]
        BY <3>2, <3>4
      <4> QED
        BY <4>1, BlocksFacts
    <3> QED
      BY <3>3, <3>4
  <2>2. b \in Range(Blocks(q))
    <3> DEFINE n == Len(old) + 1
    <3>1. n \in 1 .. Len(q.svcs[s].chrs) /\ q.svcs[s].chrs[n] = b /\ s \in 1 .. Len(q.svcs)
      BY <1>3, <1>4
    <3> HIDE DEF n
    <3>2. q.svcs[s].chrs[n] \in Range(Blocks(q))
      BY <3>1, BlocksFacts
    <3> QED
      BY <3>1, <3>2
  <2>3. ASSUME NEW x \in Range(Blocks(q)) PROVE x \in Range(Blocks(p)) \cup {b}
    <3>1. PICK i \in 1 .. Len(q.svcs) : \E j \in 1 .. Len(q.svcs[i].chrs) : x = q.svcs[i].chrs[j]
      BY <2>3, BlocksFacts
    <3>2. PICK j \in 1 .. Len(q.svcs[i].chrs) : x = q.svcs[i].chrs[j]
      BY <3>1
    <3>3. CASE i = s
      <4>1. x = Append(old, b)[j] /\ j \in 1 .. Len(old) + 1
        BY <1>4, <3>2, <3>3
      <4>2. CASE j = Len(old) + 1
        BY <1>4, <4>1, <4>2
      <4>3. CASE j \in 1 .. Len(old)
        <5>1. x = p.svcs[s].chrs[j]
          BY <1>4, <4>1, <4>3
        <5> QED
          BY <4>3, <5>1, BlocksFacts
      <4>4. j = Len(old) + 1 \/ j \in 1 .. Len(old)
        <5>a. PICK m : m = Len(old)
          OBVIOUS
        <5>1. m \in Nat
          BY <1>3, <5>a
        <5>2. j \in 1 .. m + 1
          BY <4>1, <5>a
        <5> QED
          BY <5>1, <5>2, <5>a
      <4> QED
        BY <4>2, <4>3, <4>4
    <3>4. CASE i # s
      <4>1. i \in 1 .. Len(p.svcs) /\ j \in 1 .. Len(p.svcs[i].chrs) /\ x = p.svcs[i].chrs[j]
        BY <3>2, <3>4
      <4> QED
        BY <4>1, BlocksFacts
    <3> QED
      BY <3>3, <3>4
  <2> QED
    BY <2>1, <2>2, <2>3
<1> DEFINE bp == Blocks(p)
           bq == Blocks(q)
           t == Tail(free)
<1>7. bp \in Seq(S) /\ bq \in Seq(S) /\ t \in Seq(S)
  BY <1>1, BlocksFacts
<1>8. Len(bp \o free) = MaxChrs /\ Range(bp \o free) = S
  BY DEF ChrsAccounted
<1> HIDE DEF bp, bq, t, S
<1>9. /\ Len(bp \o free) = Len(bp) + Len(free) /\ Range(bp \o free) = Range(bp) \cup Range(free)
      /\ Len(bq \o t) = Len(bq) + Len(t) /\ Range(bq \o t) = Range(bq) \cup Range(t)
  <2>1. free \in Seq(S)
    BY DEF S
  <2> QED
    BY <1>7, <2>1, ConcatProperties, RangeConcatenation
<1>10. Len(bq \o t) = MaxChrs
  <2>1. Len(bp) \in Nat /\ Len(t) = Len(free) - 1 /\ Len(bq) = Len(bp) + 1
    BY <1>1, <1>5, <1>7 DEF bp, bq, t
  <2> QED
    BY <1>1, <1>8, <1>9, <2>1
<1>11. Range(bq \o t) = S
  <2>1. Range(bq) = Range(bp) \cup {b} /\ Range(free) = {b} \cup Range(t)
    BY <1>2, <1>6 DEF bp, bq, t
  <2> QED
    BY <1>8, <1>9, <2>1
<1> QED
  BY <1>10, <1>11 DEF ChrsAccounted, bq, t, S

(* peer_chr_disced keeps the invariant: the block it takes is in no list,  *)
(* so no other characteristic changes.                                     *)
LEMMA ChrFoundKeeps ==
  ASSUME PeerInv, proc.kind = "chrs", NEW h, NextReported(h), ChrFound(h), UNCHANGED server
  PROVE  PeerInv'
<1>1. peer \in KnownPeers /\ proc # NoProc /\ peer.known /\ completion = "no" /\ proc \in Procedures
  BY PeerInvFacts DEF PeerInv, PeerControl, NoProc
<1>2. CASE freeChrs = <<>>
  BY <1>1, <1>2, CompleteFails DEF ChrFound
<1>3. CASE freeChrs # <<>>
  <2>a. PICK s : s = peer.cur
    OBVIOUS
  <2>b. PICK old : old = peer.svcs[s].chrs
    OBVIOUS
  <2>c. PICK m : m = Len(old)
    OBVIOUS
  <2>d. PICK c : c = server[s].chrs[m + 1]
    OBVIOUS
  <2>e. PICK b : b = Head(freeChrs)
    OBVIOUS
  <2>1. /\ s \in 1 .. Len(server) /\ s \in 1 .. Len(peer.svcs)
        /\ m \in Nat /\ m + 1 \in 1 .. Len(server[s].chrs)
        /\ h = c.def /\ (CHOOSE x \in Range(ServerChrs) : x.def = h) = c
        /\ \A j \in 1 .. m : chrMem[old[j]].val < h
    BY <2>a, <2>b, <2>c, <2>d, NextChr DEF Held
  <2>2. /\ OrderedDatabase(server) /\ Len(server) \in Nat /\ DOMAIN server = 1 .. Len(server)
        /\ c \in Characteristics /\ c.def \in Nat
    <3>1. OrderedDatabase(server)
      BY PeerInvFacts
    <3> DEFINE n == m + 1
    <3>2. n \in 1 .. Len(server[s].chrs) /\ c = server[s].chrs[n]
      BY <2>1, <2>d
    <3> HIDE DEF n
    <3> QED
      BY <2>1, <3>1, <3>2, DatabaseFacts, CharacteristicFacts
  <2>3. FindingChrs
    BY DEF PeerInv, Finding
  <2>4. /\ freeChrs \in Seq(1 .. MaxChrs) /\ chrMem \in [1 .. MaxChrs -> Characteristics]
        /\ ChrsAccounted(peer, freeChrs)
    BY PeerInvFacts
  <2>5. /\ b \in 1 .. MaxChrs /\ Tail(freeChrs) \in Seq(1 .. MaxChrs) /\ b \notin Range(Blocks(peer))
    <3>1. /\ b \in 1 .. MaxChrs /\ Tail(freeChrs) \in Seq(1 .. MaxChrs)
          /\ b = freeChrs[1] /\ 1 \in 1 .. Len(freeChrs)
      <4> DEFINE S == 1 .. MaxChrs
      <4>1. freeChrs \in Seq(S)
        BY <2>4
      <4> HIDE DEF S
      <4>2. b \in S /\ Tail(freeChrs) \in Seq(S) /\ b = freeChrs[1] /\ 1 \in 1 .. Len(freeChrs)
        BY <1>3, <2>e, <4>1
      <4> QED
        BY <4>2 DEF S
    <3>2. freeChrs[1] \notin Range(Blocks(peer))
      BY <1>1, <2>4, <3>1, OnePlace
    <3> QED
      BY <3>1, <3>2
  <2>6. old \in Seq(1 .. MaxChrs) /\ DOMAIN old = 1 .. m
    BY <1>1, <2>1, <2>b, <2>c, PeerFacts
  <2>7. Before(old, LAMBDA x : chrMem[x].val, h) = m
    <3> DEFINE T == {i \in DOMAIN old : \A j \in 1 .. i : chrMem[old[j]].val < h}
    <3>1. T = 1 .. m
      BY <2>1, <2>6
    <3>2. Cardinality(T) = m
      <4> HIDE DEF T
      <4> QED
        BY <2>1, <3>1, AllCounted
    <3> QED
      BY <3>2 DEF Before
  <2> DEFINE new == [c EXCEPT !.dscs = <<>>]
  <2>8. /\ new \in Characteristics /\ new.def = c.def /\ new.val = c.val /\ new.uuid = c.uuid
        /\ new.dscs = <<>>
    <3>1. <<>> \in Seq(Nat)
      OBVIOUS
    <3> QED
      BY <2>2, <3>1 DEF Characteristics
  <2>9. /\ chrMem' = [chrMem EXCEPT ![b] = new]
        /\ freeChrs' = Tail(freeChrs)
        /\ peer' = [peer EXCEPT !.svcs[s].chrs = InsertDropping(old, m, b)]
        /\ proc' = [proc EXCEPT !.after = h]
        /\ UNCHANGED <<freeSvcs, freeDscs, completion>>
    <3> QED
      BY <1>3, <2>1, <2>7, <2>a, <2>b, <2>e DEF ChrFound
  <2> HIDE DEF new
  <2>10. InsertDropping(old, m, b) = Append(old, b)
    BY <2>5, <2>6, <2>c, InsertLast
  <2>11. /\ Append(old, b) \in Seq(1 .. MaxChrs) /\ Len(Append(old, b)) = m + 1
         /\ \A j \in 1 .. m : Append(old, b)[j] = old[j]
         /\ Append(old, b)[m + 1] = b
    BY <2>5, <2>6, <2>c, AppendProperties
  <2>12. /\ peer' \in KnownPeers /\ peer'.known /\ peer'.cur = s /\ peer'.prevVal = peer.prevVal
         /\ Len(peer'.svcs) = Len(peer.svcs)
         /\ \A i \in 1 .. Len(peer.svcs) : i # s => peer'.svcs[i] = peer.svcs[i]
         /\ peer'.svcs[s].chrs = Append(old, b) /\ peer'.svcs[s].start = peer.svcs[s].start
         /\ peer'.svcs[s].end = peer.svcs[s].end /\ peer'.svcs[s].uuid = peer.svcs[s].uuid
    <3> DEFINE x == Append(old, b)
    <3>1. x \in Seq(1 .. MaxChrs) /\ peer' = [peer EXCEPT !.svcs[s].chrs = x]
      BY <2>9, <2>10, <2>11
    <3> HIDE DEF x
    <3>2. peer' = WithChrs(peer, s, x)
      BY <3>1 DEF WithChrs
    <3>3. DiffersInChrs(WithChrs(peer, s, x), peer, s, x)
      BY <1>1, <2>1, <3>1, ChrListSet
    <3>4. DiffersInChrs(peer', peer, s, x)
      BY <3>2, <3>3, Zenon
    <3> QED
      BY <1>1, <2>a, <3>4 DEF x, DiffersInChrs
  <2>13. /\ chrMem' \in [1 .. MaxChrs -> Characteristics] /\ chrMem'[b] = new
         /\ \A x \in 1 .. MaxChrs : x # b => chrMem'[x] = chrMem[x]
    BY <2>4, <2>5, <2>8, <2>9
  <2>14. ASSUME NEW i \in 1 .. Len(peer.svcs), NEW j \in 1 .. Len(peer.svcs[i].chrs)
         PROVE  Held(i, j)' = Held(i, j)
    <3>1. peer.svcs[i].chrs[j] \in 1 .. MaxChrs /\ peer.svcs[i].chrs[j] \in Range(Blocks(peer))
      BY <1>1, BlocksFacts
    <3>2. peer.svcs[i].chrs[j] # b
      BY <2>5, <3>1
    <3>3. peer'.svcs[i].chrs[j] = peer.svcs[i].chrs[j]
      <4>1. CASE i = s
        BY <2>11, <2>12, <2>b, <2>c, <4>1
      <4>2. CASE i # s
        BY <2>12, <4>2
      <4> QED
        BY <4>1, <4>2
    <3>4. chrMem'[peer.svcs[i].chrs[j]] = chrMem[peer.svcs[i].chrs[j]]
      BY <2>13, <3>1, <3>2
    <3> QED
      BY <3>3, <3>4 DEF Held
  <2>15. Held(s, m + 1)' = new
    BY <2>11, <2>12, <2>13 DEF Held
  <2>16. AllServices /\ Len(peer.svcs) = Len(server)
    BY <2>3 DEF FindingChrs, AllServices
  <2>17. \A i \in 1 .. Len(server) : i # s =>
           /\ peer'.svcs[i] = peer.svcs[i]
           /\ \A j \in 1 .. Len(peer.svcs[i].chrs) : Held(i, j)' = Held(i, j)
    BY <2>12, <2>14, <2>16
  <2>18. /\ Len(peer'.svcs[s].chrs) = m + 1
         /\ \A j \in 1 .. m : Held(s, j)' = Held(s, j)
    BY <2>1, <2>11, <2>12, <2>14, <2>b, <2>c
  <2>19. PeerTypeOK'
    <3>1. proc' \in Procedures
      BY <1>1, <2>1, <2>2, <2>9 DEF Procedures
    <3> QED
      BY <2>5, <2>9, <2>12, <2>13, <3>1 DEF PeerInv, PeerTypeOK
  <2>20. PeerControl'
    BY <1>1, <2>9, <2>12 DEF PeerControl
  <2>21. \A i \in 1 .. Len(server) : \A j \in 1 .. Len(peer.svcs[i].chrs) : Held(i, j).dscs = <<>>
    <3>1. \A i \in 1 .. Len(server) : NoDscs(i)
      BY <2>2, <2>3 DEF FindingChrs
    <3>2. \A i \in 1 .. Len(server) : DOMAIN peer.svcs[i].chrs = 1 .. Len(peer.svcs[i].chrs)
      BY <1>1, <2>16, PeerFacts
    <3> QED
      BY <3>1, <3>2 DEF NoDscs
  <2>22. \A i \in 1 .. Len(server) : \A j \in 1 .. Len(peer'.svcs[i].chrs) : (Held(i, j)').dscs = <<>>
    <3> SUFFICES ASSUME NEW i \in 1 .. Len(server), NEW j \in 1 .. Len(peer'.svcs[i].chrs)
                 PROVE  (Held(i, j)').dscs = <<>>
      OBVIOUS
    <3>1. CASE i # s
      <4>1. peer'.svcs[i] = peer.svcs[i]
        BY <2>17, <3>1
      <4>2. j \in 1 .. Len(peer.svcs[i].chrs)
        BY <4>1
      <4>3. Held(i, j)' = Held(i, j)
        BY <2>17, <3>1, <4>2
      <4> QED
        BY <2>21, <4>2, <4>3
    <3>2. CASE i = s /\ j \in 1 .. m
      BY <2>1, <2>18, <2>21, <2>b, <2>c, <3>2
    <3>3. CASE i = s /\ j = m + 1
      BY <2>8, <2>15, <3>3
    <3>4. i = s => j \in 1 .. m + 1
      BY <2>18
    <3>5. i = s => j \in 1 .. m \/ j = m + 1
      BY <2>1, <3>4
    <3> QED
      BY <3>1, <3>2, <3>3, <3>5
  <2>23. PoolsAccounted'
    <3>1. freeSvcs' + Len(peer'.svcs) = MaxSvcs
      BY <2>9, <2>12, PeerInvFacts
    <3>2. ChrsAccounted(peer', freeChrs')
      <4>1. ChrsAccounted(peer', Tail(freeChrs))
        BY <1>1, <1>3, <2>1, <2>4, <2>12, <2>b, <2>e, BlockMoves
      <4> QED
        BY <2>9, <4>1
    <3>3. Descriptors(peer', chrMem') = <<>>
      <4>1. \A i \in 1 .. Len(peer'.svcs) : \A j \in 1 .. Len(peer'.svcs[i].chrs) :
              chrMem'[peer'.svcs[i].chrs[j]].dscs = <<>>
        BY <2>12, <2>16, <2>22 DEF Held
      <4> QED
        BY <2>12, <2>13, <4>1, NoDescriptors
    <3>4. Descriptors(peer, chrMem) = <<>>
      <4>1. \A i \in 1 .. Len(peer.svcs) : \A j \in 1 .. Len(peer.svcs[i].chrs) :
              chrMem[peer.svcs[i].chrs[j]].dscs = <<>>
        BY <2>16, <2>21 DEF Held
      <4> QED
        BY <1>1, <2>4, <4>1, NoDescriptors
    <3>5. freeDscs' + Len(Descriptors(peer', chrMem')) = MaxDscs
      BY <2>9, <3>3, <3>4, PeerInvFacts
    <3> QED
      BY <3>1, <3>2, <3>5, PoolsAccountedAfter
  <2>24. FindingChrs'
    <3>1. peer'.prevVal = 1 /\ peer'.cur \in DOMAIN server'
      BY <2>1, <2>2, <2>3, <2>12 DEF FindingChrs
    <3>2. AllServices'
      <4>1. ASSUME NEW i \in 1 .. Len(server) PROVE SameService(i)'
        <5>1. SameService(i)
          BY <2>2, <2>16 DEF AllServices
        <5>2. CASE i = s
          BY <2>12, <5>1, <5>2 DEF SameService
        <5>3. CASE i # s
          BY <2>17, <5>1, <5>3 DEF SameService
        <5> QED
          BY <5>2, <5>3
      <4> QED
        BY <2>2, <2>12, <2>16, <4>1 DEF AllServices
    <3>3. proc'.lo = server'[peer'.cur].start /\ proc'.hi = server'[peer'.cur].end
      BY <1>1, <2>3, <2>9, <2>12, <2>a DEF FindingChrs, Procedures
    <3>4. ServicesBefore(peer.cur)'
      <4>1. ServicesBefore(s)
        BY <2>3, <2>a DEF FindingChrs
      <4> SUFFICES ASSUME NEW i \in 1 .. s - 1
                   PROVE  AllChrs(i)' /\ (server'[i].start < server'[i].end => peer'.svcs[i].chrs # <<>>)
        BY <2>12 DEF ServicesBefore
      <4>2. i \in 1 .. Len(server) /\ i # s
        BY <2>1, <2>2
      <4>3. peer'.svcs[i] = peer.svcs[i] /\ \A j \in 1 .. Len(peer.svcs[i].chrs) : Held(i, j)' = Held(i, j)
        BY <2>17, <4>2
      <4>4. AllChrs(i) /\ (server[i].start < server[i].end => peer.svcs[i].chrs # <<>>)
        BY <4>1 DEF ServicesBefore
      <4>5. Len(peer.svcs[i].chrs) = Len(server[i].chrs)
            /\ \A j \in 1 .. Len(server[i].chrs) : SameChr(i, j)
        BY <4>4 DEF AllChrs, ChrsFound
      <4>6. ASSUME NEW j \in 1 .. Len(server[i].chrs) PROVE SameChr(i, j)'
        <5>1. SameChr(i, j) /\ Held(i, j)' = Held(i, j)
          BY <4>3, <4>5
        <5> QED
          BY <5>1 DEF SameChr
      <4>7. AllChrs(i)'
        <5>1. Len(server[i].chrs) \in Nat
          BY <2>2, <4>2, DatabaseFacts
        <5> QED
          BY <4>3, <4>5, <4>6, <5>1 DEF AllChrs, ChrsFound
      <4> QED
        BY <4>3, <4>4, <4>7
    <3>5. \A i \in peer'.cur + 1 .. Len(server') : peer'.svcs[i].chrs = <<>>
      <4> SUFFICES ASSUME NEW i \in s + 1 .. Len(server) PROVE peer'.svcs[i].chrs = <<>>
        BY <2>12
      <4>1. i \in 1 .. Len(server) /\ i # s
        BY <2>1, <2>2
      <4>2. peer.svcs[i].chrs = <<>>
        BY <2>3, <2>a DEF FindingChrs
      <4> QED
        BY <2>17, <4>1, <4>2
    <3>6. \A i \in DOMAIN server' : NoDscs(i)'
      <4> SUFFICES ASSUME NEW i \in 1 .. Len(server) PROVE NoDscs(i)'
        BY <2>2
      <4>1. DOMAIN peer'.svcs[i].chrs = 1 .. Len(peer'.svcs[i].chrs)
        BY <2>12, <2>16, PeerFacts
      <4> QED
        BY <2>22, <4>1 DEF NoDscs
    <3>7. ChrsFound(peer.cur, Len(peer.svcs[peer.cur].chrs))'
      <4>1. ChrsFound(s, m)
        BY <2>3, <2>a, <2>b, <2>c DEF FindingChrs
      <4>2. ASSUME NEW j \in 1 .. m + 1 PROVE SameChr(s, j)'
        <5>1. CASE j = m + 1
          BY <2>8, <2>15, <2>d, <5>1 DEF SameChr
        <5>2. CASE j \in 1 .. m
          <6>1. SameChr(s, j) /\ Held(s, j)' = Held(s, j)
            BY <2>18, <4>1, <5>2 DEF ChrsFound
          <6> QED
            BY <6>1 DEF SameChr
        <5> QED
          BY <2>1, <5>1, <5>2
      <4>3. m + 1 <= Len(server[s].chrs)
        BY <2>1
      <4>4. ChrsFound(s, m + 1)'
        BY <2>18, <4>2, <4>3 DEF ChrsFound
      <4> QED
        BY <2>12, <2>18, <4>4 DEF ChrsFound
    <3>8. proc'.after = IF peer'.svcs[peer'.cur].chrs = <<>> THEN 0
                        ELSE server'[peer'.cur].chrs[Len(peer'.svcs[peer'.cur].chrs)].def
      <4>1. proc'.after = h
        BY <1>1, <2>9 DEF Procedures
      <4>2. peer'.svcs[s].chrs # <<>>
        BY <2>1, <2>18
      <4> QED
        BY <2>1, <2>12, <2>18, <2>d, <4>1, <4>2
    <3> QED
      BY <3>1, <3>2, <3>3, <3>4, <3>5, <3>6, <3>7, <3>8 DEF FindingChrs
  <2>25. Finding'
    <3>1. proc'.kind = "chrs"
      BY <1>1, <2>9 DEF Procedures
    <3> QED
      BY <2>24, <3>1 DEF Finding
  <2>26. DiscoveryExact'
    BY <1>1, <2>9 DEF DiscoveryExact
  <2> QED
    BY <2>19, <2>20, <2>23, <2>25, <2>26 DEF PeerInv
<1> QED
  BY <1>2, <1>3

(* Descriptors lie behind their value, within the service, in order.       *)
LEMMA DscsGrow ==
  ASSUME NEW db, OrderedDatabase(db), NEW i \in 1 .. Len(db), NEW j \in 1 .. Len(db[i].chrs),
         NEW n \in 1 .. Len(db[i].chrs[j].dscs)
  PROVE  LET c == db[i].chrs[j]
         IN /\ c.dscs[n] \in Nat /\ c.val < c.dscs[n] /\ c.dscs[n] <= db[i].end
            /\ \A k \in 1 .. n - 1 : c.dscs[k] < c.dscs[n]
<1> DEFINE c == db[i].chrs[j]
<1>1. c.dscs \in Seq(Nat) /\ DOMAIN c.dscs = 1 .. Len(c.dscs) /\ InHandleOrder(c) /\ WithinService(c, db[i])
  BY CharacteristicFacts
<1>2. n \in 1 .. Len(c.dscs)
  OBVIOUS
<1> HIDE DEF c
<1>3. c.dscs[n] \in Nat
  BY <1>1, <1>2, ElementOfSeq
<1>4. c.val < c.dscs[n] /\ \A k \in 1 .. n - 1 : c.dscs[k] < c.dscs[n]
  BY <1>1, <1>2 DEF InHandleOrder
<1>5. c.dscs[n] <= db[i].end
  BY <1>1, <1>2 DEF WithinService
<1> QED
  BY <1>3, <1>4, <1>5 DEF c

(* The handles up to the last one of a characteristic.                     *)
LEMMA LastHandleFacts ==
  ASSUME OrderedDatabase(server), NEW i \in 1 .. Len(server), NEW j \in 1 .. Len(server[i].chrs)
  PROVE  /\ LastHandle(i, j) \in Nat /\ LastHandle(i, j) <= server[i].end
         /\ server[i].chrs[j].val <= LastHandle(i, j)
         /\ \A n \in 1 .. Len(server[i].chrs[j].dscs) : server[i].chrs[j].dscs[n] <= LastHandle(i, j)
         /\ \A k \in 1 .. Len(server) : \A l \in 1 .. Len(server[k].chrs) :
              i < k \/ (i = k /\ j < l) => LastHandle(i, j) < server[k].chrs[l].def
         /\ \A k \in 1 .. Len(server) : i < k => LastHandle(i, j) < server[k].start
<1> DEFINE c == server[i].chrs[j]
           e == server[i].end
<1>1. /\ c.val \in Nat /\ c.val <= e /\ c.dscs \in Seq(Nat) /\ e \in Nat
      /\ \A n \in 1 .. Len(c.dscs) : c.dscs[n] \in Nat /\ c.dscs[n] <= e
      /\ Len(server[i].chrs) \in Nat
  BY CharacteristicFacts, DatabaseFacts, DscsGrow DEF WithinService
<1>2. ASSUME NEW k \in 1 .. Len(server), i < k PROVE e < server[k].start /\ server[k].start \in Nat
  <2>1. i \in 1 .. k - 1
    BY <1>2
  <2> QED
    BY <2>1, ServicesApart, DatabaseFacts
<1>3. ASSUME NEW k \in 1 .. Len(server), NEW l \in 1 .. Len(server[k].chrs), i < k
      PROVE  e < server[k].chrs[l].def
  <2> DEFINE s == server[k].start
             d == server[k].chrs[l].def
  <2>1. s < d /\ s \in Nat /\ d \in Nat
    BY CharacteristicFacts, DatabaseFacts DEF WithinService
  <2>2. e < s
    BY <1>2, <1>3
  <2> HIDE DEF s, d, e
  <2>3. e < d
    BY <1>1, <2>1, <2>2
  <2> QED
    BY <2>3 DEF d
<1>4. CASE ~(j < Len(server[i].chrs))
  <2>1. LastHandle(i, j) = e
    BY <1>4 DEF LastHandle
  <2>2. \A l \in 1 .. Len(server[i].chrs) : ~(j < l)
    BY <1>1, <1>4
  <2>3. LastHandle(i, j) \in Nat /\ LastHandle(i, j) <= server[i].end
    BY <1>1, <2>1
  <2> HIDE DEF e
  <2>4. c.val <= LastHandle(i, j) /\ \A n \in 1 .. Len(c.dscs) : c.dscs[n] <= LastHandle(i, j)
    BY <1>1, <2>1
  <2>5. ASSUME NEW k \in 1 .. Len(server), NEW l \in 1 .. Len(server[k].chrs),
               i < k \/ (i = k /\ j < l)
        PROVE  LastHandle(i, j) < server[k].chrs[l].def
    BY <1>3, <2>1, <2>2, <2>5
  <2>6. ASSUME NEW k \in 1 .. Len(server), i < k PROVE LastHandle(i, j) < server[k].start
    BY <1>2, <2>1, <2>6
  <2> QED
    BY <2>3, <2>4, <2>5, <2>6
<1>5. CASE j < Len(server[i].chrs)
  <2> DEFINE n == j + 1
             d == server[i].chrs[n]
             last == d.def - 1
  <2>1. n \in 1 .. Len(server[i].chrs) /\ j < n
    BY <1>1, <1>5
  <2>2. LastHandle(i, j) = last
    BY <1>5 DEF LastHandle
  <2> HIDE DEF n
  <2>3. /\ d.def \in Nat /\ d.def < d.val /\ d.val <= e /\ d.val \in Nat
        /\ c.val < d.def /\ \A m \in DOMAIN c.dscs : c.dscs[m] < d.def
    BY <2>1, CharacteristicFacts, EarlierPrecedes DEF InHandleOrder, WithinService, ChrPrecedes
  <2>4. DOMAIN c.dscs = 1 .. Len(c.dscs)
    BY CharacteristicFacts
  <2>5. ASSUME NEW l \in 1 .. Len(server[i].chrs), j < l PROVE d.def <= server[i].chrs[l].def
    <3>1. l = n \/ n < l
      BY <2>5 DEF n
    <3>2. n < l => d.def < server[i].chrs[l].def
      BY <2>1, DefsGrow
    <3>3. server[i].chrs[l].def \in Nat
      BY CharacteristicFacts
    <3> QED
      BY <2>3, <3>1, <3>2, <3>3
  <2>6. last < e /\ last \in Nat /\ last < d.def
    <3>1. d.def # 0
      BY <1>1, <2>3
    <3> HIDE DEF d, e
    <3> QED
      BY <1>1, <2>3, <3>1
  <2>7. c.val <= last /\ \A m \in 1 .. Len(c.dscs) : c.dscs[m] <= last
    <3> HIDE DEF c, d
    <3> QED
      BY <1>1, <2>3, <2>4, SMTT(30)
  <2> HIDE DEF last
  <2>8. ASSUME NEW l \in 1 .. Len(server[i].chrs), j < l PROVE last < server[i].chrs[l].def
    <3>1. d.def <= server[i].chrs[l].def /\ server[i].chrs[l].def \in Nat
      BY <2>5, <2>8, CharacteristicFacts
    <3> DEFINE x == server[i].chrs[l].def
    <3> HIDE DEF d, x
    <3>2. last < x
      BY <2>3, <2>6, <3>1 DEF x
    <3> QED
      BY <3>2 DEF x
  <2>9. ASSUME NEW k \in 1 .. Len(server), i < k PROVE last < server[k].start
    <3> DEFINE x == server[k].start
    <3>1. e < x /\ x \in Nat
      BY <1>2, <2>9
    <3> HIDE DEF x, e
    <3>2. last < x
      BY <1>1, <2>6, <3>1
    <3> QED
      BY <3>2 DEF x
  <2>10. ASSUME NEW k \in 1 .. Len(server), NEW l \in 1 .. Len(server[k].chrs), i < k
         PROVE  last < server[k].chrs[l].def
    <3> DEFINE x == server[k].chrs[l].def
    <3>1. e < x /\ x \in Nat
      BY <1>3, <2>10, CharacteristicFacts
    <3> HIDE DEF x, e
    <3>2. last < x
      BY <1>1, <2>6, <3>1
    <3> QED
      BY <3>2 DEF x
  <2>11. last <= server[i].end
    <3> HIDE DEF e
    <3>1. last <= e
      BY <1>1, <2>6
    <3> QED
      BY <3>1 DEF e
  <2> QED
    BY <2>2, <2>6, <2>7, <2>8, <2>9, <2>10, <2>11
<1> QED
  BY <1>4, <1>5

(* Between the value and the last handle of a characteristic there are its *)
(* descriptors and nothing else.                                           *)
LEMMA BetweenHandles ==
  ASSUME OrderedDatabase(server), NEW i \in 1 .. Len(server), NEW j \in 1 .. Len(server[i].chrs),
         NEW a \in Attributes, server[i].chrs[j].val < a, a <= LastHandle(i, j)
  PROVE  \E n \in 1 .. Len(server[i].chrs[j].dscs) : a = server[i].chrs[j].dscs[n]
<1> DEFINE c == server[i].chrs[j]
           v == c.val
           last == LastHandle(i, j)
<1>0. /\ DOMAIN server = 1 .. Len(server) /\ c.def \in Nat /\ v \in Nat /\ c.def < v /\ last \in Nat
      /\ server[i].start < c.def /\ server[i].start \in Nat
  BY DatabaseFacts, CharacteristicFacts, LastHandleFacts DEF InHandleOrder, WithinService
<1>1. v < a /\ a <= last
  OBVIOUS
<1>2. ASSUME NEW k \in 1 .. Len(server), a = server[k].start PROVE FALSE
  <2>1. a \in Nat
    BY <1>2, DatabaseFacts
  <2>2. ~(i < k)
    <3>1. i < k => last < server[k].start
      BY LastHandleFacts
    <3> HIDE DEF last
    <3> QED
      BY <1>0, <1>1, <1>2, <2>1, <3>1
  <2>3. k < i => a < server[i].start
    <3>1. k < i => k \in 1 .. i - 1
      OBVIOUS
    <3> QED
      BY <1>2, <3>1, StartsGrow
  <2>4. k = i => a = server[i].start
    BY <1>2
  <2> HIDE DEF v, last
  <2> DEFINE s == server[i].start
             f == c.def
  <2>5. (k < i => a < s) /\ (k = i => a = s) /\ s < f /\ f < v /\ s \in Nat /\ f \in Nat
    BY <1>0, <2>3, <2>4
  <2> HIDE DEF s, f
  <2> QED
    BY <1>0, <1>1, <2>1, <2>2, <2>5
<1>3. ASSUME NEW k \in 1 .. Len(server), NEW l \in 1 .. Len(server[k].chrs),
             a \in {server[k].chrs[l].def, server[k].chrs[l].val} \cup Range(server[k].chrs[l].dscs)
      PROVE  \E n \in 1 .. Len(c.dscs) : a = c.dscs[n]
  <2> DEFINE d == server[k].chrs[l]
             ddef == d.def
             dval == d.val
  <2>1. /\ ddef \in Nat /\ dval \in Nat /\ ddef < dval /\ DOMAIN d.dscs = 1 .. Len(d.dscs)
        /\ \A n \in 1 .. Len(d.dscs) : d.dscs[n] \in Nat /\ dval < d.dscs[n]
    BY CharacteristicFacts, DscsGrow DEF InHandleOrder
  <2>2. a = ddef \/ a = dval \/ \E n \in 1 .. Len(d.dscs) : a = d.dscs[n]
    BY <1>3, <2>1 DEF Range
  <2>3. a \in Nat /\ ddef <= a
    <3> HIDE DEF d, ddef, dval
    <3>1. CASE a = ddef \/ a = dval
      BY <2>1, <3>1
    <3>2. ASSUME NEW n \in 1 .. Len(d.dscs), a = d.dscs[n] PROVE a \in Nat /\ ddef <= a
      <4>1. a \in Nat /\ dval < a
        BY <2>1, <3>2
      <4> QED
        BY <2>1, <4>1
    <3> QED
      BY <2>2, <3>1, <3>2
  <2>4. CASE i < k \/ (i = k /\ j < l)
    <3>1. last < ddef
      BY <2>4, LastHandleFacts
    <3> HIDE DEF last, ddef
    <3> QED
      BY <1>0, <1>1, <2>1, <2>3, <3>1
  <2>5. CASE k < i \/ (k = i /\ l < j)
    <3> DEFINE f == c.def
    <3>1. dval < f /\ \A n \in DOMAIN d.dscs : d.dscs[n] < f
      BY <2>5, EarlierPrecedes DEF ChrPrecedes
    <3>2. f \in Nat /\ f < v
      BY <1>0
    <3> HIDE DEF d, ddef, dval, f, v
    <3>3. a < f
      <4>1. CASE a = ddef \/ a = dval
        BY <2>1, <3>1, <3>2, <4>1
      <4>2. ASSUME NEW n \in 1 .. Len(d.dscs), a = d.dscs[n] PROVE a < f
        BY <2>1, <3>1, <4>2
      <4> QED
        BY <2>2, <4>1, <4>2
    <3> QED
      BY <1>0, <1>1, <2>3, <3>2, <3>3
  <2>6. CASE i = k /\ j = l
    <3>1. d = c
      BY <2>6
    <3>2. ddef < v /\ dval = v
      BY <1>0, <3>1
    <3>3. a # ddef /\ a # dval
      <4> HIDE DEF ddef, dval, v
      <4> QED
        BY <1>0, <1>1, <2>1, <2>3, <3>2
    <3> QED
      BY <2>2, <3>1, <3>3
  <2> QED
    BY <2>4, <2>5, <2>6
<1>4. CASE \E k \in DOMAIN server : a = server[k].start
  BY <1>0, <1>2, <1>4
<1>5. CASE \E x \in Range(ServerChrs) : a \in {x.def, x.val} \cup Range(x.dscs)
  <2>1. PICK x \in Range(ServerChrs) : a \in {x.def, x.val} \cup Range(x.dscs)
    BY <1>5
  <2>2. PICK k \in 1 .. Len(server) : \E l \in 1 .. Len(server[k].chrs) : x = server[k].chrs[l]
    BY ServerChrsFacts
  <2>3. PICK l \in 1 .. Len(server[k].chrs) : x = server[k].chrs[l]
    BY <2>2
  <2>4. a \in {server[k].chrs[l].def, server[k].chrs[l].val} \cup Range(server[k].chrs[l].dscs)
    BY <2>1, <2>3
  <2> QED
    BY <1>3, <2>4
<1>6. (\E k \in DOMAIN server : a = server[k].start)
      \/ \E x \in Range(ServerChrs) : a \in {x.def, x.val} \cup Range(x.dscs)
  BY DEF Attributes
<1> QED
  BY <1>4, <1>5, <1>6

(* The characteristic whose descriptors are asked for.                     *)
AsksFor(i, j) ==
  /\ i \in 1 .. Len(server) /\ j \in 1 .. Len(server[i].chrs)
  /\ proc.lo = server[i].chrs[j].val /\ proc.hi = LastHandle(i, j)

(* Once all are known, each characteristic is held in its place.           *)
LEMMA KnownFacts ==
  ASSUME PeerInv, AllKnown
  PROVE  /\ Len(peer.svcs) = Len(server) /\ DOMAIN server = 1 .. Len(server)
         /\ \A i \in 1 .. Len(server) : Len(peer.svcs[i].chrs) = Len(server[i].chrs)
         /\ \A i \in 1 .. Len(server) : \A j \in 1 .. Len(server[i].chrs) :
              /\ SameChr(i, j) /\ peer.svcs[i].chrs[j] \in 1 .. MaxChrs
              /\ peer.svcs[i].chrs[j] \in Range(Blocks(peer))
<1>1. Len(peer.svcs) = Len(server) /\ DOMAIN server = 1 .. Len(server)
  BY PeerInvFacts DEF AllKnown, AllServices, OrderedDatabase
<1>2. ASSUME NEW i \in 1 .. Len(server)
      PROVE  /\ Len(peer.svcs[i].chrs) = Len(server[i].chrs)
             /\ \A j \in 1 .. Len(server[i].chrs) : SameChr(i, j)
  BY <1>1 DEF AllKnown, AllChrs, ChrsFound
<1>3. ASSUME NEW i \in 1 .. Len(server), NEW j \in 1 .. Len(server[i].chrs)
      PROVE  peer.svcs[i].chrs[j] \in 1 .. MaxChrs /\ peer.svcs[i].chrs[j] \in Range(Blocks(peer))
  BY <1>1, <1>2, PeerInvFacts, BlocksFacts
<1> QED
  BY <1>1, <1>2, <1>3

(* The next descriptor is the one behind those of that characteristic.     *)
IsNextDsc(h, d, c) ==
  /\ d \in Seq(Nat) /\ Len(d) \in Nat /\ Len(d) + 1 \in 1 .. Len(c.dscs)
  /\ h = c.dscs[Len(d) + 1] /\ h \in Nat
  /\ \A k \in 1 .. Len(d) : d[k] = c.dscs[k] /\ d[k] < h

(* The host reports the descriptor after those already held.               *)
LEMMA NextDsc ==
  ASSUME PeerInv, proc.kind = "dscs", NEW h, NextReported(h),
         NEW i, NEW j, AsksFor(i, j)
  PROVE  IsNextDsc(h, Held(i, j).dscs, server[i].chrs[j])
<1> DEFINE c == server[i].chrs[j]
           d == Held(i, j).dscs
           m == Len(d)
<1>1. /\ OrderedDatabase(server) /\ i \in 1 .. Len(server) /\ j \in 1 .. Len(server[i].chrs)
      /\ proc.lo = c.val /\ proc.hi = LastHandle(i, j) /\ DOMAIN server = 1 .. Len(server)
  BY PeerInvFacts DEF AsksFor, OrderedDatabase
<1>2. FindingDscs
  BY DEF PeerInv, Finding
<1>3. DOMAIN server[i].chrs = 1 .. Len(server[i].chrs)
  BY <1>1, DatabaseFacts
<1>4. d \in Seq(Nat) /\ m \in Nat /\ DOMAIN d = 1 .. m
  <2>1. peer.svcs[i].chrs[j] \in 1 .. MaxChrs
    BY <1>1, <1>2, KnownFacts DEF FindingDscs
  <2> QED
    BY <2>1, PeerInvFacts, MemFacts DEF Held
<1>5. DscsUpTo(c, d, proc.lo, proc.after)
  BY <1>1, <1>2, <1>3 DEF FindingDscs
<1>6. /\ m <= Len(c.dscs) /\ \A k \in 1 .. m : d[k] = c.dscs[k]
      /\ m = 0 => proc.after = 0
      /\ m # 0 => proc.after = c.dscs[m]
  <2>1. c.val = proc.lo /\ (d = <<>> <=> m = 0)
    BY <1>1, <1>4
  <2> HIDE DEF c, d
  <2>2. /\ m <= Len(c.dscs) /\ \A k \in DOMAIN d : d[k] = c.dscs[k]
        /\ proc.after = IF d = <<>> THEN 0 ELSE c.dscs[m]
    BY <1>5, <2>1 DEF DscsUpTo
  <2> QED
    BY <1>4, <2>1, <2>2
<1>7. h \in Attributes /\ h \in proc.lo + 1 .. proc.hi /\ h > proc.after /\ \A y \in Unreported : h <= y
  BY DEF NextReported, Unreported, Reportable
<1>8. c.val \in Nat /\ LastHandle(i, j) \in Nat /\ c.dscs \in Seq(Nat) /\ Len(c.dscs) \in Nat
      /\ DOMAIN c.dscs = 1 .. Len(c.dscs)
  <2>1. c.val \in Nat /\ c.dscs \in Seq(Nat) /\ Len(c.dscs) \in Nat /\ DOMAIN c.dscs = 1 .. Len(c.dscs)
    <3>1. OrderedDatabase(server) /\ i \in 1 .. Len(server) /\ j \in 1 .. Len(server[i].chrs)
      BY <1>1
    <3> QED
      BY <3>1, CharacteristicFacts
  <2>2. LastHandle(i, j) \in Nat
    BY <1>1, LastHandleFacts
  <2> QED
    BY <2>1, <2>2
<1>9. h \in Nat /\ c.val < h /\ h <= LastHandle(i, j)
  <2> DEFINE v == c.val
             last == LastHandle(i, j)
  <2>1. h \in v + 1 .. last /\ v \in Nat /\ last \in Nat
    BY <1>1, <1>7, <1>8
  <2> HIDE DEF v, last
  <2>2. h \in Nat /\ v < h /\ h <= last
    BY <2>1
  <2> QED
    BY <2>2 DEF v, last
<1>10. PICK n \in 1 .. Len(c.dscs) : h = c.dscs[n]
  BY <1>1, <1>7, <1>9, BetweenHandles
<1>11. \A k \in 1 .. Len(c.dscs) :
         /\ c.dscs[k] \in Nat /\ c.val < c.dscs[k] /\ c.dscs[k] <= LastHandle(i, j)
         /\ \A l \in 1 .. k - 1 : c.dscs[l] < c.dscs[k]
  BY <1>1, DscsGrow, LastHandleFacts
<1>12. \A k \in 1 .. Len(c.dscs) : c.dscs[k] > proc.after => h <= c.dscs[k]
  <2> SUFFICES ASSUME NEW k \in 1 .. Len(c.dscs), c.dscs[k] > proc.after PROVE h <= c.dscs[k]
    OBVIOUS
  <2>1. c.dscs[k] \in Attributes
    <3>1. c \in Range(ServerChrs)
      BY <1>1, ServerChrsFacts
    <3>2. c.dscs[k] \in Range(c.dscs)
      BY <1>8 DEF Range
    <3> HIDE DEF c
    <3> QED
      BY <3>1, <3>2 DEF Attributes
  <2>2. c.dscs[k] \in proc.lo + 1 .. proc.hi
    <3> DEFINE x == c.dscs[k]
               v == c.val
               last == LastHandle(i, j)
    <3>1. v < x /\ x <= last /\ v \in Nat /\ x \in Nat /\ last \in Nat
      BY <1>8, <1>11
    <3> HIDE DEF x, v, last
    <3>2. x \in v + 1 .. last
      BY <3>1
    <3> QED
      BY <1>1, <3>2 DEF x, v, last
  <2>3. c.dscs[k] \in Unreported
    BY <2>1, <2>2 DEF Unreported, Reportable
  <2> QED
    BY <1>7, <2>3
<1> DEFINE ds == c.dscs
<1>13. /\ n \in 1 .. Len(ds) /\ h = ds[n] /\ Len(ds) \in Nat /\ m \in Nat /\ m <= Len(ds)
       /\ \A k \in 1 .. Len(ds) : ds[k] \in Nat /\ (ds[k] > proc.after => h <= ds[k])
       /\ \A k \in 1 .. Len(ds) : \A l \in 1 .. k - 1 : ds[l] < ds[k]
       /\ h > proc.after /\ (m = 0 => proc.after = 0) /\ (m # 0 => proc.after = ds[m])
  BY <1>4, <1>6, <1>7, <1>8, <1>10, <1>11, <1>12
<1>14. \A k \in 1 .. Len(ds) : ds[k] > 0
  <2> SUFFICES ASSUME NEW k \in 1 .. Len(ds) PROVE ds[k] > 0
    OBVIOUS
  <2> DEFINE v == c.val
             x == ds[k]
  <2>1. v < x /\ v \in Nat /\ x \in Nat
    BY <1>8, <1>11
  <2> HIDE DEF v, x
  <2>2. x > 0
    BY <2>1
  <2> QED
    BY <2>2 DEF x
<1>15. \A k \in 1 .. m : d[k] = ds[k]
  BY <1>6
<1> HIDE DEF m, ds
<1>16. m < n
  <2> SUFFICES ASSUME ~(m < n) PROVE FALSE
    OBVIOUS
  <2>1. m \in 1 .. Len(ds) /\ m # 0 /\ (n = m \/ n \in 1 .. m - 1)
    BY <1>13
  <2>2. ds[n] = ds[m] \/ ds[n] < ds[m]
    BY <1>13, <2>1
  <2>3. ds[n] > ds[m] /\ ds[n] \in Nat /\ ds[m] \in Nat
    BY <1>13, <2>1
  <2> QED
    BY <2>2, <2>3
<1>17. m + 1 \in 1 .. Len(ds)
  BY <1>13, <1>16
<1>18. ds[m + 1] > proc.after /\ ds[m + 1] \in Nat
  <2> DEFINE k == m + 1
  <2>1. k \in 1 .. Len(ds) /\ (m # 0 => m \in 1 .. k - 1)
    BY <1>13, <1>17
  <2>2. ds[k] \in Nat /\ ds[k] > 0 /\ (m # 0 => ds[m] < ds[k])
    BY <1>13, <1>14, <2>1
  <2>3. m # 0 => ds[m] \in Nat
    BY <1>13
  <2>4. ds[k] > proc.after
    <3> HIDE DEF k
    <3>1. CASE m = 0
      BY <1>13, <2>2, <3>1
    <3>2. CASE m # 0
      BY <1>13, <2>2, <2>3, <3>2
    <3> QED
      BY <3>1, <3>2
  <2> QED
    BY <2>2, <2>4
<1>19. n = m + 1
  <2>1. h <= ds[m + 1]
    BY <1>13, <1>17, <1>18
  <2>2. m + 1 < n => ds[m + 1] < ds[n]
    <3>1. m + 1 < n => m + 1 \in 1 .. n - 1
      BY <1>17, <1>13
    <3> QED
      BY <1>13, <3>1
  <2>3. ds[n] \in Nat
    BY <1>13
  <2>4. ~(m + 1 < n)
    BY <1>13, <1>18, <2>1, <2>2, <2>3
  <2> QED
    BY <1>13, <1>16, <2>4
<1>20. ASSUME NEW k \in 1 .. m PROVE d[k] = ds[k] /\ d[k] < h
  <2>1. k \in 1 .. n - 1
    BY <1>13, <1>16
  <2> QED
    BY <1>13, <1>15, <2>1
<1>21. /\ d \in Seq(Nat) /\ m \in Nat /\ m + 1 \in 1 .. Len(c.dscs)
       /\ h = c.dscs[m + 1] /\ h \in Nat
       /\ \A k \in 1 .. m : d[k] = c.dscs[k] /\ d[k] < h
  BY <1>4, <1>9, <1>13, <1>17, <1>19, <1>20 DEF ds
<1> HIDE DEF c, d
<1>22. IsNextDsc(h, d, c)
  BY <1>21 DEF m, IsNextDsc
<1> QED
  BY <1>22 DEF c, d

(* peer_dsc_disced keeps the invariant: the descriptor goes to the one     *)
(* characteristic with the value handle asked for.                         *)
LEMMA DscFoundKeeps ==
  ASSUME PeerInv, proc.kind = "dscs", NEW h, NextReported(h), DscFound(h), UNCHANGED server
  PROVE  PeerInv'
<1>1. peer \in KnownPeers /\ proc # NoProc /\ peer.known /\ completion = "no" /\ proc \in Procedures
  BY PeerInvFacts DEF PeerInv, PeerControl, NoProc
<1>2. CASE freeDscs = 0
  BY <1>1, <1>2, CompleteFails DEF DscFound
<1>3. CASE freeDscs # 0
  <2>1. FindingDscs
    BY DEF PeerInv, Finding
  <2>2. OrderedDatabase(server) /\ DOMAIN server = 1 .. Len(server)
        /\ chrMem \in [1 .. MaxChrs -> Characteristics]
    BY PeerInvFacts DEF OrderedDatabase
  <2>3. \A k \in 1 .. Len(server) : DOMAIN server[k].chrs = 1 .. Len(server[k].chrs)
    BY <2>2, DatabaseFacts
  <2>4. PICK i : \E j : AsksFor(i, j)
    BY <2>1, <2>2, <2>3 DEF FindingDscs, AsksFor
  <2>5. PICK j : AsksFor(i, j)
    BY <2>4
  <2>6. i \in 1 .. Len(server) /\ j \in 1 .. Len(server[i].chrs) /\ proc.lo = server[i].chrs[j].val
    BY <2>5 DEF AsksFor
  <2>7. AllKnown
    BY <2>1 DEF FindingDscs
  <2>a. PICK b : b = peer.svcs[i].chrs[j]
    OBVIOUS
  <2>b. PICK c : c = server[i].chrs[j]
    OBVIOUS
  <2>c. PICK d : d = chrMem[b].dscs
    OBVIOUS
  <2>d. PICK m : m = Len(d)
    OBVIOUS
  <2>8. /\ d \in Seq(Nat) /\ m \in Nat /\ m + 1 \in 1 .. Len(c.dscs)
        /\ h = c.dscs[m + 1] /\ h \in Nat
        /\ \A k \in 1 .. m : d[k] = c.dscs[k] /\ d[k] < h
    <3>1. IsNextDsc(h, Held(i, j).dscs, server[i].chrs[j])
      BY <2>5, NextDsc
    <3>2. d = Held(i, j).dscs
      BY <2>a, <2>c DEF Held
    <3>3. IsNextDsc(h, d, c)
      BY <2>b, <3>1, <3>2
    <3> QED
      BY <2>d, <3>3 DEF IsNextDsc
  <2>9. b \in 1 .. MaxChrs /\ b \in Range(Blocks(peer)) /\ SameChr(i, j)
    BY <2>6, <2>7, <2>a, KnownFacts
  <2>10. \A k \in 1 .. Len(server) : \A l \in 1 .. Len(server[k].chrs) :
           /\ peer.svcs[k].chrs[l] = b => k = i /\ l = j
           /\ server[k].chrs[l].val = proc.lo => k = i /\ l = j
    <3> SUFFICES ASSUME NEW k \in 1 .. Len(server), NEW l \in 1 .. Len(server[k].chrs)
                 PROVE  /\ peer.svcs[k].chrs[l] = b => k = i /\ l = j
                        /\ server[k].chrs[l].val = proc.lo => k = i /\ l = j
      OBVIOUS
    <3>1. server[k].chrs[l].val = proc.lo => k = i /\ l = j
      BY <2>2, <2>6, HandlesDiffer, SMTT(30)
    <3>2. peer.svcs[k].chrs[l] = b => k = i /\ l = j
      <4>1. /\ i \in 1 .. Len(peer.svcs) /\ j \in 1 .. Len(peer.svcs[i].chrs)
            /\ k \in 1 .. Len(peer.svcs) /\ l \in 1 .. Len(peer.svcs[k].chrs)
        BY <2>6, <2>7, KnownFacts
      <4>2. freeChrs \in Seq(1 .. MaxChrs) /\ ChrsAccounted(peer, freeChrs)
        BY PeerInvFacts
      <4> QED
        BY <1>1, <2>a, <4>1, <4>2, OnePlace
    <3> QED
      BY <3>1, <3>2
  <2>11. (CHOOSE x \in Range(Blocks(peer)) : chrMem[x].val = proc.lo) = b
    <3>1. chrMem[b].val = proc.lo
      BY <2>6, <2>9, <2>a DEF SameChr, Held
    <3>2. ASSUME NEW x \in Range(Blocks(peer)), chrMem[x].val = proc.lo PROVE x = b
      <4>1. PICK k \in 1 .. Len(peer.svcs) : \E l \in 1 .. Len(peer.svcs[k].chrs) : x = peer.svcs[k].chrs[l]
        BY <1>1, BlocksFacts
      <4>2. PICK l \in 1 .. Len(peer.svcs[k].chrs) : x = peer.svcs[k].chrs[l]
        BY <4>1
      <4>3. k \in 1 .. Len(server) /\ l \in 1 .. Len(server[k].chrs)
        BY <2>7, KnownFacts
      <4>4. SameChr(k, l)
        BY <2>7, <4>3, KnownFacts
      <4>5. server[k].chrs[l].val = proc.lo
        BY <3>2, <4>2, <4>4 DEF SameChr, Held
      <4> QED
        BY <2>10, <2>a, <4>2, <4>3, <4>5
    <3> QED
      BY <2>9, <3>1, <3>2
  <2>12. Before(d, LAMBDA x : x, h) = m
    <3> DEFINE T == {k \in DOMAIN d : \A l \in 1 .. k : d[l] < h}
    <3>1. T = 1 .. m
      BY <2>8, <2>d
    <3>2. Cardinality(T) = m
      <4> HIDE DEF T
      <4> QED
        BY <2>8, <3>1, AllCounted
    <3> QED
      BY <3>2 DEF Before
  <2>13. InsertDropping(d, m, h) = Append(d, h)
    BY <2>8, <2>d, InsertLast
  <2>14. /\ chrMem' = [chrMem EXCEPT ![b].dscs = Append(d, h)]
         /\ freeDscs' = freeDscs - 1
         /\ proc' = [proc EXCEPT !.after = h]
         /\ UNCHANGED <<peer, freeChrs, freeSvcs, completion>>
    BY <1>3, <2>11, <2>12, <2>13, <2>c DEF DscFound
  <2>15. /\ Append(d, h) \in Seq(Nat) /\ Len(Append(d, h)) = m + 1
         /\ \A k \in 1 .. m : Append(d, h)[k] = d[k]
         /\ Append(d, h)[m + 1] = h /\ Append(d, h) # <<>>
    BY <2>8, <2>d, AppendProperties
  <2>16. /\ chrMem' \in [1 .. MaxChrs -> Characteristics]
         /\ chrMem'[b].def = chrMem[b].def /\ chrMem'[b].val = chrMem[b].val
         /\ chrMem'[b].uuid = chrMem[b].uuid /\ chrMem'[b].dscs = Append(d, h)
         /\ \A x \in 1 .. MaxChrs : x # b => chrMem'[x] = chrMem[x]
    <3> DEFINE a == Append(d, h)
               e == [chrMem[b] EXCEPT !.dscs = a]
    <3>1. a \in Seq(Nat) /\ chrMem[b] \in Characteristics
      BY <2>2, <2>9, <2>15
    <3> HIDE DEF a
    <3>2. /\ e \in Characteristics /\ e.def = chrMem[b].def /\ e.val = chrMem[b].val
          /\ e.uuid = chrMem[b].uuid /\ e.dscs = a
      BY <3>1 DEF Characteristics
    <3>3. chrMem' = [chrMem EXCEPT ![b] = e]
      BY <2>14 DEF a
    <3> HIDE DEF e
    <3>4. /\ chrMem' \in [1 .. MaxChrs -> Characteristics] /\ chrMem'[b] = e
          /\ \A x \in 1 .. MaxChrs : x # b => chrMem'[x] = chrMem[x]
      BY <2>2, <2>9, <3>2, <3>3
    <3> QED
      BY <3>2, <3>4 DEF a
  <2>17. ASSUME NEW k \in 1 .. Len(server), NEW l \in 1 .. Len(server[k].chrs)
         PROVE  /\ SameChr(k, l)'
                /\ k # i \/ l # j => Held(k, l)' = Held(k, l)
    <3>1. peer.svcs[k].chrs[l] \in 1 .. MaxChrs /\ SameChr(k, l)
      BY <2>7, KnownFacts
    <3>2. CASE k = i /\ l = j
      BY <2>14, <2>16, <2>a, <3>1, <3>2 DEF SameChr, Held
    <3>3. CASE k # i \/ l # j
      <4>1. Held(k, l)' = Held(k, l)
        BY <2>10, <2>14, <2>16, <3>1, <3>3 DEF Held
      <4> QED
        BY <3>1, <4>1 DEF SameChr
    <3> QED
      BY <3>2, <3>3
  <2>18. PeerTypeOK'
    <3>1. proc' \in Procedures
      BY <1>1, <2>8, <2>14 DEF Procedures
    <3>2. freeDscs - 1 \in Nat
      BY <1>3, PeerInvFacts
    <3> QED
      BY <2>14, <2>16, <3>1, <3>2 DEF PeerInv, PeerTypeOK
  <2>19. PeerControl'
    BY <1>1, <2>14 DEF PeerControl
  <2>20. PoolsAccounted'
    <3>1. Len(Descriptors(peer, chrMem')) = Len(Descriptors(peer, chrMem)) + 1
      <4> DEFINE ss == DscLists(peer, chrMem)
                 tt == DscLists(peer, chrMem')
      <4>1. /\ ss \in Seq(Seq(Nat)) /\ tt \in Seq(Seq(Nat))
            /\ Len(ss) = Len(Blocks(peer)) /\ Len(tt) = Len(ss)
            /\ Descriptors(peer, chrMem) = FlattenSeq(ss) /\ Descriptors(peer, chrMem') = FlattenSeq(tt)
        BY <1>1, <2>2, <2>16, DscListsFacts
      <4>2. \A n \in 1 .. Len(Blocks(peer)) :
              /\ Blocks(peer)[n] \in 1 .. MaxChrs
              /\ ss[n] = chrMem[Blocks(peer)[n]].dscs /\ tt[n] = chrMem'[Blocks(peer)[n]].dscs
        BY <1>1, <2>2, <2>16, DscListsFacts
      <4>3. PICK n \in 1 .. Len(Blocks(peer)) : Blocks(peer)[n] = b
        BY <1>1, <2>9, BlocksFacts DEF Range
      <4>4. \A k \in 1 .. Len(Blocks(peer)) : k # n => Blocks(peer)[k] # b
        <5>1. Once(Blocks(peer))
          BY <1>1, PeerInvFacts, OnePlace
        <5> QED
          BY <4>3, <5>1 DEF Once
      <4>5. Len(tt[n]) = Len(ss[n]) + 1
        BY <2>15, <2>16, <2>c, <2>d, <4>2, <4>3
      <4>6. \A k \in 1 .. Len(ss) : k # n => Len(tt[k]) = Len(ss[k])
        <5> HIDE DEF ss, tt
        <5> SUFFICES ASSUME NEW k \in 1 .. Len(ss), k # n PROVE tt[k] = ss[k]
          OBVIOUS
        <5>1. k \in 1 .. Len(Blocks(peer))
          BY <4>1
        <5>2. Blocks(peer)[k] \in 1 .. MaxChrs /\ Blocks(peer)[k] # b
          BY <4>2, <4>4, <5>1
        <5>3. chrMem'[Blocks(peer)[k]] = chrMem[Blocks(peer)[k]]
          BY <2>16, <5>2
        <5> QED
          BY <4>2, <5>1, <5>3
      <4>7. n \in 1 .. Len(ss)
        BY <4>1
      <4> HIDE DEF ss, tt
      <4>8. Len(FlattenSeq(tt)) = Len(FlattenSeq(ss)) + 1
        BY <4>1, <4>5, <4>6, <4>7, FlattenGrows
      <4> QED
        BY <4>1, <4>8
    <3>2. Len(Descriptors(peer, chrMem)) \in Nat
      BY <1>1, <2>2, DscListsFacts
    <3>3. freeDscs' + Len(Descriptors(peer', chrMem')) = MaxDscs
      <4> DEFINE x == Len(Descriptors(peer, chrMem))
                 y == Len(Descriptors(peer, chrMem'))
      <4>1. y = x + 1 /\ x \in Nat /\ freeDscs + x = MaxDscs /\ freeDscs \in Nat
        BY <3>1, <3>2, PeerInvFacts
      <4> HIDE DEF x, y
      <4>2. freeDscs - 1 + y = MaxDscs
        BY <4>1
      <4> QED
        BY <2>14, <4>2 DEF y
    <3> QED
      BY <2>14, <3>3, PeerInvFacts, PoolsAccountedAfter
  <2>21. AllKnown'
    <3>1. AllServices'
      <4>1. ASSUME NEW k \in 1 .. Len(server) PROVE SameService(k)'
        BY <2>2, <2>7, <2>14 DEF AllKnown, AllServices, SameService
      <4> QED
        BY <2>2, <2>7, <2>14, <4>1 DEF AllKnown, AllServices
    <3>2. ASSUME NEW k \in 1 .. Len(server) PROVE AllChrs(k)'
      <4>1. Len(peer'.svcs[k].chrs) = Len(server[k].chrs) /\ Len(server[k].chrs) \in Nat
        BY <2>2, <2>7, <2>14, KnownFacts, DatabaseFacts
      <4> QED
        BY <2>17, <4>1 DEF AllChrs, ChrsFound
    <3> QED
      BY <2>2, <3>1, <3>2 DEF AllKnown
  <2>22. \A k \in DOMAIN server' : \A l \in DOMAIN server'[k].chrs :
           DscsUpTo(server'[k].chrs[l], (Held(k, l)').dscs, proc'.lo, proc'.after)
    <3> SUFFICES ASSUME NEW k \in 1 .. Len(server), NEW l \in 1 .. Len(server[k].chrs)
                 PROVE  DscsUpTo(server[k].chrs[l], (Held(k, l)').dscs, proc.lo, h)
      <4>1. proc'.lo = proc.lo /\ proc'.after = h
        BY <1>1, <2>14 DEF Procedures
      <4> QED
        BY <2>2, <2>3, <4>1
    <3>1. CASE k = i /\ l = j
      <4>1. (Held(i, j)').dscs = Append(d, h)
        BY <2>14, <2>16, <2>a DEF Held
      <4>2. c.val = proc.lo /\ c.val \in Nat /\ c.dscs \in Seq(Nat)
        BY <2>2, <2>6, <2>b, CharacteristicFacts
      <4> DEFINE a == Append(d, h)
      <4>3. /\ Len(a) <= Len(c.dscs) /\ (\A n \in DOMAIN a : a[n] = c.dscs[n])
            /\ a # <<>> /\ h = c.dscs[Len(a)]
        <5>1. DOMAIN a = 1 .. m + 1 /\ Len(a) = m + 1
          BY <2>15
        <5>2. \A n \in 1 .. m + 1 : n = m + 1 \/ n \in 1 .. m
          BY <2>8
        <5>3. Len(c.dscs) \in Nat /\ a # <<>>
          BY <2>15, <4>2, LenProperties
        <5> HIDE DEF a
        <5>4. Len(a) <= Len(c.dscs) /\ h = c.dscs[Len(a)]
          BY <2>8, <5>1, <5>3
        <5>5. \A n \in DOMAIN a : a[n] = c.dscs[n]
          BY <2>8, <2>15, <5>1, <5>2 DEF a
        <5> QED
          BY <5>3, <5>4, <5>5
      <4> HIDE DEF a
      <4>4. DscsUpTo(c, a, proc.lo, h)
        BY <4>2, <4>3 DEF DscsUpTo
      <4> QED
        BY <2>b, <3>1, <4>1, <4>4 DEF a
    <3>2. CASE k # i \/ l # j
      <4>1. Held(k, l)' = Held(k, l)
        BY <2>17, <3>2
      <4>2. DscsUpTo(server[k].chrs[l], Held(k, l).dscs, proc.lo, proc.after)
        BY <2>1, <2>2, <2>3 DEF FindingDscs
      <4>3. server[k].chrs[l].val # proc.lo
        BY <2>10, <3>2
      <4> QED
        BY <4>1, <4>2, <4>3 DEF DscsUpTo
    <3> QED
      BY <3>1, <3>2
  <2>23. FindingDscs'
    <3>1. peer'.prevVal = proc'.lo
      BY <1>1, <2>1, <2>14 DEF FindingDscs, Procedures
    <3>2. \E k \in DOMAIN server' : \E l \in DOMAIN server'[k].chrs :
            proc'.lo = server'[k].chrs[l].val /\ proc'.hi = LastHandle(k, l)'
      <4>1. proc'.lo = proc.lo /\ proc'.hi = proc.hi
        BY <1>1, <2>14 DEF Procedures
      <4>2. LastHandle(i, j)' = LastHandle(i, j)
        BY DEF LastHandle
      <4> QED
        BY <2>2, <2>3, <2>5, <2>6, <4>1, <4>2 DEF AsksFor
    <3> QED
      BY <2>21, <2>22, <3>1, <3>2 DEF FindingDscs
  <2>24. Finding'
    <3>1. proc'.kind = "dscs"
      BY <1>1, <2>14 DEF Procedures
    <3> QED
      BY <2>23, <3>1 DEF Finding
  <2>25. DiscoveryExact'
    BY <1>1, <2>14 DEF DiscoveryExact
  <2> QED
    BY <2>18, <2>19, <2>20, <2>24, <2>25 DEF PeerInv
<1> QED
  BY <1>2, <1>3, PeerInvFacts

(* Each report of the host keeps the invariant.                            *)
LEMMA FoundKeeps ==
  ASSUME PeerInv, Found
  PROVE  PeerInv'
<1> DEFINE h == CHOOSE x \in Unreported : \A y \in Unreported : x <= y
<1>1. NextReported(h)
  BY LeastReported DEF Found
<1>2. /\ UNCHANGED server
      /\ \/ proc.kind = "svcs" /\ SvcFound(h)
         \/ proc.kind = "chrs" /\ ChrFound(h)
         \/ proc.kind = "dscs" /\ DscFound(h)
  BY DEF Found
<1> HIDE DEF h
<1> QED
  BY <1>1, <1>2, SvcFoundKeeps, ChrFoundKeeps, DscFoundKeeps

(* As long as something is missing, it is still to be reported.            *)
LEMMA ServiceLeft ==
  ASSUME PeerInv, proc.kind = "svcs", Unreported = {}
  PROVE  Len(peer.svcs) = Len(server)
<1>1. OrderedDatabase(server) /\ DOMAIN server = 1 .. Len(server) /\ Len(server) \in Nat
  BY PeerInvFacts DEF OrderedDatabase
<1>2. FindingServices
  BY DEF PeerInv, Finding
<1>a. PICK m : m = Len(peer.svcs)
  OBVIOUS
<1>3. m \in Nat /\ m <= Len(server) /\ proc.after = IF m = 0 THEN 0 ELSE server[m].start
  BY <1>2, <1>a, PeerInvFacts, PeerFacts DEF FindingServices
<1> SUFFICES ASSUME m < Len(server) PROVE FALSE
  BY <1>1, <1>3, <1>a
<1>4. m + 1 \in 1 .. Len(server)
  BY <1>1, <1>3
<1>5. server[m + 1].start \in Reportable
  BY <1>1, <1>4 DEF Reportable
<1>6. server[m + 1].start > proc.after
  <2>1. 0 < server[m + 1].start /\ server[m + 1].start \in Nat
    BY <1>1, <1>4, DatabaseFacts
  <2>2. m # 0 => m \in 1 .. Len(server) /\ m \in 1 .. (m + 1) - 1
    BY <1>3
  <2>3. m # 0 => server[m].start < server[m + 1].start /\ server[m].start \in Nat
    BY <1>1, <1>4, <2>2, StartsGrow, DatabaseFacts
  <2>4. CASE m = 0
    BY <1>3, <2>1, <2>4
  <2>5. CASE m # 0
    BY <1>3, <2>1, <2>3, <2>5
  <2> QED
    BY <2>4, <2>5
<1> QED
  BY <1>5, <1>6 DEF Unreported

(* When no characteristic is left to report, all those of the service are  *)
(* held.                                                                   *)
LEMMA ChrLeft ==
  ASSUME PeerInv, proc.kind = "chrs", Unreported = {}
  PROVE  AllChrs(peer.cur)
<1>1. OrderedDatabase(server) /\ DOMAIN server = 1 .. Len(server) /\ Len(server) \in Nat
  BY PeerInvFacts DEF OrderedDatabase
<1>2. FindingChrs
  BY DEF PeerInv, Finding
<1>a. PICK s : s = peer.cur
  OBVIOUS
<1>b. PICK m : m = Len(peer.svcs[s].chrs)
  OBVIOUS
<1>c. PICK chrs : chrs = server[s].chrs
  OBVIOUS
<1>3. s \in 1 .. Len(server) /\ s \in 1 .. Len(peer.svcs)
  BY <1>1, <1>2, <1>a DEF FindingChrs, AllServices
<1>4. ChrsFound(s, m) /\ m \in Nat /\ m <= Len(chrs) /\ Len(chrs) \in Nat
  <2>1. ChrsFound(s, m)
    BY <1>2, <1>a, <1>b DEF FindingChrs
  <2>2. m \in Nat
    BY <1>3, <1>b, PeerInvFacts, PeerFacts
  <2>3. Len(chrs) \in Nat
    BY <1>1, <1>3, <1>c, DatabaseFacts
  <2> QED
    BY <1>c, <2>1, <2>2, <2>3 DEF ChrsFound
<1>5. m = Len(chrs)
  <2> SUFFICES ASSUME m < Len(chrs) PROVE FALSE
    BY <1>4
  <2>a. PICK n : n = m + 1
    OBVIOUS
  <2>b. PICK c : c = chrs[n]
    OBVIOUS
  <2>1. n \in 1 .. Len(server[s].chrs) /\ (m # 0 => m \in 1 .. Len(server[s].chrs) /\ m < n)
    BY <1>4, <1>c, <2>a
  <2>2. /\ c \in Range(ServerChrs) /\ c.def \in Nat /\ c.val \in Nat /\ c.def < c.val
        /\ server[s].start < c.def /\ c.val <= server[s].end
        /\ server[s].start \in Nat /\ server[s].end \in Nat
    BY <1>1, <1>3, <1>c, <2>1, <2>b, ServerChrsFacts, CharacteristicFacts, DatabaseFacts
       DEF InHandleOrder, WithinService
  <2>3. c.def \in Reportable
    <3>1. PICK x \in DOMAIN ServerChrs : c = ServerChrs[x]
      BY <1>1, <2>2, ServerChrsFacts
    <3>2. c.def \in {ServerChrs[i].def : i \in DOMAIN ServerChrs}
      BY <3>1
    <3>3. proc.lo = server[s].start /\ proc.hi = server[s].end
      BY <1>2, <1>a DEF FindingChrs
    <3>4. c.def \in proc.lo .. proc.hi
      BY <2>2, <3>3
    <3> QED
      BY <3>2, <3>4 DEF Reportable
  <2>4. m # 0 => chrs[m].def < c.def /\ chrs[m].def \in Nat
    <3>1. m # 0 => server[s].chrs[m].def < server[s].chrs[n].def /\ server[s].chrs[m].def \in Nat
      BY <1>1, <1>3, <2>1, DefsGrow, CharacteristicFacts
    <3> QED
      BY <1>c, <2>b, <3>1
  <2>5. proc.after = IF m = 0 THEN 0 ELSE chrs[m].def
    <3>1. peer.svcs[s].chrs = <<>> <=> m = 0
      BY <1>3, <1>b, PeerInvFacts, PeerFacts
    <3> QED
      BY <1>2, <1>a, <1>b, <1>c, <3>1 DEF FindingChrs
  <2>6. c.def > proc.after
    <3>1. CASE m = 0
      BY <2>2, <2>5, <3>1
    <3>2. CASE m # 0
      BY <2>2, <2>4, <2>5, <3>2
    <3> QED
      BY <3>1, <3>2
  <2> QED
    BY <2>3, <2>6 DEF Unreported
<1> QED
  BY <1>4, <1>5, <1>a, <1>c DEF AllChrs

(* When no descriptor is left to report, all those of the characteristic   *)
(* are held.                                                               *)
LEMMA DscLeft ==
  ASSUME PeerInv, proc.kind = "dscs", Unreported = {}, NEW i, NEW j, AsksFor(i, j)
  PROVE  Held(i, j).dscs = server[i].chrs[j].dscs
<1>1. /\ OrderedDatabase(server) /\ i \in 1 .. Len(server) /\ j \in 1 .. Len(server[i].chrs)
      /\ proc.lo = server[i].chrs[j].val /\ proc.hi = LastHandle(i, j) /\ DOMAIN server = 1 .. Len(server)
  BY PeerInvFacts DEF AsksFor, OrderedDatabase
<1>2. FindingDscs
  BY DEF PeerInv, Finding
<1>3. DOMAIN server[i].chrs = 1 .. Len(server[i].chrs)
  BY <1>1, DatabaseFacts
<1>a. PICK c : c = server[i].chrs[j]
  OBVIOUS
<1>b. PICK d : d = Held(i, j).dscs
  OBVIOUS
<1>c. PICK m : m = Len(d)
  OBVIOUS
<1>d. PICK ds : ds = c.dscs
  OBVIOUS
<1>4. d \in Seq(Nat) /\ m \in Nat /\ DOMAIN d = 1 .. m
  <2>1. peer.svcs[i].chrs[j] \in 1 .. MaxChrs
    BY <1>1, <1>2, KnownFacts DEF FindingDscs
  <2> QED
    BY <2>1, <1>b, <1>c, PeerInvFacts, MemFacts DEF Held
<1>5. /\ c.val \in Nat /\ ds \in Seq(Nat) /\ Len(ds) \in Nat /\ DOMAIN ds = 1 .. Len(ds)
      /\ c \in Range(ServerChrs)
  <2>1. OrderedDatabase(server) /\ i \in 1 .. Len(server) /\ j \in 1 .. Len(server[i].chrs)
    BY <1>1
  <2>2. /\ server[i].chrs[j].val \in Nat /\ server[i].chrs[j].dscs \in Seq(Nat)
        /\ DOMAIN server[i].chrs[j].dscs = 1 .. Len(server[i].chrs[j].dscs)
        /\ Len(server[i].chrs[j].dscs) \in Nat
    BY <2>1, CharacteristicFacts
  <2>3. server[i].chrs[j] \in Range(ServerChrs)
    BY <2>1, ServerChrsFacts
  <2> QED
    BY <1>a, <1>d, <2>1, <2>2, <2>3
<1>6. /\ m <= Len(ds) /\ \A k \in 1 .. m : d[k] = ds[k]
      /\ proc.after = IF m = 0 THEN 0 ELSE ds[m]
  <2>1. DscsUpTo(c, d, proc.lo, proc.after)
    BY <1>1, <1>2, <1>3, <1>a, <1>b DEF FindingDscs
  <2>2. c.val = proc.lo /\ (d = <<>> <=> m = 0)
    BY <1>1, <1>4, <1>a, <1>c
  <2> QED
    BY <1>4, <1>c, <1>d, <2>1, <2>2 DEF DscsUpTo
<1>7. m = Len(ds)
  <2>d. PICK len : len = Len(ds)
    OBVIOUS
  <2> SUFFICES ASSUME m < len PROVE FALSE
    <3>1. m \in Nat /\ len \in Nat /\ m <= len
      BY <1>4, <1>5, <1>6, <2>d
    <3> QED
      BY <2>d, <3>1
  <2>a. PICK n : n = m + 1
    OBVIOUS
  <2>b. PICK x : x = ds[n]
    OBVIOUS
  <2>c. PICK last : last = LastHandle(i, j)
    OBVIOUS
  <2>1. n \in 1 .. Len(ds) /\ (m # 0 => m \in 1 .. n - 1 /\ m \in 1 .. Len(ds))
    BY <1>4, <1>5, <2>a, <2>d
  <2>2. /\ x \in Nat /\ c.val < x /\ x <= last /\ last \in Nat
        /\ m # 0 => ds[m] < x /\ ds[m] \in Nat
    <3>1. n \in 1 .. Len(server[i].chrs[j].dscs) /\ (m # 0 => m \in 1 .. Len(server[i].chrs[j].dscs))
      BY <1>a, <1>d, <2>1
    <3>2. /\ server[i].chrs[j].dscs[n] \in Nat /\ server[i].chrs[j].val < server[i].chrs[j].dscs[n]
          /\ \A k \in 1 .. n - 1 : server[i].chrs[j].dscs[k] < server[i].chrs[j].dscs[n]
      BY <1>1, <3>1, DscsGrow
    <3>3. LastHandle(i, j) \in Nat /\ server[i].chrs[j].dscs[n] <= LastHandle(i, j)
      BY <1>1, <3>1, LastHandleFacts
    <3>4. m # 0 => ds[m] \in Nat
      BY <1>5, <2>1, ElementOfSeq
    <3> QED
      BY <1>a, <1>d, <2>1, <2>b, <2>c, <3>2, <3>3, <3>4
  <2>3. x \in Attributes
    <3>1. x \in Range(c.dscs)
      BY <1>5, <1>d, <2>1, <2>b DEF Range
    <3> QED
      BY <1>5, <3>1 DEF Attributes
  <2>4. x \in proc.lo + 1 .. proc.hi
    BY <1>1, <1>5, <1>a, <2>2, <2>c
  <2>5. x > proc.after
    <3>1. CASE m = 0
      BY <1>5, <1>6, <2>2, <3>1
    <3>2. CASE m # 0
      BY <1>6, <2>2, <3>2
    <3> QED
      BY <3>1, <3>2
  <2> QED
    BY <2>3, <2>4, <2>5 DEF Unreported, Reportable
<1>8. d = ds
  BY <1>4, <1>5, <1>6, <1>7, <1>c, SeqEqual
<1> QED
  BY <1>8, <1>a, <1>b, <1>d

-----------------------------------------------------------------------------
(* All descriptors of the characteristics up to the value handle v are     *)
(* known, and none of those behind it.                                     *)
DscsKnownTo(v) ==
  /\ AllKnown
  /\ \/ v = 1
     \/ \E i \in 1 .. Len(server) : \E j \in 1 .. Len(server[i].chrs) : v = server[i].chrs[j].val
  /\ \A i \in 1 .. Len(server) : \A j \in 1 .. Len(server[i].chrs) :
       /\ server[i].chrs[j].val <= v => Held(i, j).dscs = server[i].chrs[j].dscs
       /\ server[i].chrs[j].val > v => Held(i, j).dscs = <<>>

(* The characteristics that peer_disc_dscs chooses from.                   *)
Bare == {x \in Places : /\ EndAt(x) > ChrAt(x).val /\ ChrAt(x).dscs = <<>>
                        /\ peer.prevVal <= ChrAt(x).def}

(* Once all characteristics are known, the client computes of each the     *)
(* last handle that may belong to it.                                      *)
LEMMA PlaceFacts ==
  ASSUME PeerInv, AllKnown
  PROVE  /\ \A x \in Places : \E i \in 1 .. Len(server) : \E j \in 1 .. Len(server[i].chrs) : x = <<i, j>>
         /\ \A i \in 1 .. Len(server) : \A j \in 1 .. Len(server[i].chrs) :
              /\ <<i, j>> \in Places
              /\ ChrAt(<<i, j>>) = Held(i, j) /\ EndAt(<<i, j>>) = LastHandle(i, j)
<1>1. /\ Len(peer.svcs) = Len(server) /\ Len(server) \in Nat
      /\ DOMAIN peer.svcs = 1 .. Len(server)
      /\ \A i \in 1 .. Len(server) : /\ DOMAIN peer.svcs[i].chrs = 1 .. Len(server[i].chrs)
                                     /\ Len(peer.svcs[i].chrs) = Len(server[i].chrs)
                                     /\ Len(server[i].chrs) \in Nat
  <2>1. /\ Len(peer.svcs) = Len(server) /\ DOMAIN peer.svcs = 1 .. Len(server) /\ Len(server) \in Nat
    BY KnownFacts, PeerInvFacts, PeerFacts
  <2> QED
    BY <2>1, KnownFacts, PeerInvFacts, PeerFacts
<1>2. ASSUME NEW x \in Places
      PROVE  \E i \in 1 .. Len(server) : \E j \in 1 .. Len(server[i].chrs) : x = <<i, j>>
  <2>1. PICK i \in 1 .. Len(server) : x \in {i} \X DOMAIN peer.svcs[i].chrs
    BY <1>1 DEF Places
  <2>2. PICK j \in DOMAIN peer.svcs[i].chrs : x = <<i, j>>
    BY <2>1
  <2> QED
    BY <1>1, <2>2
<1>3. ASSUME NEW i \in 1 .. Len(server), NEW j \in 1 .. Len(server[i].chrs)
      PROVE  <<i, j>> \in Places /\ ChrAt(<<i, j>>) = Held(i, j) /\ EndAt(<<i, j>>) = LastHandle(i, j)
  <2>1. <<i, j>> \in {i} \X DOMAIN peer.svcs[i].chrs
    BY <1>1
  <2>2. <<i, j>> \in Places
    BY <1>1, <2>1 DEF Places
  <2>3. <<i, j>>[1] = i /\ <<i, j>>[2] = j
    OBVIOUS
  <2>4. ChrAt(<<i, j>>) = Held(i, j)
    BY <2>3 DEF ChrAt, Held
  <2>5. peer.svcs[i].end = server[i].end
    BY <1>1, KnownFacts DEF AllKnown, AllServices, SameService
  <2>6. j < Len(server[i].chrs) => chrMem[peer.svcs[i].chrs[j + 1]].def = server[i].chrs[j + 1].def
    <3> SUFFICES ASSUME j < Len(server[i].chrs)
                 PROVE  chrMem[peer.svcs[i].chrs[j + 1]].def = server[i].chrs[j + 1].def
      OBVIOUS
    <3>1. PICK k : k = j + 1
      OBVIOUS
    <3>2. k \in 1 .. Len(server[i].chrs)
      BY <1>1, <3>1
    <3>3. SameChr(i, k)
      BY <3>2, KnownFacts
    <3> QED
      BY <3>1, <3>3 DEF SameChr, Held
  <2>7. EndAt(<<i, j>>) = LastHandle(i, j)
    <3>1. Len(peer.svcs[i].chrs) = Len(server[i].chrs)
      BY <1>1
    <3>2. EndAt(<<i, j>>) = ChrEnd(peer.svcs[i], j)
      BY <2>3 DEF EndAt
    <3> QED
      BY <2>5, <2>6, <3>1, <3>2 DEF ChrEnd, LastHandle
  <2> QED
    BY <2>2, <2>4, <2>7
<1> QED
  BY <1>2, <1>3

(* disc_prev_chr_val tells the characteristics still to be asked for from  *)
(* those that were.                                                        *)
LEMMA StillToAsk ==
  ASSUME PeerInv, NEW v \in Nat, DscsKnownTo(v), NEW i \in 1 .. Len(server), NEW j \in 1 .. Len(server[i].chrs)
  PROVE  v <= Held(i, j).def <=> v < server[i].chrs[j].val
<1>a. PICK c : c = server[i].chrs[j]
  OBVIOUS
<1>1. OrderedDatabase(server) /\ i \in 1 .. Len(server) /\ j \in 1 .. Len(server[i].chrs)
  BY PeerInvFacts
<1>2. c.def \in Nat /\ c.val \in Nat /\ c.def < c.val /\ 1 < c.def
  <2>1. c.def \in Nat /\ c.val \in Nat /\ c.def < c.val /\ server[i].start < c.def
    BY <1>1, <1>a, CharacteristicFacts DEF InHandleOrder, WithinService
  <2>2. 0 < server[i].start /\ server[i].start \in Nat
    BY <1>1, DatabaseFacts
  <2> QED
    BY <2>1, <2>2
<1>3. Held(i, j).def = c.def
  BY <1>a, KnownFacts DEF DscsKnownTo, SameChr
<1>4. CASE v = 1
  BY <1>2, <1>3, <1>4, <1>a
<1>5. CASE v # 1
  <2>1. PICK k \in 1 .. Len(server) : \E l \in 1 .. Len(server[k].chrs) : v = server[k].chrs[l].val
    BY <1>5 DEF DscsKnownTo
  <2>2. PICK l \in 1 .. Len(server[k].chrs) : v = server[k].chrs[l].val
    BY <2>1
  <2>3. v < c.val => v < c.def
    <3> SUFFICES ASSUME server[k].chrs[l].val < server[i].chrs[j].val
                 PROVE  server[k].chrs[l].val < server[i].chrs[j].def
      BY <1>a, <2>2
    <3>1. k < i \/ (k = i /\ l < j)
      BY <1>1, LaterPlace
    <3> QED
      BY <1>1, <3>1, DefsGrow
  <2>4. v <= c.def <=> v < c.val
    BY <1>2, <2>3
  <2> QED
    BY <1>3, <1>a, <2>4
<1> QED
  BY <1>4, <1>5

(* A characteristic that need not be asked for has its descriptors.        *)
LEMMA NotBare ==
  ASSUME PeerInv, DscsKnownTo(peer.prevVal),
         NEW i \in 1 .. Len(server), NEW j \in 1 .. Len(server[i].chrs), <<i, j>> \notin Bare
  PROVE  Held(i, j).dscs = server[i].chrs[j].dscs
<1>1. OrderedDatabase(server) /\ i \in 1 .. Len(server) /\ j \in 1 .. Len(server[i].chrs)
  BY PeerInvFacts
<1>a. PICK v : v = peer.prevVal
  OBVIOUS
<1>b. PICK c : c = server[i].chrs[j]
  OBVIOUS
<1>c. PICK last : last = LastHandle(i, j)
  OBVIOUS
<1>2. v \in Nat /\ c.val \in Nat /\ last \in Nat
  <2>1. v \in Nat
    BY <1>a, PeerInvFacts, PeerFacts
  <2>2. c.val \in Nat
    BY <1>1, <1>b, CharacteristicFacts
  <2>3. last \in Nat
    BY <1>1, <1>c, LastHandleFacts
  <2> QED
    BY <2>1, <2>2, <2>3
<1>3. CASE c.val <= v
  BY <1>3, <1>a, <1>b DEF DscsKnownTo
<1>4. CASE c.val > v
  <2>1. Held(i, j).dscs = <<>>
    BY <1>4, <1>a, <1>b DEF DscsKnownTo
  <2>2. v <= Held(i, j).def
    BY <1>1, <1>2, <1>4, <1>a, <1>b, StillToAsk
  <2>3. Held(i, j).val = c.val
    BY <1>b, KnownFacts DEF DscsKnownTo, SameChr
  <2>4. ~(last > c.val)
    <3> SUFFICES ASSUME last > c.val PROVE FALSE
      OBVIOUS
    <3>1. /\ <<i, j>> \in Places /\ ChrAt(<<i, j>>) = Held(i, j) /\ EndAt(<<i, j>>) = last
      BY <1>c, PlaceFacts DEF DscsKnownTo
    <3>2. <<i, j>> \in Bare
      BY <1>a, <2>1, <2>2, <2>3, <3>1 DEF Bare
    <3> QED
      BY <3>2
  <2>5. c.dscs \in Seq(Nat)
    BY <1>1, <1>b, CharacteristicFacts
  <2>6. c.dscs = <<>>
    <3> SUFFICES ASSUME c.dscs # <<>> PROVE FALSE
      OBVIOUS
    <3>1. 1 \in 1 .. Len(c.dscs)
      BY <2>5
    <3>a. PICK x : x = c.dscs[1]
      OBVIOUS
    <3>2. x \in Nat /\ c.val < x
      BY <1>1, <1>b, <3>1, <3>a, DscsGrow
    <3>3. x <= last
      BY <1>1, <1>b, <1>c, <3>1, <3>a, LastHandleFacts
    <3> QED
      BY <1>2, <2>4, <3>2, <3>3
  <2> QED
    BY <1>b, <2>1, <2>6
<1> QED
  BY <1>2, <1>3, <1>4

(* Records of the same fields are the same.                                *)
LEMMA SameRecords ==
  /\ \A c, d \in Characteristics :
       c.def = d.def /\ c.val = d.val /\ c.uuid = d.uuid /\ c.dscs = d.dscs => c = d
  /\ \A s \in KnownServices, t \in Services :
       s.start = t.start /\ s.end = t.end /\ s.uuid = t.uuid => [s EXCEPT !.chrs = t.chrs] = t
<1>1. ASSUME NEW c \in Characteristics, NEW d \in Characteristics,
             c.def = d.def, c.val = d.val, c.uuid = d.uuid, c.dscs = d.dscs
      PROVE  c = d
  BY <1>1 DEF Characteristics
<1>2. ASSUME NEW s \in KnownServices, NEW t \in Services,
             s.start = t.start, s.end = t.end, s.uuid = t.uuid
      PROVE  [s EXCEPT !.chrs = t.chrs] = t
  <2>1. [s EXCEPT !.chrs = t.chrs] \in Services
    BY <1>2 DEF KnownServices, Services
  <2>2. /\ [s EXCEPT !.chrs = t.chrs].start = t.start /\ [s EXCEPT !.chrs = t.chrs].end = t.end
        /\ [s EXCEPT !.chrs = t.chrs].uuid = t.uuid /\ [s EXCEPT !.chrs = t.chrs].chrs = t.chrs
    BY <1>2 DEF KnownServices
  <2> QED
    BY <2>1, <2>2 DEF Services
<1> QED
  BY <1>1, <1>2

(* What the client holds of service i.                                     *)
HeldService(i) ==
  [peer.svcs[i] EXCEPT !.chrs = [j \in DOMAIN peer.svcs[i].chrs |-> chrMem[peer.svcs[i].chrs[j]]]]

(* A service whose characteristics and descriptors are all held is held as *)
(* the peripheral has it.                                                  *)
LEMMA ServiceExact ==
  ASSUME PeerInv, AllKnown, NEW i \in 1 .. Len(server),
         \A j \in 1 .. Len(server[i].chrs) : Held(i, j).dscs = server[i].chrs[j].dscs
  PROVE  HeldService(i) = server[i]
<1>1. OrderedDatabase(server) /\ i \in 1 .. Len(server)
  BY PeerInvFacts
<1>2. /\ i \in 1 .. Len(peer.svcs) /\ Len(peer.svcs[i].chrs) = Len(server[i].chrs)
  BY KnownFacts
<1>3. /\ peer.svcs[i] \in KnownServices /\ DOMAIN peer.svcs[i].chrs = 1 .. Len(server[i].chrs)
  BY <1>2, PeerInvFacts, PeerFacts
<1>4. /\ server[i].chrs \in Seq(Characteristics) /\ DOMAIN server[i].chrs = 1 .. Len(server[i].chrs)
      /\ Len(server[i].chrs) \in Nat
  BY <1>1, DatabaseFacts
<1>5. server[i] \in Services
  BY <1>1 DEF OrderedDatabase
<1>6. SameService(i)
  BY KnownFacts DEF AllKnown, AllServices
<1>7. ASSUME NEW j \in 1 .. Len(server[i].chrs)
      PROVE  chrMem[peer.svcs[i].chrs[j]] = server[i].chrs[j]
  <2>a. PICK c : c = Held(i, j)
    OBVIOUS
  <2>b. PICK d : d = server[i].chrs[j]
    OBVIOUS
  <2>1. d \in Characteristics
    BY <1>1, <2>b, CharacteristicFacts
  <2>2. c \in Characteristics
    <3>1. peer.svcs[i].chrs[j] \in 1 .. MaxChrs
      BY KnownFacts
    <3> QED
      BY <2>a, <3>1, PeerInvFacts, MemFacts DEF Held
  <2>3. c.def = d.def /\ c.val = d.val /\ c.uuid = d.uuid /\ c.dscs = d.dscs
    BY <2>a, <2>b, KnownFacts DEF SameChr
  <2>4. c = d
    BY <2>1, <2>2, <2>3, SameRecords
  <2> QED
    BY <2>4, <2>a, <2>b DEF Held
<1>8. [j \in DOMAIN peer.svcs[i].chrs |-> chrMem[peer.svcs[i].chrs[j]]] = server[i].chrs
  BY <1>3, <1>4, <1>7, SMTT(30)
<1> QED
  BY <1>3, <1>5, <1>6, <1>8, SameRecords DEF HeldService, SameService

(* The last descriptor asked for, the discovery has found everything.      *)
LEMMA CompleteKeeps ==
  ASSUME PeerInv, peer.known, AllKnown, Complete("ok"),
         \A i \in 1 .. Len(server) : \A j \in 1 .. Len(server[i].chrs) :
            Held(i, j).dscs = server[i].chrs[j].dscs,
         UNCHANGED <<server, chrMem, freeChrs, freeSvcs, freeDscs>>
  PROVE  PeerInv'
<1>1. peer' \in KnownPeers /\ peer'.svcs = peer.svcs /\ peer'.known
  BY PeerInvFacts, PrevValSet DEF Complete
<1>2. proc' = NoProc /\ completion' = "ok"
  BY DEF Complete
<1>3. PeerTypeOK'
  BY <1>1, <1>2 DEF PeerInv, PeerTypeOK
<1>4. PeerControl'
  BY <1>1, <1>2 DEF PeerControl
<1>5. PoolsAccounted'
  BY <1>1, PeerInvFacts, SameServices, PoolsAccountedAfter
<1>6. Finding'
  BY <1>2 DEF Finding, NoProc
<1>7. DiscoveryExact'
  <2>1. \A i \in 1 .. Len(server) : HeldService(i) = server[i]
    BY ServiceExact
  <2>2. DOMAIN peer.svcs = 1 .. Len(server) /\ DOMAIN server = 1 .. Len(server) /\ Len(server) \in Nat
        /\ server \in Seq(Services)
    BY KnownFacts, PeerInvFacts, PeerFacts DEF OrderedDatabase
  <2>3. server = [i \in DOMAIN peer.svcs |-> HeldService(i)]
    BY <2>1, <2>2
  <2>4. server = [i \in DOMAIN peer'.svcs |->
           [peer'.svcs[i] EXCEPT !.chrs =
              [j \in DOMAIN peer'.svcs[i].chrs |-> chrMem'[peer'.svcs[i].chrs[j]]]]]
    BY <1>1, <2>3 DEF HeldService
  <2> QED
    BY <2>4 DEF DiscoveryExact
<1> QED
  BY <1>3, <1>4, <1>5, <1>6, <1>7 DEF PeerInv

(* The lists have a first place.                                           *)
LEMMA FirstPlace ==
  ASSUME NEW S, S # {}, \A x \in S : \E i \in Nat : \E j \in Nat : x = <<i, j>>
  PROVE  FirstMet(S) \in S /\ \A y \in S : MetNoLater(FirstMet(S), y)
<1> DEFINE I == {i \in Nat : \E j \in Nat : <<i, j>> \in S}
<1>1. I \subseteq Nat /\ I # {}
  <2>1. PICK x : x \in S
    OBVIOUS
  <2>2. PICK i \in Nat, j \in Nat : x = <<i, j>>
    BY <2>1
  <2>3. i \in I
    BY <2>1, <2>2
  <2> QED
    BY <2>3
<1>2. PICK i \in I : \A k \in I : i <= k
  BY <1>1, LeastNatural
<1> DEFINE J == {j \in Nat : <<i, j>> \in S}
<1>3. J \subseteq Nat /\ J # {}
  BY <1>2
<1>4. PICK j \in J : \A k \in J : j <= k
  BY <1>3, LeastNatural
<1>5. <<i, j>> \in S /\ i \in Nat /\ j \in Nat
  BY <1>2, <1>4
<1>6. ASSUME NEW y \in S PROVE MetNoLater(<<i, j>>, y)
  <2>1. PICK k \in Nat : \E l \in Nat : y = <<k, l>>
    OBVIOUS
  <2>2. PICK l \in Nat : y = <<k, l>>
    BY <2>1
  <2>3. k \in I
    BY <2>2
  <2>4. i <= k /\ (i = k => j <= l)
    <3>1. i <= k
      BY <1>2, <2>3
    <3>2. i = k => l \in J
      BY <2>2
    <3> QED
      BY <1>4, <3>1, <3>2
  <2>5. i < k \/ (i = k /\ j <= l)
    BY <1>5, <2>4
  <2> QED
    BY <2>2, <2>5 DEF MetNoLater
<1>7. \E x \in S : \A y \in S : MetNoLater(x, y)
  BY <1>5, <1>6
<1> QED
  BY <1>7, Zenon DEF FirstMet

(* Only what is asked for changes.                                         *)
LEMMA KnownStays ==
  ASSUME PeerInv, AllKnown, peer'.svcs = peer.svcs, UNCHANGED <<server, chrMem>>
  PROVE  AllKnown' /\ \A i, j : Held(i, j)' = Held(i, j)
<1>1. \A i, j : Held(i, j)' = Held(i, j)
  BY DEF Held
<1>2. \A i : SameService(i)' <=> SameService(i)
  BY DEF SameService
<1>3. \A i, j : SameChr(i, j)' <=> SameChr(i, j)
  BY <1>1 DEF SameChr
<1>4. \A i : AllChrs(i)' <=> AllChrs(i)
  BY <1>3 DEF AllChrs, ChrsFound
<1> QED
  BY <1>1, <1>2, <1>4 DEF AllKnown, AllServices

(* The first characteristic that may have descriptors is asked for them:   *)
(* those met before it have none.                                          *)
LEMMA AskForKeeps ==
  ASSUME PeerInv, proc # NoProc, DscsKnownTo(peer.prevVal), Bare # {}, AskFor(FirstMet(Bare)),
         UNCHANGED <<server, chrMem, freeChrs, freeSvcs, freeDscs>>
  PROVE  PeerInv'
<1>1. /\ OrderedDatabase(server) /\ peer \in KnownPeers /\ peer.known /\ completion = "no" /\ AllKnown
      /\ DOMAIN server = 1 .. Len(server) /\ Len(server) \in Nat
      /\ peer.prevVal \in Nat
  BY PeerInvFacts, PeerFacts DEF PeerInv, PeerControl, DscsKnownTo, OrderedDatabase
<1>2. \A x \in Bare : \E i \in 1 .. Len(server) : \E j \in 1 .. Len(server[i].chrs) : x = <<i, j>>
  BY <1>1, PlaceFacts DEF Bare
<1>3. \A i \in 1 .. Len(server) : Len(server[i].chrs) \in Nat
  BY <1>1, DatabaseFacts
<1>4. \A x \in Bare : \E i \in Nat : \E j \in Nat : x = <<i, j>>
  <2>1. ASSUME NEW i \in 1 .. Len(server), NEW j \in 1 .. Len(server[i].chrs) PROVE i \in Nat /\ j \in Nat
    OBVIOUS
  <2> QED
    BY <1>2, <2>1
<1>5. FirstMet(Bare) \in Bare /\ \A y \in Bare : MetNoLater(FirstMet(Bare), y)
  BY <1>4, FirstPlace
<1>6. PICK i \in 1 .. Len(server) : \E j \in 1 .. Len(server[i].chrs) : FirstMet(Bare) = <<i, j>>
  BY <1>2, <1>5
<1>7. PICK j \in 1 .. Len(server[i].chrs) : FirstMet(Bare) = <<i, j>>
  BY <1>6
<1>a. PICK c : c = server[i].chrs[j]
  OBVIOUS
<1>b. PICK v : v = peer.prevVal
  OBVIOUS
<1>8. /\ ChrAt(<<i, j>>) = Held(i, j) /\ EndAt(<<i, j>>) = LastHandle(i, j)
      /\ Held(i, j).val = c.val /\ c.val \in Nat
  <2>1. Held(i, j).val = c.val
    BY <1>1, <1>a, KnownFacts DEF SameChr
  <2>2. c.val \in Nat
    <3>1. OrderedDatabase(server) /\ i \in 1 .. Len(server) /\ j \in 1 .. Len(server[i].chrs)
      BY <1>1
    <3> QED
      BY <1>a, <3>1, CharacteristicFacts
  <2> QED
    BY <1>1, <2>1, <2>2, PlaceFacts
<1>9. <<i, j>> \in Bare /\ \A y \in Bare : MetNoLater(<<i, j>>, y)
  BY <1>5, <1>7
<1>10. Held(i, j).dscs = <<>> /\ v < c.val
  <2>1. Held(i, j).dscs = <<>> /\ v <= Held(i, j).def
    BY <1>8, <1>9, <1>b DEF Bare
  <2> QED
    BY <1>1, <1>a, <1>b, <2>1, StillToAsk
<1>11. /\ peer' = [peer EXCEPT !.prevVal = c.val]
       /\ \/ proc' = Procedure("dscs", c.val, LastHandle(i, j)) /\ UNCHANGED completion
          \/ proc' = NoProc /\ completion' = "failed"
  BY <1>7, <1>8 DEF AskFor
<1>12. peer' \in KnownPeers /\ peer'.svcs = peer.svcs /\ peer'.known /\ peer'.prevVal = c.val
  BY <1>1, <1>8, <1>11, PrevValSet
<1>13. CASE proc' = NoProc /\ completion' = "failed"
  BY <1>12, <1>13, DiscoveryStops
<1>14. CASE proc' = Procedure("dscs", c.val, LastHandle(i, j)) /\ UNCHANGED completion
  <2>1. /\ proc'.kind = "dscs" /\ proc'.lo = c.val /\ proc'.hi = LastHandle(i, j) /\ proc'.after = 0
        /\ proc' \in Procedures /\ proc' # NoProc
    <3>1. LastHandle(i, j) \in Nat
      BY <1>1, LastHandleFacts
    <3> QED
      BY <1>8, <1>14, <3>1 DEF Procedure, Procedures, NoProc
  <2>2. PeerTypeOK'
    BY <1>12, <1>14, <2>1 DEF PeerInv, PeerTypeOK
  <2>3. PeerControl'
    BY <1>1, <1>12, <1>14, <2>1 DEF PeerControl
  <2>4. PoolsAccounted'
    BY <1>12, PeerInvFacts, SameServices, PoolsAccountedAfter
  <2>5. AllKnown' /\ \A k, l : Held(k, l)' = Held(k, l)
    BY <1>1, <1>12, KnownStays
  <2>6. ASSUME NEW k \in 1 .. Len(server), NEW l \in 1 .. Len(server[k].chrs)
        PROVE  DscsUpTo(server[k].chrs[l], Held(k, l).dscs, c.val, 0)
    <3>a. PICK e : e = server[k].chrs[l]
      OBVIOUS
    <3>b. PICK d : d = Held(k, l).dscs
      OBVIOUS
    <3>0. OrderedDatabase(server) /\ k \in 1 .. Len(server) /\ l \in 1 .. Len(server[k].chrs)
      BY <1>1
    <3>1. e.val \in Nat /\ Len(e.dscs) \in Nat
      BY <3>0, <3>a, CharacteristicFacts
    <3>2. e.val < c.val => d = e.dscs
      <4> SUFFICES ASSUME server[k].chrs[l].val < server[i].chrs[j].val
                   PROVE  Held(k, l).dscs = server[k].chrs[l].dscs
        BY <1>a, <3>a, <3>b
      <4>1. k < i \/ (k = i /\ l < j)
        BY <1>1, LaterPlace
      <4>2. ~MetNoLater(<<i, j>>, <<k, l>>)
        <5>1. i \in Nat /\ j \in Nat /\ k \in Nat /\ l \in Nat
          OBVIOUS
        <5> QED
          BY <4>1, <5>1 DEF MetNoLater
      <4>3. <<k, l>> \notin Bare
        BY <1>9, <4>2
      <4> QED
        BY <4>3, NotBare
    <3>3. e.val > c.val => d = <<>>
      <4>1. e.val > c.val => e.val > v
        BY <1>8, <1>10, <1>1, <1>b, <3>1
      <4>2. e.val > v => d = <<>>
        BY <1>b, <3>a, <3>b DEF DscsKnownTo
      <4> QED
        BY <4>1, <4>2
    <3>4. e.val = c.val => d = <<>>
      <4> SUFFICES ASSUME e.val = c.val PROVE d = <<>>
        OBVIOUS
      <4>1. server[k].chrs[l].val = server[i].chrs[j].val
        BY <1>a, <3>a
      <4>2. k = i /\ l = j
        BY <1>1, <4>1, HandlesDiffer, SMTT(30)
      <4> QED
        BY <1>10, <3>b, <4>2
    <3>5. DscsUpTo(e, d, c.val, 0)
      <4>1. Len(<<>>) = 0 /\ DOMAIN <<>> = {}
        OBVIOUS
      <4> QED
        BY <3>1, <3>2, <3>3, <3>4, <4>1 DEF DscsUpTo
    <3> QED
      BY <3>5, <3>a, <3>b
  <2>7. FindingDscs'
    <3>1. server' = server
      OBVIOUS
    <3>2. \A k \in 1 .. Len(server) : DOMAIN server[k].chrs = 1 .. Len(server[k].chrs)
      BY <1>1, DatabaseFacts
    <3>3. LastHandle(i, j)' = LastHandle(i, j)
      BY DEF LastHandle
    <3>4. (\E n \in DOMAIN server : \E m \in DOMAIN server[n].chrs :
             proc.lo = server[n].chrs[m].val /\ proc.hi = LastHandle(n, m))'
      BY <1>1, <1>a, <2>1, <3>2, <3>3
    <3>5. (\A n \in DOMAIN server : \A m \in DOMAIN server[n].chrs :
            DscsUpTo(server[n].chrs[m], Held(n, m).dscs, proc.lo, proc.after))'
      BY <1>1, <2>1, <2>5, <2>6, <3>2
    <3> QED
      BY <1>12, <2>1, <2>5, <3>4, <3>5 DEF FindingDscs
  <2>8. Finding'
    BY <2>1, <2>7 DEF Finding
  <2>9. DiscoveryExact'
    BY <1>1, <1>14 DEF DiscoveryExact
  <2> QED
    BY <2>2, <2>3, <2>4, <2>8, <2>9 DEF PeerInv
<1> QED
  BY <1>11, <1>13, <1>14

(* peer_disc_dscs.                                                         *)
LEMMA AskDescriptorsKeeps ==
  ASSUME PeerInv, proc # NoProc, DscsKnownTo(peer.prevVal), AskDescriptors,
         UNCHANGED <<server, chrMem, freeChrs, freeSvcs, freeDscs>>
  PROVE  PeerInv'
<1>1. IF Bare = {} THEN Complete("ok") ELSE AskFor(FirstMet(Bare))
  BY DEF AskDescriptors, Bare
<1>2. CASE Bare = {}
  <2>1. \A i \in 1 .. Len(server) : \A j \in 1 .. Len(server[i].chrs) :
            Held(i, j).dscs = server[i].chrs[j].dscs
    BY <1>2, NotBare
  <2>2. peer.known /\ AllKnown
    BY DEF PeerInv, PeerControl, DscsKnownTo
  <2> QED
    BY <1>1, <1>2, <2>1, <2>2, CompleteKeeps
<1>3. CASE Bare # {}
  BY <1>1, <1>3, AskForKeeps
<1> QED
  BY <1>2, <1>3

(* The descriptors of one characteristic found, those of the next are      *)
(* asked for.                                                              *)
LEMMA DscsFound ==
  ASSUME PeerInv, proc.kind = "dscs", Unreported = {}
  PROVE  DscsKnownTo(peer.prevVal)
<1>1. FindingDscs /\ OrderedDatabase(server) /\ DOMAIN server = 1 .. Len(server)
  BY PeerInvFacts DEF PeerInv, Finding, OrderedDatabase
<1>2. \A k \in 1 .. Len(server) : DOMAIN server[k].chrs = 1 .. Len(server[k].chrs)
  BY <1>1, DatabaseFacts
<1>3. PICK i \in 1 .. Len(server) : \E j \in 1 .. Len(server[i].chrs) :
        proc.lo = server[i].chrs[j].val /\ proc.hi = LastHandle(i, j)
  BY <1>1, <1>2 DEF FindingDscs
<1>4. PICK j \in 1 .. Len(server[i].chrs) : AsksFor(i, j)
  BY <1>3 DEF AsksFor
<1>5. Held(i, j).dscs = server[i].chrs[j].dscs /\ proc.lo = server[i].chrs[j].val
  BY <1>4, DscLeft DEF AsksFor
<1>6. ASSUME NEW k \in 1 .. Len(server), NEW l \in 1 .. Len(server[k].chrs)
      PROVE  /\ server[k].chrs[l].val <= proc.lo => Held(k, l).dscs = server[k].chrs[l].dscs
             /\ server[k].chrs[l].val > proc.lo => Held(k, l).dscs = <<>>
  <2>1. DscsUpTo(server[k].chrs[l], Held(k, l).dscs, proc.lo, proc.after)
    BY <1>1, <1>2 DEF FindingDscs
  <2>2. server[k].chrs[l].val = proc.lo => k = i /\ l = j
    BY <1>1, <1>5, HandlesDiffer, SMTT(30)
  <2>a. PICK x : x = server[k].chrs[l].val
    OBVIOUS
  <2>b. PICK y : y = proc.lo
    OBVIOUS
  <2>3. x \in Nat /\ y \in Nat
    <3>1. OrderedDatabase(server) /\ k \in 1 .. Len(server) /\ l \in 1 .. Len(server[k].chrs)
      BY <1>1
    <3>2. OrderedDatabase(server) /\ i \in 1 .. Len(server) /\ j \in 1 .. Len(server[i].chrs)
      BY <1>1
    <3>3. x \in Nat
      BY <3>1, <2>a, CharacteristicFacts
    <3>4. y \in Nat
      <4>1. server[i].chrs[j].val \in Nat
        BY <3>2, CharacteristicFacts
      <4> QED
        BY <4>1, <2>b, <1>5
    <3> QED
      BY <3>3, <3>4
  <2>4. x <= y => x < y \/ x = y
    BY <2>3
  <2> QED
    BY <1>5, <2>1, <2>2, <2>4, <2>a, <2>b DEF DscsUpTo
<1>7. peer.prevVal = proc.lo /\ AllKnown
  BY <1>1 DEF FindingDscs
<1> QED
  BY <1>5, <1>6, <1>7 DEF DscsKnownTo

(* The services are known, the characteristics of the first n of them that *)
(* have room for some, and no descriptors.                                 *)
ChrsKnownTo(n) ==
  /\ peer.prevVal = 1 /\ AllServices /\ n \in 0 .. Len(server)
  /\ ServicesBefore(n) /\ (n > 0 => AllChrs(n))
  /\ \A i \in n + 1 .. Len(server) : peer.svcs[i].chrs = <<>>
  /\ \A i \in 1 .. Len(server) : NoDscs(i)

(* The service that peer_disc_chrs asks for, if any.                       *)
FirstRoomy == SelectInSeq(peer.svcs, LAMBDA s : s.end > s.start /\ s.chrs = <<>>)

(* The service asked for has room and no characteristics, and is the first *)
(* such.                                                                   *)
LEMMA RoomyFacts ==
  ASSUME PeerInv
  PROVE  \/ /\ FirstRoomy = 0
            /\ \A i \in 1 .. Len(peer.svcs) : ~(peer.svcs[i].end > peer.svcs[i].start /\ peer.svcs[i].chrs = <<>>)
         \/ /\ FirstRoomy \in 1 .. Len(peer.svcs)
            /\ peer.svcs[FirstRoomy].end > peer.svcs[FirstRoomy].start
            /\ peer.svcs[FirstRoomy].chrs = <<>>
            /\ \A i \in 1 .. FirstRoomy - 1 :
                 ~(peer.svcs[i].end > peer.svcs[i].start /\ peer.svcs[i].chrs = <<>>)
<1> DEFINE I == {i \in 1 .. Len(peer.svcs) : peer.svcs[i].end > peer.svcs[i].start /\ peer.svcs[i].chrs = <<>>}
<1>1. FirstRoomy = IF I # {} THEN Min(I) ELSE 0
  BY DEF FirstRoomy, SelectInSeq
<1>2. Len(peer.svcs) \in Nat
  BY PeerInvFacts, PeerFacts
<1>3. CASE I = {}
  BY <1>1, <1>3
<1>4. CASE I # {}
  <2>1. I \subseteq Nat
    BY <1>2
  <2>a. PICK k : k = Min(I)
    OBVIOUS
  <2>2. k \in I /\ \A i \in I : k <= i
    BY <1>4, <2>1, <2>a, LeastNatural
  <2>3. FirstRoomy = k
    BY <1>1, <1>4, <2>a
  <2>4. \A i \in 1 .. k - 1 : i \notin I
    <3>1. \A i \in 1 .. k - 1 : ~(k <= i)
      BY <2>1, <2>2
    <3> QED
      BY <2>2, <3>1
  <2>5. \A i \in 1 .. k - 1 : i \in 1 .. Len(peer.svcs)
    BY <1>2, <2>2
  <2> QED
    BY <2>2, <2>3, <2>4, <2>5
<1> QED
  BY <1>3, <1>4

(* A service of a single handle has no characteristics.                    *)
LEMMA NoRoom ==
  ASSUME PeerInv, AllServices, NEW i \in 1 .. Len(server),
         ~(peer.svcs[i].end > peer.svcs[i].start), peer.svcs[i].chrs = <<>>
  PROVE  AllChrs(i)
<1>1. OrderedDatabase(server) /\ i \in 1 .. Len(server) /\ i \in DOMAIN server
  BY PeerInvFacts DEF OrderedDatabase
<1>a. PICK a : a = server[i].start
  OBVIOUS
<1>b. PICK b : b = server[i].end
  OBVIOUS
<1>2. a \in Nat /\ b \in Nat /\ Len(server[i].chrs) \in Nat
  BY <1>1, <1>a, <1>b, DatabaseFacts
<1>3. ~(b > a)
  BY <1>1, <1>a, <1>b DEF AllServices, SameService
<1>4. Len(server[i].chrs) = 0
  <2> SUFFICES ASSUME Len(server[i].chrs) # 0 PROVE FALSE
    OBVIOUS
  <2>1. 1 \in 1 .. Len(server[i].chrs)
    BY <1>2
  <2>c. PICK c : c = server[i].chrs[1]
    OBVIOUS
  <2>2. c.def \in Nat /\ c.val \in Nat /\ c.def < c.val /\ a < c.def /\ c.val <= b
    BY <1>1, <1>a, <1>b, <2>1, <2>c, CharacteristicFacts DEF InHandleOrder, WithinService
  <2> QED
    BY <1>2, <1>3, <2>2
<1>5. Len(<<>>) = 0
  OBVIOUS
<1>6. ChrsFound(i, 0)
  BY <1>4, <1>5 DEF ChrsFound
<1> QED
  BY <1>4, <1>6 DEF AllChrs

(* The services passed over have all their characteristics.                *)
LEMMA RoomySkipped ==
  ASSUME PeerInv, NEW n, ChrsKnownTo(n), NEW i \in 1 .. Len(server),
         ~(peer.svcs[i].end > peer.svcs[i].start /\ peer.svcs[i].chrs = <<>>)
  PROVE  AllChrs(i) /\ (server[i].start < server[i].end => peer.svcs[i].chrs # <<>>)
<1>1. n \in 0 .. Len(server) /\ Len(server) \in Nat
  BY PeerInvFacts DEF ChrsKnownTo, OrderedDatabase
<1>2. SameService(i)
  <2>1. i \in DOMAIN server
    BY PeerInvFacts DEF OrderedDatabase
  <2> QED
    BY <2>1 DEF ChrsKnownTo, AllServices
<1>3. server[i].start < server[i].end => peer.svcs[i].chrs # <<>>
  BY <1>2 DEF SameService
<1>4. CASE i < n
  <2>1. i \in 1 .. n - 1
    BY <1>1, <1>4
  <2>2. AllChrs(i)
    BY <2>1 DEF ChrsKnownTo, ServicesBefore
  <2> QED
    BY <1>3, <2>2
<1>5. CASE i = n
  <2>1. n > 0
    BY <1>5
  <2> QED
    BY <1>3, <1>5, <2>1 DEF ChrsKnownTo
<1>6. CASE i > n
  <2>1. i \in n + 1 .. Len(server)
    BY <1>1, <1>6
  <2>2. peer.svcs[i].chrs = <<>>
    BY <2>1 DEF ChrsKnownTo
  <2>3. AllChrs(i)
    BY <2>2, NoRoom DEF ChrsKnownTo
  <2> QED
    BY <1>3, <2>3
<1>7. i < n \/ i = n \/ i > n
  BY <1>1
<1> QED
  BY <1>4, <1>5, <1>6, <1>7

(* All characteristics known, the descriptors are asked for.               *)
LEMMA AllChrsFound ==
  ASSUME PeerInv, NEW n, ChrsKnownTo(n), FirstRoomy = 0
  PROVE  DscsKnownTo(peer.prevVal)
<1>1. OrderedDatabase(server) /\ DOMAIN server = 1 .. Len(server) /\ Len(peer.svcs) = Len(server)
  BY PeerInvFacts DEF OrderedDatabase, ChrsKnownTo, AllServices
<1>2. \A i \in 1 .. Len(peer.svcs) : ~(peer.svcs[i].end > peer.svcs[i].start /\ peer.svcs[i].chrs = <<>>)
  BY RoomyFacts
<1>3. \A i \in 1 .. Len(server) : AllChrs(i)
  BY <1>1, <1>2, RoomySkipped
<1>4. AllKnown
  BY <1>1, <1>3 DEF AllKnown, ChrsKnownTo
<1>5. ASSUME NEW i \in 1 .. Len(server), NEW j \in 1 .. Len(server[i].chrs)
      PROVE  Held(i, j).dscs = <<>> /\ ~(server[i].chrs[j].val <= 1)
  <2>1. j \in DOMAIN peer.svcs[i].chrs
    <3>1. j \in 1 .. Len(peer.svcs[i].chrs) /\ i \in 1 .. Len(peer.svcs)
      BY <1>1, <1>4, KnownFacts
    <3> QED
      BY <3>1, PeerInvFacts, PeerFacts
  <2>2. Held(i, j).dscs = <<>>
    BY <2>1 DEF ChrsKnownTo, NoDscs
  <2>3. OrderedDatabase(server) /\ i \in 1 .. Len(server) /\ j \in 1 .. Len(server[i].chrs)
    BY <1>1
  <2>c. PICK c : c = server[i].chrs[j]
    OBVIOUS
  <2>a. PICK a : a = server[i].start
    OBVIOUS
  <2>4. c.def \in Nat /\ c.val \in Nat /\ c.def < c.val /\ a < c.def
    BY <2>3, <2>a, <2>c, CharacteristicFacts DEF InHandleOrder, WithinService
  <2>5. a \in Nat /\ 0 < a
    BY <2>3, <2>a, DatabaseFacts
  <2>6. ~(c.val <= 1)
    BY <2>4, <2>5
  <2> QED
    BY <2>2, <2>6, <2>c
<1>6. peer.prevVal = 1
  BY DEF ChrsKnownTo
<1> QED
  BY <1>4, <1>5, <1>6 DEF DscsKnownTo

(* The next service is asked for its characteristics.                      *)
LEMMA AskServiceKeeps ==
  ASSUME PeerInv, proc # NoProc, NEW n, ChrsKnownTo(n), NEW k, k = FirstRoomy, k # 0,
         proc' = Procedure("chrs", peer.svcs[k].start, peer.svcs[k].end),
         peer' = [peer EXCEPT !.cur = k],
         UNCHANGED <<completion, server, chrMem, freeChrs, freeSvcs, freeDscs>>
  PROVE  PeerInv'
<1>1. /\ OrderedDatabase(server) /\ peer \in KnownPeers /\ peer.known /\ completion = "no"
      /\ DOMAIN server = 1 .. Len(server) /\ Len(server) \in Nat /\ Len(peer.svcs) = Len(server)
      /\ peer.prevVal = 1 /\ AllServices /\ n \in 0 .. Len(server)
  BY PeerInvFacts DEF PeerInv, PeerControl, ChrsKnownTo, AllServices, OrderedDatabase
<1>2. /\ k \in 1 .. Len(server) /\ peer.svcs[k].chrs = <<>>
      /\ peer.svcs[k].end > peer.svcs[k].start
      /\ \A i \in 1 .. k - 1 : ~(peer.svcs[i].end > peer.svcs[i].start /\ peer.svcs[i].chrs = <<>>)
  BY <1>1, RoomyFacts
<1>3. k \in Nat /\ \A i \in 1 .. k - 1 : i \in 1 .. Len(server)
  BY <1>1, <1>2
<1>4. /\ peer' \in KnownPeers /\ peer'.svcs = peer.svcs /\ peer'.known
      /\ peer'.cur = k /\ peer'.prevVal = 1
  BY <1>1, <1>3, CurSet
<1>5. SameService(k) /\ peer.svcs[k].start \in Nat /\ peer.svcs[k].end \in Nat
  <2>1. SameService(k)
    BY <1>1, <1>2 DEF AllServices
  <2>2. peer.svcs[k].start \in Nat /\ peer.svcs[k].end \in Nat
    BY <1>1, <1>2, PeerFacts
  <2> QED
    BY <2>1, <2>2
<1>6. /\ proc'.kind = "chrs" /\ proc'.lo = server[k].start /\ proc'.hi = server[k].end
      /\ proc'.after = 0 /\ proc' \in Procedures /\ proc' # NoProc
  BY <1>5 DEF Procedure, Procedures, NoProc, SameService
<1>7. k >= n
  <2> SUFFICES ASSUME k < n PROVE FALSE
    BY <1>1, <1>3
  <2>1. k \in 1 .. n - 1
    BY <1>1, <1>2
  <2>2. ~(server[k].start < server[k].end)
    BY <1>2, <2>1 DEF ChrsKnownTo, ServicesBefore
  <2>3. ~(peer.svcs[k].end > peer.svcs[k].start)
    BY <1>5, <2>2 DEF SameService
  <2> QED
    BY <1>2, <2>3
<1>8. ServicesBefore(k)
  <2>1. ASSUME NEW i \in 1 .. k - 1
        PROVE  AllChrs(i) /\ (server[i].start < server[i].end => peer.svcs[i].chrs # <<>>)
    BY <1>2, <1>3, RoomySkipped
  <2> QED
    BY <2>1 DEF ServicesBefore
<1>9. \A i \in k + 1 .. Len(server) : peer.svcs[i].chrs = <<>>
  <2>1. \A i \in k + 1 .. Len(server) : i \in n + 1 .. Len(server)
    BY <1>1, <1>3, <1>7
  <2> QED
    BY <2>1 DEF ChrsKnownTo
<1>10. ChrsFound(k, 0)
  <2>1. Len(<<>>) = 0
    OBVIOUS
  <2>2. Len(server[k].chrs) \in Nat
    BY <1>1, <1>2, DatabaseFacts
  <2> QED
    BY <1>2, <2>1, <2>2 DEF ChrsFound
<1>11. PeerTypeOK'
  BY <1>4, <1>6 DEF PeerInv, PeerTypeOK
<1>12. PeerControl'
  BY <1>1, <1>4, <1>6 DEF PeerControl
<1>13. PoolsAccounted'
  <2>1. freeSvcs' + Len(peer'.svcs) = MaxSvcs
    BY <1>4, PeerInvFacts
  <2>2. ChrsAccounted(peer', freeChrs')
    BY <1>4, PeerInvFacts, SameServices
  <2>3. freeDscs' + Len(Descriptors(peer', chrMem')) = MaxDscs
    <3>1. Descriptors(peer', chrMem) = Descriptors(peer, chrMem)
      <4>1. peer'.svcs = peer.svcs
        BY <1>4
      <4>2. \A mem : Descriptors(peer', mem) = Descriptors(peer, mem)
        BY <4>1, SameServices, Zenon
      <4> QED
        BY <4>2, Zenon
    <3>2. freeDscs + Len(Descriptors(peer, chrMem)) = MaxDscs
      BY PeerInvFacts
    <3> QED
      BY <3>1, <3>2
  <2> QED
    BY <2>1, <2>2, <2>3, PoolsAccountedAfter
<1>14. FindingChrs'
  <2>1. \A i, j : Held(i, j)' = Held(i, j)
    BY <1>4 DEF Held
  <2>2. \A i : SameService(i)' <=> SameService(i)
    BY <1>4 DEF SameService
  <2>3. \A i, m : ChrsFound(i, m)' <=> ChrsFound(i, m)
    BY <1>4, <2>1 DEF ChrsFound, SameChr
  <2>4. \A i : (AllChrs(i)' <=> AllChrs(i)) /\ (NoDscs(i)' <=> NoDscs(i))
    BY <1>4, <2>1, <2>3 DEF AllChrs, NoDscs
  <2>5. AllServices'
    BY <1>1, <1>4, <2>2 DEF AllServices
  <2>6. ServicesBefore(peer.cur)'
    BY <1>4, <1>8, <2>4 DEF ServicesBefore
  <2>7. (\A i \in DOMAIN server : NoDscs(i))'
    BY <1>1, <2>4 DEF ChrsKnownTo
  <2>8. Len(peer'.svcs[k].chrs) = 0 /\ peer'.svcs[k].chrs = <<>>
    BY <1>2, <1>4
  <2>9. ChrsFound(peer.cur, Len(peer.svcs[peer.cur].chrs))'
    BY <1>4, <1>10, <2>1, <2>8 DEF ChrsFound, SameChr
  <2>10. (\A i \in peer.cur + 1 .. Len(server) : peer.svcs[i].chrs = <<>>)'
    BY <1>4, <1>9
  <2> QED
    BY <1>1, <1>2, <1>4, <1>6, <2>5, <2>6, <2>7, <2>8, <2>9, <2>10 DEF FindingChrs
<1>15. Finding'
  BY <1>6, <1>14 DEF Finding
<1>16. DiscoveryExact'
  BY <1>1 DEF DiscoveryExact
<1> QED
  BY <1>11, <1>12, <1>13, <1>15, <1>16 DEF PeerInv

(* peer_disc_chrs.                                                         *)
LEMMA AskCharacteristicsKeeps ==
  ASSUME PeerInv, proc # NoProc, NEW n, ChrsKnownTo(n), AskCharacteristics,
         UNCHANGED <<server, chrMem, freeChrs, freeSvcs, freeDscs>>
  PROVE  PeerInv'
<1>a. PICK k : k = FirstRoomy
  OBVIOUS
<1>1. IF k = 0 THEN AskDescriptors
      ELSE \/ /\ proc' = Procedure("chrs", peer.svcs[k].start, peer.svcs[k].end)
              /\ peer' = [peer EXCEPT !.cur = k]
              /\ UNCHANGED completion
           \/ /\ proc' = NoProc /\ completion' = "failed"
              /\ peer' = [[peer EXCEPT !.cur = k] EXCEPT !.prevVal = 0]
  BY <1>a DEF AskCharacteristics, FirstRoomy
<1>2. CASE k = 0
  <2>1. DscsKnownTo(peer.prevVal)
    BY <1>2, <1>a, AllChrsFound
  <2> QED
    BY <1>1, <1>2, <2>1, AskDescriptorsKeeps
<1>3. CASE /\ k # 0 /\ proc' = Procedure("chrs", peer.svcs[k].start, peer.svcs[k].end)
           /\ peer' = [peer EXCEPT !.cur = k]
           /\ UNCHANGED completion
  BY <1>3, <1>a, AskServiceKeeps
<1>4. CASE /\ k # 0 /\ proc' = NoProc /\ completion' = "failed"
           /\ peer' = [[peer EXCEPT !.cur = k] EXCEPT !.prevVal = 0]
  <2>1. k \in Nat /\ peer \in KnownPeers /\ peer.known
    <3>1. k \in 1 .. Len(peer.svcs)
      BY <1>4, <1>a, RoomyFacts
    <3> QED
      BY <3>1, PeerInvFacts DEF PeerInv, PeerControl
  <2>b. PICK q : q = [peer EXCEPT !.cur = k]
    OBVIOUS
  <2>2. q \in KnownPeers /\ q.svcs = peer.svcs /\ q.known
    BY <2>1, <2>b, CurSet
  <2>3. peer' \in KnownPeers /\ peer'.svcs = peer.svcs /\ peer'.known
    BY <1>4, <2>2, <2>b, PrevValSet
  <2> QED
    BY <1>4, <2>3, DiscoveryStops
<1> QED
  BY <1>1, <1>2, <1>3, <1>4

(* All services found, those with room are asked for characteristics.      *)
LEMMA ServicesFound ==
  ASSUME PeerInv, proc.kind = "svcs", Unreported = {}
  PROVE  ChrsKnownTo(0)
<1>1. FindingServices /\ Len(peer.svcs) = Len(server) /\ Len(server) \in Nat /\ DOMAIN server = 1 .. Len(server)
      /\ DOMAIN peer.svcs = 1 .. Len(server)
  BY ServiceLeft, PeerInvFacts, PeerFacts DEF PeerInv, Finding, OrderedDatabase
<1>2. AllServices
  BY <1>1 DEF FindingServices, AllServices
<1>3. \A i \in 1 .. Len(server) : peer.svcs[i].chrs = <<>> /\ NoDscs(i)
  BY <1>1 DEF FindingServices, NoDscs
<1>4. ServicesBefore(0)
  BY DEF ServicesBefore
<1>5. 0 \in 0 .. Len(server) /\ 0 + 1 .. Len(server) = 1 .. Len(server)
  BY <1>1
<1> QED
  BY <1>1, <1>2, <1>3, <1>4, <1>5 DEF ChrsKnownTo, FindingServices

(* All characteristics of a service found, the next one is asked for its.  *)
LEMMA ChrsOfServiceFound ==
  ASSUME PeerInv, proc.kind = "chrs", Unreported = {}
  PROVE  ChrsKnownTo(peer.cur)
<1>1. FindingChrs /\ AllChrs(peer.cur) /\ Len(server) \in Nat /\ DOMAIN server = 1 .. Len(server)
  BY ChrLeft, PeerInvFacts DEF PeerInv, Finding, OrderedDatabase
<1>2. peer.cur \in 0 .. Len(server)
  BY <1>1 DEF FindingChrs
<1> QED
  BY <1>1, <1>2 DEF ChrsKnownTo, FindingChrs

(* A procedure over, the next one is asked for.                            *)
LEMMA AllFoundKeeps ==
  ASSUME PeerInv, AllFound
  PROVE  PeerInv'
<1>1. proc # NoProc /\ Unreported = {} /\ UNCHANGED <<server, chrMem, freeChrs, freeSvcs, freeDscs>>
      /\ IF proc.kind = "dscs" THEN AskDescriptors ELSE AskCharacteristics
  BY DEF AllFound
<1>2. proc.kind \in {"svcs", "chrs", "dscs"}
  BY <1>1, PeerInvFacts DEF Procedures
<1>3. CASE proc.kind = "svcs"
  BY <1>1, <1>3, ServicesFound, AskCharacteristicsKeeps
<1>4. CASE proc.kind = "chrs"
  BY <1>1, <1>4, ChrsOfServiceFound, AskCharacteristicsKeeps
<1>5. CASE proc.kind = "dscs"
  BY <1>1, <1>5, DscsFound, AskDescriptorsKeeps
<1> QED
  BY <1>2, <1>3, <1>4, <1>5

-----------------------------------------------------------------------------
(* The callbacks leave the peer where it is.                               *)
LEMMA StillKnown ==
  ASSUME PeerInv, Found \/ AllFound \/ ProcedureFails
  PROVE  peer'.known = peer.known /\ server' = server /\ proc # NoProc
<1>1. peer \in KnownPeers
  BY PeerInvFacts
<1>2. /\ \A v : [peer EXCEPT !.svcs = v].known = peer.known
      /\ \A v : [peer EXCEPT !.prevVal = v].known = peer.known
      /\ \A v : [peer EXCEPT !.cur = v].known = peer.known
      /\ \A v, w : [[peer EXCEPT !.cur = v] EXCEPT !.prevVal = w].known = peer.known
  BY <1>1 DEF KnownPeers
<1>3. ASSUME NEW s, Complete(s) PROVE peer'.known = peer.known
  BY <1>2, <1>3 DEF Complete
<1>4. CASE ProcedureFails
  BY <1>3, <1>4 DEF ProcedureFails
<1>5. ASSUME AskDescriptors PROVE peer'.known = peer.known
  <2>1. Complete("ok") \/ \E x : AskFor(x)
    BY <1>5, Zenon DEF AskDescriptors
  <2>2. ASSUME NEW x, AskFor(x) PROVE peer'.known = peer.known
    BY <1>2, <2>2 DEF AskFor
  <2> QED
    BY <1>3, <2>1, <2>2
<1>6. CASE AllFound
  <2>1. AskDescriptors \/ AskCharacteristics
    BY <1>6 DEF AllFound
  <2>2. ASSUME AskCharacteristics PROVE peer'.known = peer.known
    <3>a. PICK k : k = FirstRoomy
      OBVIOUS
    <3>1. \/ AskDescriptors
          \/ peer' = [peer EXCEPT !.cur = k]
          \/ peer' = [[peer EXCEPT !.cur = k] EXCEPT !.prevVal = 0]
      BY <2>2, <3>a DEF AskCharacteristics, FirstRoomy
    <3>2. CASE AskDescriptors
      BY <1>5, <3>2
    <3>3. CASE peer' = [peer EXCEPT !.cur = k]
      BY <1>2, <3>3
    <3>4. CASE peer' = [[peer EXCEPT !.cur = k] EXCEPT !.prevVal = 0]
      BY <1>2, <3>4
    <3> QED
      BY <3>1, <3>2, <3>3, <3>4
  <2> QED
    BY <1>5, <1>6, <2>1, <2>2 DEF AllFound
<1>7. CASE Found
  <2>1. PICK h : \/ proc.kind = "svcs" /\ SvcFound(h)
                 \/ proc.kind = "chrs" /\ ChrFound(h)
                 \/ proc.kind = "dscs" /\ DscFound(h)
    BY <1>7, Zenon DEF Found
  <2>2. proc # NoProc /\ server' = server
    BY <1>7, <2>1 DEF Found, NoProc
  <2>3. CASE SvcFound(h)
    <3>1. Complete("failed") \/ \E v : peer' = [peer EXCEPT !.svcs = v]
      BY <2>3, Zenon DEF SvcFound
    <3> QED
      BY <1>2, <1>3, <2>2, <3>1
  <2>4. CASE ChrFound(h)
    <3>1. Complete("failed") \/ \E v : peer' = [peer EXCEPT !.svcs = v]
      BY <2>4, Zenon DEF ChrFound
    <3> QED
      BY <1>2, <1>3, <2>2, <3>1
  <2>5. CASE DscFound(h)
    <3>1. Complete("failed") \/ peer' = peer
      BY <2>5, Zenon DEF DscFound
    <3> QED
      BY <1>3, <2>2, <3>1
  <2> QED
    BY <2>1, <2>3, <2>4, <2>5
<1> QED
  BY <1>4, <1>6, <1>7 DEF ProcedureFails

(* A characteristic looked up by uuid after the discovery is one of the    *)
(* peripheral, and of that uuid.                                           *)
LEMMA LookedUp ==
  ASSUME PeerInv, completion = "ok", NEW uuid, NEW b, b = FindCharacteristic(uuid)
  PROVE  /\ b \in 0 .. MaxChrs
         /\ b # 0 => \E c \in Range(ServerChrs) : c.uuid = uuid /\ c.val = chrMem[b].val
<1>a. PICK i : i = SelectInSeq(peer.svcs, LAMBDA s : s.uuid = "target")
  OBVIOUS
<1>b. PICK j : j = SelectInSeq(peer.svcs[i].chrs, LAMBDA x : chrMem[x].uuid = uuid)
  OBVIOUS
<1>1. b = IF i = 0 \/ j = 0 THEN 0 ELSE peer.svcs[i].chrs[j]
  BY <1>a, <1>b DEF FindCharacteristic
<1>2. 0 \in 0 .. MaxChrs
  BY PoolAssumption
<1>3. CASE i = 0 \/ j = 0
  BY <1>1, <1>2, <1>3
<1>4. CASE i # 0 /\ j # 0
  <2>1. i \in 1 .. Len(peer.svcs)
    <3> DEFINE I == {k \in 1 .. Len(peer.svcs) : peer.svcs[k].uuid = "target"}
    <3>1. i = IF I # {} THEN Min(I) ELSE 0
      BY <1>a DEF SelectInSeq
    <3>2. I \subseteq Nat
      BY PeerInvFacts, PeerFacts
    <3>3. i \in I
      BY <1>4, <3>1, <3>2, LeastNatural
    <3> QED
      BY <3>3
  <2>2. j \in 1 .. Len(peer.svcs[i].chrs) /\ chrMem[peer.svcs[i].chrs[j]].uuid = uuid
    <3> DEFINE J == {k \in 1 .. Len(peer.svcs[i].chrs) : chrMem[peer.svcs[i].chrs[k]].uuid = uuid}
    <3>1. j = IF J # {} THEN Min(J) ELSE 0
      BY <1>b DEF SelectInSeq
    <3>2. J \subseteq Nat
      BY <2>1, PeerInvFacts, PeerFacts
    <3>3. j \in J
      BY <1>4, <3>1, <3>2, LeastNatural
    <3> QED
      BY <3>3
  <2>3. b = peer.svcs[i].chrs[j]
    BY <1>1, <1>4
  <2>4. b \in 1 .. MaxChrs
    <3>1. \A x \in 1 .. Len(peer.svcs) : \A y \in 1 .. Len(peer.svcs[x].chrs) :
            peer.svcs[x].chrs[y] \in 1 .. MaxChrs
      BY PeerInvFacts, BlocksFacts
    <3> QED
      BY <2>1, <2>2, <2>3, <3>1
  <2>5. /\ DOMAIN peer.svcs = 1 .. Len(peer.svcs) /\ Len(peer.svcs) \in Nat
        /\ DOMAIN peer.svcs[i].chrs = 1 .. Len(peer.svcs[i].chrs) /\ Len(peer.svcs[i].chrs) \in Nat
        /\ peer.svcs[i] \in KnownServices
    BY <2>1, PeerInvFacts, PeerFacts
  <2>6. server = [k \in DOMAIN peer.svcs |-> HeldService(k)]
    BY DEF PeerInv, DiscoveryExact, HeldService
  <2>7. Len(server) = Len(peer.svcs) /\ server[i] = HeldService(i)
    BY <2>1, <2>5, <2>6
  <2>8. server[i].chrs = [l \in DOMAIN peer.svcs[i].chrs |-> chrMem[peer.svcs[i].chrs[l]]]
    BY <2>5, <2>7 DEF HeldService, KnownServices
  <2>9. Len(server[i].chrs) = Len(peer.svcs[i].chrs) /\ server[i].chrs[j] = chrMem[b]
    BY <2>2, <2>3, <2>5, <2>8
  <2>10. i \in 1 .. Len(server) /\ j \in 1 .. Len(server[i].chrs)
    BY <2>1, <2>2, <2>7, <2>9
  <2>11. chrMem[b] \in Range(ServerChrs)
    BY <2>9, <2>10, PeerInvFacts, ServerChrsFacts
  <2>12. b \in 0 .. MaxChrs
    BY <2>4
  <2> QED
    BY <2>2, <2>3, <2>11, <2>12
<1> QED
  BY <1>3, <1>4

-----------------------------------------------------------------------------
(* The steps of the client keep its invariant.                             *)

(* The client starts in its invariant.                                     *)
LEMMA ClientBegins == ClientInit => ClientInv
<1> SUFFICES ASSUME ClientInit PROVE ClientInv
  OBVIOUS
<1>1. PeerInv
  BY DiscoveryBegins DEF ClientInit
<1>2. ~peer.known /\ proc = NoProc /\ completion = "no"
  BY DEF ClientInit, PeerInit, NoPeer
<1>3. ClientTypeOK
  <2>1. characteristic \in [1 .. 2 -> 0 .. MaxChrs]
    BY PoolAssumption DEF ClientInit
  <2>2. sent \in 0 .. MaxPackets + 1
    BY BoundsAssumption DEF ClientInit
  <2> QED
    BY <1>2, <2>1, <2>2 DEF ClientInit, ClientTypeOK
<1>4. ApiTypeOK
  <2>1. file \in 0 .. MaxPackets
    BY BoundsAssumption DEF ClientInit
  <2>2. queue \in Seq(1 .. MaxPackets)
    BY DEF ClientInit
  <2>3. writes \in Seq([val : Nat, announced : BOOLEAN])
    BY DEF ClientInit
  <2> QED
    BY <2>1, <2>2, <2>3 DEF ClientInit, ApiTypeOK
<1>5. LinkControl
  BY <1>2 DEF ClientInit, LinkControl
<1>6. AnswersCounted /\ StreamLength
  BY DEF ClientInit, AnswersCounted, StreamLength
<1>7. PacketsPaced
  BY DEF ClientInit, PacketsPaced
<1>8. PlaybackReachesTarget
  BY DEF ClientInit, PlaybackReachesTarget
<1> QED
  BY <1>1, <1>3, <1>4, <1>5, <1>6, <1>7, <1>8 DEF ClientInv

(* What the API task does not touch stays as it was, whatever the host     *)
(* does.                                                                   *)
LEMMA ApiUntouched ==
  ASSUME ClientInv, UNCHANGED <<apiVars, writes, server>>
  PROVE  /\ state' \in {0, 2, 3} /\ sent' \in 0 .. MaxPackets + 1
         /\ Var' \in BOOLEAN /\ file' \in 0 .. MaxPackets /\ queue' \in Seq(1 .. MaxPackets)
         /\ writes' \in Seq([val : Nat, announced : BOOLEAN]) /\ overlap' \in Nat
         /\ AnswersCounted' /\ StreamLength' /\ PacketsPaced' /\ PlaybackReachesTarget'
<1> USE DEF ClientInv, apiVars
<1>1. state' \in {0, 2, 3} /\ sent' \in 0 .. MaxPackets + 1
  BY DEF ClientTypeOK
<1>2. /\ Var' \in BOOLEAN /\ file' \in 0 .. MaxPackets /\ queue' \in Seq(1 .. MaxPackets)
      /\ writes' \in Seq([val : Nat, announced : BOOLEAN]) /\ overlap' \in Nat
  BY DEF ApiTypeOK
<1>3. AnswersCounted' /\ StreamLength'
  BY DEF AnswersCounted, StreamLength
<1>4. PacketsPaced'
  BY DEF PacketsPaced
<1>5. PlaybackReachesTarget'
  BY DEF PlaybackReachesTarget, ServerChrs, IsTarget
<1> QED
  BY <1>1, <1>2, <1>3, <1>4, <1>5

(* A step of the host task that ends with these facts keeps the invariant. *)
LEMMA HostStep ==
  ASSUME ClientInv, UNCHANGED <<apiVars, writes, server>>, PeerInv', LinkControl',
         gap' \in {"off", "refused", "scanning", "connecting", "connected"},
         link' \in Handles \cup {0}, link' # 0 <=> gap' = "connected",
         characteristic' \in [1 .. 2 -> 0 .. MaxChrs], finding' \in 0 .. 2, announced' \in BOOLEAN
  PROVE  ClientInv'
<1>1. ClientTypeOK'
  <2>1. (proc # NoProc => peer.known)' /\ completion' \in {"no", "ok", "failed"}
    BY DEF PeerInv, PeerTypeOK, PeerControl
  <2> QED
    BY <2>1, ApiUntouched DEF ClientTypeOK
<1>2. ApiTypeOK'
  BY ApiUntouched DEF ApiTypeOK
<1> QED
  BY <1>1, <1>2, ApiUntouched DEF ClientInv

(* The facts of the invariant that the steps of the host task rely on.     *)
LEMMA ClientFacts ==
  ASSUME ClientInv
  PROVE  /\ PeerInv /\ LinkControl
         /\ gap \in {"off", "refused", "scanning", "connecting", "connected"}
         /\ link \in Handles \cup {0} /\ (link # 0 <=> gap = "connected")
         /\ characteristic \in [1 .. 2 -> 0 .. MaxChrs]
         /\ finding \in 0 .. 2 /\ announced \in BOOLEAN
  BY DEF ClientInv, ClientTypeOK, ApiTypeOK

(* Scanning and connecting, before there is a peer.                        *)
LEMMA ScanKeeps ==
  ASSUME ClientInv, OnSync \/ TargetFound \/ ConnectFailed
  PROVE  ClientInv'
<1>1. /\ gap # "connected" /\ gap' \in {"scanning", "refused", "connecting"}
      /\ UNCHANGED <<peerVars, link, breaking, connections, targetVars, apiVars, writes>>
  BY DEF OnSync, TargetFound, ConnectFailed, Scan
<1>2. PeerInv'
  BY <1>1, ClientFacts, PeerUnchanged
<1>3. LinkControl'
  <2>1. gap' # "connected" /\ ~peer'.known /\ ~announced' /\ ~breaking' /\ finding' = 0 /\ writes' = <<>>
    BY <1>1, ClientFacts DEF LinkControl, peerVars, targetVars
  <2> QED
    BY <2>1 DEF LinkControl
<1> QED
  BY <1>1, <1>2, <1>3, ClientFacts, HostStep DEF peerVars, targetVars

(* A new connection starts its discovery from nothing.                     *)
LEMMA ConnectedKeeps ==
  ASSUME ClientInv, NEW d \in Databases, NEW h \in Handles, Connected(d, h)
  PROVE  ClientInv'
<1>1. /\ gap = "connecting" /\ gap' = "connected" /\ link' = h /\ AddPeer(d)
      /\ UNCHANGED <<breaking, targetVars, apiVars, writes>>
  BY DEF Connected
<1>2. ~peer.known /\ finding = 0 /\ ~announced /\ writes = <<>>
  BY <1>1, ClientFacts DEF LinkControl
<1>3. PeerInv'
  BY <1>1, <1>2, ClientFacts, AddPeerKeeps
<1>4. h # 0 /\ h \in Handles
  BY HandlesAssumption
<1>5. peer'.known
  BY <1>1 DEF AddPeer
<1>6. LinkControl'
  <2>1. finding' = 0 /\ ~announced'
    BY <1>1, <1>2 DEF targetVars
  <2> QED
    BY <1>1, <1>5, <2>1 DEF LinkControl
<1>7. PlaybackReachesTarget' /\ PacketsPaced' /\ AnswersCounted' /\ StreamLength'
  <2>1. writes' = <<>> /\ DOMAIN <<>> = {}
    BY <1>1, <1>2
  <2>2. PlaybackReachesTarget'
    BY <2>1 DEF PlaybackReachesTarget
  <2>3. PacketsPaced' /\ AnswersCounted' /\ StreamLength'
    BY <1>1 DEF ClientInv, PacketsPaced, AnswersCounted, StreamLength, apiVars
  <2> QED
    BY <2>2, <2>3
<1>8. ClientTypeOK'
  <2>1. (proc # NoProc => peer.known)' /\ completion' \in {"no", "ok", "failed"}
    BY <1>3 DEF PeerInv, PeerTypeOK, PeerControl
  <2>2. characteristic' \in [1 .. 2 -> 0 .. MaxChrs] /\ finding' \in 0 .. 2
    BY <1>1, ClientFacts DEF targetVars
  <2>3. state' \in {0, 2, 3} /\ sent' \in 0 .. MaxPackets + 1
    BY <1>1 DEF ClientInv, ClientTypeOK, apiVars
  <2> QED
    BY <1>1, <1>4, <2>1, <2>2, <2>3 DEF ClientTypeOK
<1>9. ApiTypeOK'
  BY <1>1 DEF ClientInv, ApiTypeOK, apiVars, targetVars
<1> QED
  BY <1>3, <1>6, <1>7, <1>8, <1>9 DEF ClientInv

(* The host takes note of a broken link later.                             *)
LEMMA LinkBreaksKeeps ==
  ASSUME ClientInv, LinkBreaks
  PROVE  ClientInv'
<1>1. /\ gap = "connected" /\ UNCHANGED <<peerVars, gap, link, connections, targetVars, apiVars, writes>>
  BY DEF LinkBreaks
<1>2. PeerInv'
  BY <1>1, ClientFacts, PeerUnchanged
<1>3. HoldsTarget' <=> HoldsTarget
  BY <1>1 DEF HoldsTarget, ServerChrs, IsTarget, peerVars, targetVars
<1>4. LinkControl'
  BY <1>1, <1>3, ClientFacts DEF LinkControl, peerVars, targetVars
<1> QED
  BY <1>1, <1>2, <1>4, ClientFacts, HostStep DEF peerVars, targetVars

(* A disconnection deletes the peer and takes the announcement back.       *)
LEMMA DisconnectedKeeps ==
  ASSUME ClientInv, Disconnected
  PROVE  ClientInv'
<1>1. /\ completion = "no" /\ proc = NoProc /\ writes = <<>> /\ DeletePeer
      /\ gap' \in {"scanning", "refused"} /\ link' = 0 /\ breaking' = FALSE /\ announced' = FALSE
      /\ UNCHANGED <<connections, finding, characteristic, connectionHandle, isConnected, apiVars, writes>>
  BY DEF Disconnected, HostReady, Scan
<1>2. UNCHANGED <<server, proc, completion>> /\ peer' = NoPeer
  BY <1>1 DEF DeletePeer
<1>3. PeerInv'
  BY <1>1, <1>2, ClientFacts, DeletePeerKeeps
<1>4. LinkControl'
  <2>1. ~peer'.known
    BY <1>2 DEF NoPeer
  <2>2. finding' = 0 /\ writes' = <<>>
    BY <1>1, ClientFacts DEF LinkControl
  <2> QED
    BY <1>1, <2>1, <2>2 DEF LinkControl
<1> QED
  BY <1>1, <1>2, <1>3, <1>4, ClientFacts, HostStep

(* The callbacks of the discovery run before anything is announced.        *)
LEMMA DiscoverKeeps ==
  ASSUME ClientInv, Discover \/ DiscoverFails
  PROVE  ClientInv'
<1>1. /\ completion = "no" /\ (Found \/ AllFound \/ ProcedureFails)
      /\ UNCHANGED <<gapVars, targetVars, apiVars, writes>>
  BY DEF Discover, DiscoverFails, HostReady
<1>2. PeerInv'
  BY <1>1, ClientFacts, FoundKeeps, AllFoundKeeps, ProcedureFailsKeeps
<1>3. peer'.known = peer.known /\ server' = server /\ proc # NoProc
  BY <1>1, ClientFacts, StillKnown
<1>4. finding = 0 /\ ~announced
  BY <1>1, <1>3, ClientFacts DEF LinkControl
<1>5. LinkControl'
  <2>1. finding' = 0 /\ ~announced'
    BY <1>1, <1>4 DEF targetVars
  <2>2. gap' = gap /\ breaking' = breaking /\ writes' = writes
    BY <1>1 DEF gapVars
  <2> QED
    BY <1>3, <2>1, <2>2, ClientFacts DEF LinkControl
<1> QED
  BY <1>1, <1>2, <1>3, <1>5, ClientFacts, HostStep DEF gapVars, targetVars

(* After a failed discovery the connection is given up.                    *)
LEMMA DiscoveryFailedKeeps ==
  ASSUME ClientInv, DiscoveryFailed
  PROVE  ClientInv'
<1>1. /\ completion = "failed" /\ completion' = "no" /\ breaking' \in {breaking, TRUE}
      /\ UNCHANGED <<server, peer, chrMem, freeChrs, freeSvcs, freeDscs, proc,
                 gap, link, connections, targetVars, apiVars, writes>>
  BY DEF DiscoveryFailed, Terminate
<1>2. peer.known /\ proc = NoProc /\ peer \in KnownPeers
  BY <1>1, ClientFacts, PeerInvFacts DEF PeerInv, PeerControl
<1>3. PeerInv'
  BY <1>1, <1>2, ClientFacts, DiscoveryStops
<1>4. gap = "connected" /\ finding = 0 /\ ~announced
  BY <1>1, <1>2, ClientFacts DEF LinkControl
<1>5. LinkControl'
  BY <1>1, <1>2, <1>4 DEF LinkControl, targetVars
<1> QED
  BY <1>1, <1>3, <1>5, ClientFacts, HostStep DEF targetVars

(* The first pointer found is that of the target characteristic.           *)
LEMMA FindNextKeeps ==
  ASSUME ClientInv, FindNext
  PROVE  ClientInv'
<1>a. PICK b : b = FindCharacteristic(<<"c0", "c1">>[finding + 1])
  OBVIOUS
<1>1. /\ completion = "ok" /\ finding < 2
      /\ characteristic' = [characteristic EXCEPT ![finding + 1] = b]
      /\ IF b = 0 THEN finding' = 0 /\ completion' = "no" /\ breaking' \in {breaking, TRUE}
                  ELSE finding' = finding + 1 /\ UNCHANGED <<completion, breaking>>
      /\ UNCHANGED <<server, peer, chrMem, freeChrs, freeSvcs, freeDscs, proc,
                     gap, link, connections, connectionHandle, isConnected, announced, apiVars, writes>>
  BY <1>a DEF FindNext, Terminate
<1>2. peer.known /\ proc = NoProc /\ peer \in KnownPeers /\ gap = "connected" /\ ~announced
  BY <1>1, ClientFacts, PeerInvFacts DEF PeerInv, PeerControl, LinkControl
<1>3. b \in 0 .. MaxChrs
  BY <1>1, <1>a, ClientFacts, LookedUp
<1>4. finding \in {0, 1} /\ finding' \in 0 .. 2
  <2>1. finding \in 0 .. 2 /\ finding < 2
    BY <1>1, ClientFacts
  <2>2. finding \in {0, 1}
    BY <2>1
  <2>3. finding' \in {0, finding + 1}
    BY <1>1
  <2> QED
    BY <2>2, <2>3
<1>5. characteristic' \in [1 .. 2 -> 0 .. MaxChrs]
  BY <1>1, <1>3, <1>4, ClientFacts
<1>6. CASE b = 0
  <2>1. PeerInv'
    BY <1>1, <1>2, <1>6, ClientFacts, DiscoveryStops
  <2>2. LinkControl'
    BY <1>1, <1>2, <1>6 DEF LinkControl
  <2> QED
    BY <1>1, <1>2, <1>4, <1>5, <2>1, <2>2, ClientFacts, HostStep
<1>7. CASE b # 0
  <2>1. UNCHANGED peerVars
    BY <1>1, <1>7 DEF peerVars
  <2>2. PeerInv'
    BY <2>1, ClientFacts, PeerUnchanged
  <2>3. HoldsTarget'
    <3>1. ServerChrs' = ServerChrs /\ chrMem' = chrMem
      BY <1>1 DEF ServerChrs
    <3>2. CASE finding = 0
      <4>1. <<"c0", "c1">>[finding + 1] = "c0"
        BY <3>2
      <4>2. b = FindCharacteristic("c0")
        BY <1>a, <4>1
      <4>3. \E c \in Range(ServerChrs) : c.uuid = "c0" /\ c.val = chrMem[b].val
        BY <1>1, <1>7, <4>2, ClientFacts, LookedUp
      <4>4. characteristic'[1] = b /\ b \in 1 .. MaxChrs
        <5>1. b \in 1 .. MaxChrs
          BY <1>3, <1>7, PoolAssumption
        <5> QED
          BY <1>1, <3>2, <5>1, ClientFacts
      <4> QED
        BY <3>1, <4>3, <4>4 DEF HoldsTarget, IsTarget
    <3>3. CASE finding = 1
      <4>1. HoldsTarget
        BY <3>3, ClientFacts DEF LinkControl
      <4>2. characteristic'[1] = characteristic[1]
        BY <1>1, <3>3, ClientFacts
      <4> QED
        BY <3>1, <4>1, <4>2 DEF HoldsTarget, IsTarget
    <3> QED
      BY <1>4, <3>2, <3>3
  <2>4. LinkControl'
    BY <1>1, <1>2, <1>7, <2>3, ClientFacts DEF LinkControl
  <2> QED
    BY <1>1, <1>2, <1>4, <1>5, <2>2, <2>4, ClientFacts, HostStep
<1> QED
  BY <1>6, <1>7

(* A connection is announced with the target characteristic in hand.       *)
LEMMA AnnounceKeeps ==
  ASSUME ClientInv, Announce
  PROVE  ClientInv'
<1>1. /\ completion = "ok" /\ finding = 2 /\ completion' = "no" /\ announced' = TRUE /\ finding' = 0
      /\ UNCHANGED <<server, peer, chrMem, freeChrs, freeSvcs, freeDscs, proc,
                 gapVars, characteristic, apiVars, writes>>
  BY DEF Announce
<1>2. peer.known /\ proc = NoProc /\ peer \in KnownPeers /\ gap = "connected" /\ HoldsTarget
  BY <1>1, ClientFacts, PeerInvFacts DEF PeerInv, PeerControl, LinkControl
<1>3. PeerInv'
  BY <1>1, <1>2, ClientFacts, DiscoveryStops
<1>4. HoldsTarget'
  BY <1>1, <1>2 DEF HoldsTarget, ServerChrs, IsTarget
<1>5. LinkControl'
  BY <1>1, <1>2, <1>4 DEF LinkControl, gapVars
<1> QED
  BY <1>1, <1>3, <1>5, ClientFacts, HostStep DEF gapVars

-----------------------------------------------------------------------------
(* The API task, and the answers it waits for.                             *)

Packet(w) == w \in [val : Nat, announced : BOOLEAN]

ReachesTarget(w) == w.announced => \E c \in Range(ServerChrs) : IsTarget(c) /\ c.val = w.val

(* A step that leaves the host's side alone keeps what is known of it.     *)
LEMMA ApiStep ==
  ASSUME ClientInv, UNCHANGED <<peerVars, gapVars, targetVars>>,
         state' \in {0, 2, 3}, sent' \in 0 .. MaxPackets + 1, Var' \in BOOLEAN,
         file' \in 0 .. MaxPackets, queue' \in Seq(1 .. MaxPackets), overlap' \in Nat,
         writes' \in Seq([val : Nat, announced : BOOLEAN]),
         gap # "connected" => writes' = <<>>,
         \A i \in 1 .. Len(writes') : ReachesTarget(writes'[i]),
         Len(writes') <= 1 + overlap', Var' => Len(writes') <= overlap',
         state' = 2 => sent' = 1 \/ sent' < file'
  PROVE  ClientInv'
<1>1. PeerInv'
  BY ClientFacts, PeerUnchanged
<1>2. ClientTypeOK'
  BY DEF ClientInv, ClientTypeOK, peerVars, gapVars, targetVars
<1>3. ApiTypeOK'
  BY DEF ClientInv, ApiTypeOK, targetVars
<1>4. HoldsTarget' <=> HoldsTarget
  BY DEF HoldsTarget, ServerChrs, IsTarget, peerVars, targetVars
<1>5. LinkControl'
  BY <1>4, ClientFacts DEF LinkControl, peerVars, gapVars, targetVars
<1>6. AnswersCounted' /\ StreamLength' /\ PacketsPaced'
  BY DEF AnswersCounted, StreamLength, PacketsPaced
<1>7. PlaybackReachesTarget'
  <2>1. DOMAIN writes' = 1 .. Len(writes')
    OBVIOUS
  <2>2. ServerChrs' = ServerChrs
    BY DEF ServerChrs, peerVars
  <2> QED
    BY <2>1, <2>2 DEF PlaybackReachesTarget, ReachesTarget, IsTarget
<1> QED
  BY <1>1, <1>2, <1>3, <1>5, <1>6, <1>7 DEF ClientInv

(* The facts of the invariant that the steps of the API task rely on.      *)
LEMMA ApiFacts ==
  ASSUME ClientInv
  PROVE  /\ state \in {0, 2, 3} /\ sent \in 0 .. MaxPackets + 1 /\ Var \in BOOLEAN
         /\ file \in 0 .. MaxPackets /\ queue \in Seq(1 .. MaxPackets) /\ overlap \in Nat
         /\ writes \in Seq([val : Nat, announced : BOOLEAN])
         /\ Len(writes) \in Nat /\ DOMAIN writes = 1 .. Len(writes)
         /\ (gap # "connected" => writes = <<>>)
         /\ \A i \in 1 .. Len(writes) : ReachesTarget(writes[i])
         /\ Len(writes) <= 1 + overlap /\ (Var => Len(writes) <= overlap)
         /\ (state = 2 => sent = 1 \/ sent < file)
         /\ MaxPackets \in Nat
<1>1. writes \in Seq([val : Nat, announced : BOOLEAN])
  BY DEF ClientInv, ApiTypeOK
<1>2. Len(writes) \in Nat /\ DOMAIN writes = 1 .. Len(writes)
  BY <1>1
<1>3. \A i \in 1 .. Len(writes) : ReachesTarget(writes[i])
  BY <1>2 DEF ClientInv, PlaybackReachesTarget, ReachesTarget
<1>4. gap # "connected" => writes = <<>>
  BY DEF ClientInv, LinkControl
<1>5. /\ state \in {0, 2, 3} /\ sent \in 0 .. MaxPackets + 1 /\ Var \in BOOLEAN
      /\ file \in 0 .. MaxPackets /\ queue \in Seq(1 .. MaxPackets) /\ overlap \in Nat
  BY DEF ClientInv, ClientTypeOK, ApiTypeOK
<1>6. Len(writes) <= 1 + overlap /\ (Var => Len(writes) <= overlap) /\ (state = 2 => sent = 1 \/ sent < file)
  BY DEF ClientInv, PacketsPaced, AnswersCounted, StreamLength
<1>7. MaxPackets \in Nat
  BY BoundsAssumption
<1> QED
  BY <1>1, <1>2, <1>3, <1>4, <1>5, <1>6, <1>7

(* A write adds at most one packet, and that goes to the target.           *)
LEMMA WriteAdds ==
  ASSUME ClientInv, NEW r, Write(r)
  PROVE  /\ writes' \in Seq([val : Nat, announced : BOOLEAN])
         /\ Len(writes') \in Nat /\ Len(writes') <= Len(writes) + 1
         /\ (gap # "connected" => writes' = <<>>)
         /\ (UNCHANGED server => \A i \in 1 .. Len(writes') : ReachesTarget(writes'[i]))
<1>a. PICK b : b = characteristic[1]
  OBVIOUS
<1>b. PICK w : w = [val |-> chrMem[b].val, announced |-> announced]
  OBVIOUS
<1>1. \/ UNCHANGED writes
      \/ b # 0 /\ link # 0 /\ writes' = Append(writes, w)
  BY <1>a, <1>b DEF Write
<1>2. CASE UNCHANGED writes
  <2>1. Len(writes) <= Len(writes) + 1
    BY ApiFacts
  <2> QED
    BY <1>2, <2>1, ApiFacts
<1>3. CASE b # 0 /\ link # 0 /\ writes' = Append(writes, w)
  <2>1. b \in 1 .. MaxChrs
    <3>1. b \in 0 .. MaxChrs
      BY <1>a, ClientFacts
    <3> QED
      BY <1>3, <3>1, PoolAssumption
  <2>2. w \in [val : Nat, announced : BOOLEAN]
    <3>1. chrMem[b].val \in Nat
      BY <2>1, ClientFacts, PeerInvFacts, MemFacts
    <3>2. announced \in BOOLEAN
      BY ClientFacts
    <3> QED
      BY <1>b, <3>1, <3>2
  <2>3. ReachesTarget(w)
    <3>1. announced => \E c \in Range(ServerChrs) : IsTarget(c) /\ c.val = chrMem[b].val
      BY <1>a, ClientFacts DEF LinkControl, HoldsTarget
    <3> QED
      BY <1>b, <3>1 DEF ReachesTarget
  <2>4. gap = "connected"
    BY <1>3, ClientFacts
  <2>a. PICK n : n = Len(writes)
    OBVIOUS
  <2>5. /\ writes' \in Seq([val : Nat, announced : BOOLEAN]) /\ Len(writes') = n + 1 /\ n \in Nat
        /\ writes'[n + 1] = w /\ \A i \in 1 .. n : writes'[i] = writes[i]
    BY <1>3, <2>2, <2>a, ApiFacts
  <2>6. ASSUME NEW i \in 1 .. Len(writes') PROVE ReachesTarget(writes'[i])
    <3>1. i \in 1 .. n \/ i = n + 1
      BY <2>5
    <3> QED
      BY <2>3, <2>5, <2>a, <3>1, ApiFacts
  <2> QED
    BY <2>4, <2>5, <2>6, <2>a
<1> QED
  BY <1>1, <1>2, <1>3

(* The first packet of a file is sent unasked.                             *)
LEMMA BeginKeeps ==
  ASSUME ClientInv, Begin
  PROVE  ClientInv'
<1>1. /\ queue # <<>> /\ file' = Head(queue) /\ queue' = Tail(queue) /\ Write(FALSE)
      /\ overlap' = Len(writes) /\ Var' = FALSE /\ sent' = 1 /\ state' = 2
      /\ UNCHANGED <<peerVars, gapVars, targetVars>>
  BY DEF Begin
<1>2. file' \in 0 .. MaxPackets /\ queue' \in Seq(1 .. MaxPackets)
  <2> DEFINE S == 1 .. MaxPackets
  <2>1. queue \in Seq(S)
    BY ApiFacts
  <2>2. \A x \in S : x \in 0 .. MaxPackets
    BY ApiFacts
  <2> HIDE DEF S
  <2>3. Head(queue) \in S /\ Tail(queue) \in Seq(S)
    BY <1>1, <2>1
  <2> QED
    BY <1>1, <2>2, <2>3 DEF S
<1>3. sent' \in 0 .. MaxPackets + 1
  BY <1>1, ApiFacts
<1>4. Len(writes') <= 1 + overlap' /\ overlap' \in Nat
  <2>a. PICK n : n = Len(writes)
    OBVIOUS
  <2>b. PICK m : m = Len(writes')
    OBVIOUS
  <2>1. n \in Nat /\ m \in Nat /\ m <= n + 1 /\ overlap' = n
    BY <1>1, <2>a, <2>b, ApiFacts, WriteAdds
  <2> QED
    BY <2>1, <2>b
<1>5. UNCHANGED server
  BY <1>1 DEF peerVars
<1>6. /\ writes' \in Seq([val : Nat, announced : BOOLEAN])
      /\ (gap # "connected" => writes' = <<>>)
      /\ \A i \in 1 .. Len(writes') : ReachesTarget(writes'[i])
  BY <1>1, <1>5, WriteAdds
<1> QED
  BY <1>1, <1>2, <1>3, <1>4, <1>6, ApiStep

(* Each further packet takes the place of an answered one.                 *)
LEMMA ContinueKeeps ==
  ASSUME ClientInv, Continue
  PROVE  ClientInv'
<1>1. /\ state = 2 /\ Var /\ Write(refused) /\ Var' = FALSE /\ sent' = sent + 1
      /\ state' = IF sent + 1 >= file THEN 3 ELSE 2
      /\ UNCHANGED <<peerVars, gapVars, targetVars, file, queue, overlap>>
  BY DEF Continue
<1>2. UNCHANGED server
  BY <1>1 DEF peerVars
<1>3. /\ writes' \in Seq([val : Nat, announced : BOOLEAN])
      /\ (gap # "connected" => writes' = <<>>)
      /\ \A i \in 1 .. Len(writes') : ReachesTarget(writes'[i])
  BY <1>1, <1>2, WriteAdds
<1>4. Len(writes') <= 1 + overlap'
  <2>a. PICK n : n = Len(writes)
    OBVIOUS
  <2>b. PICK m : m = Len(writes')
    OBVIOUS
  <2>1. n \in Nat /\ m \in Nat /\ m <= n + 1 /\ n <= overlap /\ overlap \in Nat /\ overlap' = overlap
    BY <1>1, <2>a, <2>b, ApiFacts, WriteAdds
  <2> QED
    BY <2>1, <2>b
<1>5. /\ sent \in 0 .. MaxPackets + 1 /\ file \in 0 .. MaxPackets /\ MaxPackets \in Nat
      /\ (sent = 1 \/ sent < file)
  BY <1>1, ApiFacts
<1>6. MaxPackets > 0
  BY BoundsAssumption
<1>7. sent' \in 0 .. MaxPackets + 1 /\ (state' = 2 => sent' = 1 \/ sent' < file')
  BY <1>1, <1>5, <1>6
<1>8. /\ state' \in {0, 2, 3} /\ Var' \in BOOLEAN /\ file' \in 0 .. MaxPackets
      /\ queue' \in Seq(1 .. MaxPackets) /\ overlap' \in Nat
  BY <1>1, ApiFacts
<1> QED
  BY <1>1, <1>3, <1>4, <1>7, <1>8, ApiStep

(* bleDoneISR takes the oldest write away.                                 *)
LEMMA WriteAnsweredKeeps ==
  ASSUME ClientInv, WriteAnswered
  PROVE  ClientInv'
<1>1. /\ writes # <<>> /\ writes' = Tail(writes) /\ Var' = TRUE
      /\ UNCHANGED <<peerVars, gapVars, targetVars, state, file, sent, queue, overlap>>
  BY DEF WriteAnswered
<1>a. PICK n : n = Len(writes)
  OBVIOUS
<1>2. /\ writes' \in Seq([val : Nat, announced : BOOLEAN]) /\ n \in Nat /\ n # 0
      /\ Len(writes') = n - 1 /\ \A i \in 1 .. n - 1 : writes'[i] = writes[i + 1]
  BY <1>1, <1>a, ApiFacts
<1>3. ASSUME NEW i \in 1 .. Len(writes') PROVE ReachesTarget(writes'[i])
  <2>a. PICK k : k = i + 1
    OBVIOUS
  <2>1. i \in 1 .. n - 1 /\ k \in 1 .. n
    BY <1>2, <2>a
  <2> QED
    BY <1>2, <1>a, <2>1, <2>a, ApiFacts
<1>4. Len(writes') <= overlap' /\ Len(writes') <= 1 + overlap'
  <2>1. overlap \in Nat /\ n <= 1 + overlap
    BY <1>a, ApiFacts
  <2> QED
    BY <1>1, <1>2, <2>1
<1>5. gap = "connected"
  BY <1>1, ApiFacts
<1>6. /\ state' \in {0, 2, 3} /\ sent' \in 0 .. MaxPackets + 1 /\ Var' \in BOOLEAN
      /\ file' \in 0 .. MaxPackets /\ queue' \in Seq(1 .. MaxPackets) /\ overlap' \in Nat
      /\ (state' = 2 => sent' = 1 \/ sent' < file')
  BY <1>1, ApiFacts
<1> QED
  BY <1>1, <1>2, <1>3, <1>4, <1>5, <1>6, ApiStep

(* A request is queued, the end of a stream noted.                         *)
LEMMA RequestKeeps ==
  ASSUME ClientInv, (\E n \in 1 .. MaxPackets : Request(n)) \/ Finish
  PROVE  ClientInv'
<1>1. /\ UNCHANGED <<peerVars, gapVars, targetVars, Var, file, sent, overlap, writes>>
      /\ state' \in {0, state}
  BY DEF Request, Finish
<1>2. queue' \in Seq(1 .. MaxPackets)
  <2>1. CASE Finish
    BY <2>1, ApiFacts DEF Finish
  <2>2. CASE \E n \in 1 .. MaxPackets : Request(n)
    <3>1. PICK n \in 1 .. MaxPackets : queue' = Append(queue, n)
      BY <2>2 DEF Request
    <3> DEFINE S == 1 .. MaxPackets
    <3>2. queue \in Seq(S) /\ n \in S
      BY ApiFacts
    <3> HIDE DEF S
    <3>3. Append(queue, n) \in Seq(S)
      BY <3>2
    <3> QED
      BY <3>1, <3>3 DEF S
  <2> QED
    BY <2>1, <2>2
<1>3. /\ state' \in {0, 2, 3} /\ sent' \in 0 .. MaxPackets + 1 /\ Var' \in BOOLEAN
      /\ file' \in 0 .. MaxPackets /\ overlap' \in Nat
      /\ (state' = 2 => sent' = 1 \/ sent' < file')
  BY <1>1, ApiFacts
<1>4. /\ writes' \in Seq([val : Nat, announced : BOOLEAN])
      /\ (gap # "connected" => writes' = <<>>)
      /\ \A i \in 1 .. Len(writes') : ReachesTarget(writes'[i])
  BY <1>1, ApiFacts
<1>5. Len(writes') <= 1 + overlap' /\ (Var' => Len(writes') <= overlap')
  BY <1>1, ApiFacts
<1> QED
  BY <1>1, <1>2, <1>3, <1>4, <1>5, ApiStep

(* Every step keeps the invariant.                                         *)
LEMMA ClientSteps == ClientInv /\ [ClientNext]_clientVars => ClientInv'
<1> SUFFICES ASSUME ClientInv, [ClientNext]_clientVars PROVE ClientInv'
  OBVIOUS
<1>1. CASE UNCHANGED clientVars
  <2>1. UNCHANGED <<peerVars, gapVars, targetVars, state, file, sent, queue, overlap, Var, writes>>
    BY <1>1 DEF clientVars, apiVars
  <2> QED
    BY <2>1, ApiFacts, ApiStep
<1>2. CASE OnSync \/ TargetFound \/ ConnectFailed
  BY <1>2, ScanKeeps
<1>3. CASE \E d \in Databases, h \in Handles : Connected(d, h)
  BY <1>3, ConnectedKeeps
<1>4. CASE LinkBreaks
  BY <1>4, LinkBreaksKeeps
<1>5. CASE Disconnected
  BY <1>5, DisconnectedKeeps
<1>6. CASE Discover \/ DiscoverFails
  BY <1>6, DiscoverKeeps
<1>7. CASE DiscoveryFailed
  BY <1>7, DiscoveryFailedKeeps
<1>8. CASE FindNext
  BY <1>8, FindNextKeeps
<1>9. CASE Announce
  BY <1>9, AnnounceKeeps
<1>10. CASE (\E n \in 1 .. MaxPackets : Request(n)) \/ Finish
  BY <1>10, RequestKeeps
<1>11. CASE Begin
  BY <1>11, BeginKeeps
<1>12. CASE Continue
  BY <1>12, ContinueKeeps
<1>13. CASE WriteAnswered
  BY <1>13, WriteAnsweredKeeps
<1> QED
  BY <1>1, <1>2, <1>3, <1>4, <1>5, <1>6, <1>7, <1>8, <1>9, <1>10, <1>11, <1>12, <1>13
     DEF ClientNext, ConnectOutcome, DiscoveryProcessComplete, ApiTask

(* The invariant holds for ever.                                           *)
LEMMA ClientInvariant == ClientSpec => []ClientInv
<1>1. ClientInit => ClientInv
  BY ClientBegins
<1>2. ClientInv /\ [ClientNext]_clientVars => ClientInv'
  BY ClientSteps
<1> QED
  BY <1>1, <1>2, PTL DEF ClientSpec

-----------------------------------------------------------------------------
(* A discovery reported as successful (disc_cb with status 0, bleCentral.c *)
(* discoveryProcessComplete) has found every service, characteristic and   *)
(* descriptor of the peripheral in its place, and the pools of peer.c      *)
(* account for every block, whatever fails, breaks or runs out.            *)
THEOREM DiscoveryStaysSound == ClientSpec => []DiscoverySound
<1>1. ClientInv => DiscoverySound
  BY DEF ClientInv, PeerInv, DiscoverySound
<1> QED
  BY <1>1, ClientInvariant, PTL

(* The API task's packets are paced by the answers of bleDoneISR, and one  *)
(* sent after discoveryProcessComplete announced the connection is written *)
(* to the target characteristic of the peripheral that is connected.       *)
THEOREM StreamStaysSound == ClientSpec => []StreamSound
<1>1. ClientInv => StreamSound
  BY DEF ClientInv, StreamSound
<1> QED
  BY <1>1, ClientInvariant, PTL
=============================================================================
