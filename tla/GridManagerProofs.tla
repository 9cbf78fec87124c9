------------------------- MODULE GridManagerProofs --------------------------
(***************************************************************************)
(* A grid whose callers keep to the contract fails no assertion but the    *)
(* ones about the pool, keeps every row a run of notes that do not         *)
(* overlap, behaves as the set of notes of NoteGrid, is shown by the LEDs  *)
(* of every window of it, and comes back from the file it is saved to.     *)
(*                                                                         *)
(* The first half is about lists of events, whoever changes them: what the *)
(* searches of GridRow find, and what entering, removing and editing a     *)
(* pair of events leaves. The invariant and the refinement follow, then    *)
(* the windows and the file, and last the rows that edits without care     *)
(* leave, for SequencerProofs.                                             *)
(***************************************************************************)
EXTENDS GridViews, SequenceTheorems, FiniteSetTheorems, TLAPS

-----------------------------------------------------------------------------
(* Least and greatest positions.                                           *)

LEMMA LeastNatural ==
  ASSUME NEW S, S \subseteq Nat, S # {}
  PROVE  Min(S) \in S /\ \A x \in S : Min(S) <= x
<1>1. \E x \in S : \A y \in S : ~ (<<y, x>> \in OpToRel(<, Nat))
  BY NatLessThanWellFounded, WFMin
<1>2. PICK x \in S : \A y \in S : ~(y < x)
  BY <1>1 DEF OpToRel
<1>3. \A y \in S : x <= y
  BY <1>2
<1> QED
  BY <1>3 DEF Min

(* The set has a Max because the distances of its elements from n have a   *)
(* Min.                                                                    *)
LEMMA GreatestBelow ==
  ASSUME NEW n \in Nat, NEW S, S \subseteq 0 .. n, S # {}
  PROVE  Max(S) \in S /\ \A x \in S : x <= Max(S)
<1> DEFINE D == {d \in Nat : n - d \in S}
<1>1. D # {}
  <2>1. PICK x \in S : TRUE
    OBVIOUS
  <2>2. n - x \in Nat /\ n - (n - x) = x
    BY <2>1
  <2> QED
    BY <2>1, <2>2
<1>2. Min(D) \in D /\ \A d \in D : Min(D) <= d
  BY <1>1, LeastNatural
<1> DEFINE m == n - Min(D)
<1>3. m \in S /\ \A x \in S : m >= x
  <2>1. ASSUME NEW x \in S PROVE m >= x
    <3>1. n - x \in D
      BY <2>1
    <3> QED
      BY <1>2, <3>1
  <2> QED
    BY <1>2, <2>1
<1> HIDE DEF m
<1> QED
  BY <1>3 DEF Max

LEMMA FirstIs ==
  ASSUME NEW S, S \subseteq Nat, NEW i \in S, \A j \in S : i <= j
  PROVE  First(S) = i
<1>1. S # {} /\ Min(S) \in S /\ \A x \in S : Min(S) <= x
  BY LeastNatural
<1>2. Min(S) <= i /\ i <= Min(S) /\ Min(S) \in Nat /\ i \in Nat
  BY <1>1
<1>3. Min(S) = i
  BY <1>2
<1> QED
  BY <1>1, <1>3 DEF First

LEMMA FinalIs ==
  ASSUME NEW n \in Nat, NEW S, S = 1 .. n
  PROVE  Final(S) = n
<1>1. CASE n = 0
  BY <1>1 DEF Final
<1>2. CASE n > 0
  <2>1. S \subseteq 0 .. n /\ n \in S /\ S # {}
    BY <1>2
  <2>2. Max(S) \in S /\ n <= Max(S)
    BY <2>1, GreatestBelow
  <2>3. Max(S) = n
    BY <2>2
  <2> QED
    BY <2>1, <2>3 DEF Final
<1> QED
  BY <1>1, <1>2

-----------------------------------------------------------------------------
(* The sum of the lengths of the rows, which MapThenSumSet takes one row   *)
(* at a time: it is defined for every finite set of rows, and follows the  *)
(* change of a row.                                                        *)

One(s) == CHOOSE x \in s : TRUE

Total(ls) ==
  CHOOSE f : f = [s \in SUBSET Rows |->
                    IF s = {} THEN 0 ELSE Len(ls[One(s)]) + f[s \ {One(s)}]]

LEMMA LessOne ==
  ASSUME NEW s \in SUBSET Rows, s # {}
  PROVE  /\ One(s) \in s /\ s \ {One(s)} \in SUBSET Rows
         /\ Cardinality(s) \in Nat /\ Cardinality(s) # 0
         /\ Cardinality(s \ {One(s)}) = Cardinality(s) - 1
<1>1. One(s) \in s
  BY DEF One
<1>2. IsFiniteSet(s)
  BY GridAssumption, FS_Subset
<1>3. Cardinality(s \ {One(s)}) = Cardinality(s) - 1 /\ Cardinality(s) \in Nat
  BY <1>1, <1>2, FS_RemoveElement, FS_CardinalityType
<1>4. Cardinality(s) # 0
  BY <1>2, FS_EmptySet
<1> QED
  BY <1>1, <1>3, <1>4

LEMMA RowsInduction ==
  ASSUME NEW P, {} \in P, \A s \in SUBSET Rows : s # {} /\ s \ {One(s)} \in P => s \in P
  PROVE  SUBSET Rows \subseteq P
<1> SUFFICES ASSUME (SUBSET Rows) \ P # {} PROVE FALSE
  OBVIOUS
<1> DEFINE B == {Cardinality(s) : s \in (SUBSET Rows) \ P}
<1>1. B \subseteq Nat /\ B # {}
  BY GridAssumption, FS_Subset, FS_CardinalityType
<1>2. Min(B) \in B /\ \A x \in B : Min(B) <= x
  BY <1>1, LeastNatural
<1>3. PICK s \in (SUBSET Rows) \ P : Cardinality(s) = Min(B)
  BY <1>2
<1>4. s # {}
  BY <1>3
<1>5. /\ s \ {One(s)} \in SUBSET Rows
      /\ Cardinality(s) \in Nat /\ Cardinality(s \ {One(s)}) = Cardinality(s) - 1
  BY <1>4, LessOne
<1>6. s \ {One(s)} \notin P
  BY <1>3, <1>4
<1>7. Cardinality(s) - 1 \in B
  BY <1>5, <1>6
<1> QED
  BY <1>2, <1>3, <1>5, <1>7

LEMMA TotalIs ==
  ASSUME NEW ls \in [Rows -> Seq(Event)]
  PROVE  /\ Total(ls)[{}] = 0
         /\ \A s \in SUBSET Rows :
              /\ Total(ls)[s] \in Nat
              /\ s # {} => Total(ls)[s] = Len(ls[One(s)]) + Total(ls)[s \ {One(s)}]
<1> DEFINE Small(n) == {s \in SUBSET Rows : Cardinality(s) <= n}
           Sums(f, n) == \A s \in Small(n) :
                           f[s] = IF s = {} THEN 0 ELSE Len(ls[One(s)]) + f[s \ {One(s)}]
           P(n) == \E f \in [Small(n) -> Nat] : Sums(f, n)
           B == {n \in Nat : ~P(n)}
<1>1. P(0)
  <2>1. Small(0) \subseteq {{}}
    <3> SUFFICES ASSUME NEW s \in Small(0), s # {} PROVE FALSE
      OBVIOUS
    <3>1. s \in SUBSET Rows /\ Cardinality(s) <= 0
      OBVIOUS
    <3>2. Cardinality(s) \in Nat /\ Cardinality(s) # 0
      BY <3>1, LessOne
    <3> QED
      BY <3>1, <3>2
  <2> DEFINE f == [s \in Small(0) |-> 0]
  <2>2. f \in [Small(0) -> Nat] /\ Sums(f, 0)
    BY <2>1
  <2> QED
    BY <2>2
<1>2. ASSUME NEW n \in Nat, P(n) PROVE P(n + 1)
  <2>1. PICK f \in [Small(n) -> Nat] : Sums(f, n)
    BY <1>2
  <2> DEFINE g == [s \in Small(n + 1) |->
                     IF s = {} THEN 0 ELSE Len(ls[One(s)]) + f[s \ {One(s)}]]
  <2>2. ASSUME NEW s \in Small(n + 1), s # {}
        PROVE  /\ s \ {One(s)} \in Small(n) /\ s \ {One(s)} \in Small(n + 1)
               /\ Len(ls[One(s)]) \in Nat
    <3>1. /\ One(s) \in s /\ s \ {One(s)} \in SUBSET Rows /\ Cardinality(s) \in Nat
          /\ Cardinality(s \ {One(s)}) = Cardinality(s) - 1
      BY <2>2, LessOne
    <3>2. Cardinality(s) - 1 <= n /\ Cardinality(s) - 1 <= n + 1
      BY <3>1
    <3>3. ls[One(s)] \in Seq(Event)
      BY <3>1
    <3> QED
      BY <3>1, <3>2, <3>3
  <2>3. g \in [Small(n + 1) -> Nat]
    <3> SUFFICES ASSUME NEW s \in Small(n + 1), s # {}
                 PROVE  Len(ls[One(s)]) + f[s \ {One(s)}] \in Nat
      OBVIOUS
    <3>1. Len(ls[One(s)]) \in Nat /\ s \ {One(s)} \in Small(n)
      BY <2>2
    <3>2. f[s \ {One(s)}] \in Nat
      BY <3>1
    <3> QED
      BY <3>1, <3>2
  <2>4. ASSUME NEW t \in Small(n) PROVE t \in Small(n + 1) /\ g[t] = f[t]
    <3>1. t \in Small(n + 1)
      <4>1. Cardinality(t) \in Nat
        BY GridAssumption, FS_Subset, FS_CardinalityType
      <4> QED
        BY <4>1
    <3> QED
      BY <2>1, <3>1
  <2>5. Sums(g, n + 1)
    BY <2>2, <2>4
  <2> QED
    BY <2>3, <2>5
<1> DEFINE N == Cardinality(Rows)
<1>3. N \in Nat /\ Small(N) = SUBSET Rows
  BY GridAssumption, FS_Subset, FS_CardinalityType
<1>4. P(N)
  <2> HIDE DEF P
  <2>1. B = {}
    <3> SUFFICES ASSUME B # {} PROVE FALSE
      OBVIOUS
    <3>1. Min(B) \in B /\ \A x \in B : Min(B) <= x
      BY LeastNatural
    <3> DEFINE m == Min(B)
    <3> HIDE DEF m
    <3>2. m \in Nat /\ ~P(m) /\ \A x \in Nat : ~P(x) => m <= x
      BY <3>1 DEF m
    <3>3. m # 0
      BY <1>1, <3>2
    <3>4. m - 1 \in Nat /\ (m - 1) + 1 = m /\ ~(m <= m - 1)
      BY <3>2, <3>3
    <3>5. P(m - 1)
      BY <3>2, <3>4
    <3>6. P((m - 1) + 1)
      BY <1>2, <3>4, <3>5
    <3> QED
      BY <3>2, <3>4, <3>6
  <2> QED
    BY <1>3, <2>1
<1>5. PICK f \in [SUBSET Rows -> Nat] :
        \A s \in SUBSET Rows : f[s] = IF s = {} THEN 0 ELSE Len(ls[One(s)]) + f[s \ {One(s)}]
  BY <1>3, <1>4
<1>6. f = [s \in SUBSET Rows |-> IF s = {} THEN 0 ELSE Len(ls[One(s)]) + f[s \ {One(s)}]]
  BY <1>5
<1>7. Total(ls) = [s \in SUBSET Rows |->
                     IF s = {} THEN 0 ELSE Len(ls[One(s)]) + Total(ls)[s \ {One(s)}]]
  BY <1>6 DEF Total
<1> HIDE DEF P, B, N, Small, Sums
<1>8. /\ Total(ls)[{}] = 0
      /\ \A s \in SUBSET Rows :
           s # {} => Total(ls)[s] = Len(ls[One(s)]) + Total(ls)[s \ {One(s)}]
  BY <1>7
<1>9. SUBSET Rows \subseteq {s \in SUBSET Rows : Total(ls)[s] \in Nat}
  <2> DEFINE G == {s \in SUBSET Rows : Total(ls)[s] \in Nat}
  <2>1. {} \in G
    BY <1>8
  <2>2. ASSUME NEW s \in SUBSET Rows, s # {}, s \ {One(s)} \in G PROVE s \in G
    <3>1. ls[One(s)] \in Seq(Event)
      BY <2>2, LessOne
    <3>2. Len(ls[One(s)]) \in Nat
      BY <3>1
    <3>3. Total(ls)[s \ {One(s)}] \in Nat
      BY <2>2
    <3>4. Total(ls)[s] = Len(ls[One(s)]) + Total(ls)[s \ {One(s)}]
      BY <1>8, <2>2
    <3> QED
      BY <3>2, <3>3, <3>4
  <2> HIDE DEF G
  <2>3. SUBSET Rows \subseteq G
    BY <2>1, <2>2, RowsInduction
  <2> QED
    BY <2>3 DEF G
<1> QED
  BY <1>8, <1>9


(* Total follows a change of one row.                                      *)
LEMMA TotalChanges ==
  ASSUME NEW ls \in [Rows -> Seq(Event)], NEW r \in Rows, NEW m \in Seq(Event),
         NEW ms, ms = [ls EXCEPT ![r] = m]
  PROVE  Total(ms)[Rows] = Total(ls)[Rows] - Len(ls[r]) + Len(m)
<1> DEFINE delta == Len(m) - Len(ls[r])
<1>1. ms \in [Rows -> Seq(Event)] /\ \A s \in Rows : ms[s] = IF s = r THEN m ELSE ls[s]
  OBVIOUS
<1>2. /\ \A s \in Rows : Len(ls[s]) \in Nat
      /\ Len(m) \in Nat /\ Len(ls[r]) \in Nat /\ delta \in Int
  OBVIOUS
<1> DEFINE G == {s \in SUBSET Rows : Total(ms)[s] = Total(ls)[s] + IF r \in s THEN delta ELSE 0}
<1>3. {} \in G
  <2>1. Total(ms)[{}] = 0 /\ Total(ls)[{}] = 0
    BY <1>1, TotalIs
  <2>2. {} \in SUBSET Rows /\ r \notin {}
    OBVIOUS
  <2> QED
    BY <2>1, <2>2
<1>4. ASSUME NEW s \in SUBSET Rows, s # {}, s \ {One(s)} \in G PROVE s \in G
  <2> DEFINE x == One(s)
             t == s \ {x}
  <2>1. x \in s /\ x \in Rows /\ t \in SUBSET Rows
    BY <1>4, LessOne
  <2>2. /\ Total(ms)[s] = Len(ms[x]) + Total(ms)[t] /\ Total(ls)[s] = Len(ls[x]) + Total(ls)[t]
        /\ Total(ls)[t] \in Nat
    BY <1>1, <1>4, <2>1, TotalIs
  <2>3. Total(ms)[t] = Total(ls)[t] + IF r \in t THEN delta ELSE 0
    BY <1>4
  <2>4. r \notin {x} => (r \in t <=> r \in s)
    OBVIOUS
  <2>5. r \notin t \/ r # x
    OBVIOUS
  <2> HIDE DEF t, x
  <2>6. CASE x = r
    <3>1. ms[x] = m /\ r \notin t /\ r \in s
      BY <1>1, <2>1, <2>5, <2>6
    <3>2. Total(ms)[s] = Total(ls)[s] + delta
      BY <1>2, <2>2, <2>3, <2>6, <3>1
    <3> QED
      BY <3>1, <3>2
  <2>7. CASE x # r
    <3>1. ms[x] = ls[x] /\ (r \in t <=> r \in s) /\ Len(ls[x]) \in Nat
      BY <1>1, <1>2, <2>1, <2>4, <2>7
    <3>2. Total(ms)[s] = Total(ls)[s] + IF r \in s THEN delta ELSE 0
      BY <1>2, <2>2, <2>3, <3>1
    <3> QED
      BY <3>2
  <2> QED
    BY <2>6, <2>7
<1> HIDE DEF G
<1>5. SUBSET Rows \subseteq G
  BY <1>3, <1>4, RowsInduction
<1>6. Total(ms)[Rows] = Total(ls)[Rows] + delta
  BY <1>5 DEF G
<1>7. Total(ls)[Rows] \in Nat
  BY TotalIs
<1> QED
  BY <1>2, <1>6, <1>7

LEMMA TotalOfEmptied ==
  ASSUME NEW ls, ls = [r \in Rows |-> <<>>]
  PROVE  Total(ls)[Rows] = 0
<1> DEFINE G == {s \in SUBSET Rows : Total(ls)[s] = 0}
<1>1. ls \in [Rows -> Seq(Event)] /\ \A r \in Rows : Len(ls[r]) = 0
  OBVIOUS
<1>2. {} \in G
  BY <1>1, TotalIs
<1>3. ASSUME NEW s \in SUBSET Rows, s # {}, s \ {One(s)} \in G PROVE s \in G
  <2>1. One(s) \in Rows
    BY <1>3, LessOne
  <2>2. Total(ls)[s] = Len(ls[One(s)]) + Total(ls)[s \ {One(s)}]
    BY <1>1, <1>3, TotalIs
  <2>3. Total(ls)[s \ {One(s)}] = 0 /\ Len(ls[One(s)]) = 0
    BY <1>1, <1>3, <2>1
  <2> QED
    BY <2>2, <2>3
<1> HIDE DEF G
<1>4. SUBSET Rows \subseteq G
  BY <1>2, <1>3, RowsInduction
<1> QED
  BY <1>4 DEF G

LEMMA PoolIsTotal == MapThenSumSet(LAMBDA r : Len(lists[r]), Rows) = Total(lists)[Rows]
  BY DEF MapThenSumSet, MapThenFoldSet, Total, One

LEMMA RowWithinTotal ==
  ASSUME NEW ls \in [Rows -> Seq(Event)], NEW r \in Rows
  PROVE  Total(ls)[Rows] \in Nat /\ Len(ls[r]) <= Total(ls)[Rows]
<1>0. PICK e \in Seq(Event) : Len(e) = 0
  <2>1. <<>> \in Seq(Event) /\ Len(<<>>) = 0
    OBVIOUS
  <2> QED
    BY <2>1
<1> DEFINE ms == [ls EXCEPT ![r] = e]
<1>1. ms \in [Rows -> Seq(Event)]
  OBVIOUS
<1>2. Total(ms)[Rows] = Total(ls)[Rows] - Len(ls[r]) + Len(e)
  BY TotalChanges
<1>3. Total(ms)[Rows] \in Nat /\ Total(ls)[Rows] \in Nat
  BY <1>1, TotalIs
<1>4. Len(ls[r]) \in Nat
  OBVIOUS
<1> HIDE DEF ms
<1> QED
  BY <1>0, <1>2, <1>3, <1>4

-----------------------------------------------------------------------------
(* Rows of events as any menu leaves them: pairs whose note-ons stay in    *)
(* order, although a note-off may have been put beyond the next note-on.   *)

Loose(l) ==
  /\ Alternates(l)
  /\ \A i, j \in DOMAIN l : i % 2 = 1 /\ i <= j => l[i].col <= l[j].col

LEMMA EventsOfRow ==
  ASSUME NEW l \in Seq(Event)
  PROVE  /\ DOMAIN l = 1 .. Len(l) /\ Len(l) \in Nat
         /\ \A i \in DOMAIN l : l[i] \in Event /\ l[i].col \in Nat /\ l[i].on \in BOOLEAN
<1>1. DOMAIN l = 1 .. Len(l) /\ Len(l) \in Nat /\ \A i \in DOMAIN l : l[i] \in Event
  OBVIOUS
<1>2. \A e \in Event : e.col \in Nat /\ e.on \in BOOLEAN
  BY DEF Event
<1> QED
  BY <1>1, <1>2

LEMMA Parity ==
  ASSUME NEW n \in Int
  PROVE  /\ n % 2 \in {0, 1}
         /\ (n + 1) % 2 = 1 - (n % 2) /\ (n - 1) % 2 = 1 - (n % 2)
         /\ (n + 2) % 2 = n % 2 /\ (n - 2) % 2 = n % 2
  OBVIOUS

(* How far the scan of gridManager.c for column c gets.                    *)
Reach(l, c) == Final(Scanned(l, c))

LEMMA ScanIsPrefix ==
  ASSUME NEW l \in Seq(Event), NEW c \in Nat, Loose(l)
  PROVE  /\ Reach(l, c) \in 0 .. Len(l)
         /\ Scanned(l, c) = 1 .. Reach(l, c)
         /\ \A i \in 1 .. Reach(l, c) : l[i].col <= c
         /\ Reach(l, c) < Len(l) => l[Reach(l, c) + 1].col > c
<1> USE EventsOfRow
<1> SUFFICES ASSUME NEW p \in 0 .. Len(l),
                    \A i \in 1 .. p : l[i].col <= c,
                    p < Len(l) => l[p + 1].col > c
             PROVE  Scanned(l, c) = 1 .. p
  <2> DEFINE B == {i \in DOMAIN l : l[i].col > c}
             Good(p) == /\ \A i \in 1 .. p : l[i].col <= c
                        /\ p < Len(l) => l[p + 1].col > c
  <2>1. \E p \in 0 .. Len(l) : Good(p)
    <3>1. CASE B = {}
      <4>1. Good(Len(l))
        BY <3>1
      <4> QED
        BY <4>1
    <3>2. CASE B # {}
      <4>1. B \subseteq Nat
        OBVIOUS
      <4>2. Min(B) \in B /\ \A x \in B : Min(B) <= x
        BY <3>2, <4>1, LeastNatural
      <4> DEFINE m == Min(B)
      <4> HIDE DEF m
      <4>3. m \in 1 .. Len(l) /\ l[m].col > c /\ \A x \in DOMAIN l : l[x].col > c => m <= x
        BY <4>2 DEF m
      <4>4. m - 1 \in 0 .. Len(l)
        BY <4>3
      <4>5. ASSUME NEW i \in 1 .. m - 1 PROVE l[i].col <= c
        <5>1. i \in DOMAIN l /\ ~(m <= i)
          BY <4>3
        <5> QED
          BY <4>3, <5>1
      <4>6. (m - 1) + 1 = m
        BY <4>3
      <4> QED
        BY <4>3, <4>4, <4>5, <4>6
    <3> QED
      BY <3>1, <3>2
  <2>2. PICK p \in 0 .. Len(l) : Good(p)
    BY <2>1
  <2>3. Scanned(l, c) = 1 .. p
    BY <2>2
  <2>4. Reach(l, c) = p
    BY <2>3, FinalIs DEF Reach
  <2> QED
    BY <2>2, <2>3, <2>4
<1>1. ASSUME NEW i \in 1 .. p PROVE i \in Scanned(l, c)
  BY DEF Scanned
<1>2. ASSUME NEW i \in Scanned(l, c) PROVE i \in 1 .. p
  <2>1. i \in DOMAIN l /\ l[i].col <= c /\ \A j \in 2 .. i : l[j].col <= c
    BY DEF Scanned
  <2>2. l[1].col <= c
    <3>1. 1 \in DOMAIN l /\ 1 % 2 = 1 /\ 1 <= i
      BY <2>1
    <3>2. l[1].col <= l[i].col /\ l[1].col \in Nat /\ l[i].col \in Nat
      BY <2>1, <3>1 DEF Loose
    <3> QED
      BY <2>1, <3>2
  <2>3. CASE i > p
    <3>1. p + 1 \in DOMAIN l /\ l[p + 1].col > c
      BY <2>1, <2>3
    <3>2. p + 1 = 1 \/ p + 1 \in 2 .. i
      BY <2>1, <2>3
    <3> QED
      BY <2>1, <2>2, <3>1, <3>2
  <2> QED
    BY <2>1, <2>3
<1> QED
  BY <1>1, <1>2

(* What a query finds, for rows of either kind: no assertion fails, and it *)
(* finds a note just when the scan stops at a note-on.                     *)
LEMMA QueryIs ==
  ASSUME NEW l \in Seq(Event), NEW c \in Nat, Loose(l)
  PROVE  /\ ~QueryFault(l, c)
         /\ NoteAt(l, c).found <=> Reach(l, c) % 2 = 1
         /\ NoteAt(l, c).found => Reach(l, c) < Len(l)
<1> USE EventsOfRow
<1> DEFINE p == Reach(l, c)
<1>1. /\ p \in 0 .. Len(l) /\ Scanned(l, c) = 1 .. p
      /\ \A i \in 1 .. p : l[i].col <= c
      /\ p < Len(l) => l[p + 1].col > c
  BY ScanIsPrefix
<1>2. Final(Scanned(l, c)) = p
  BY DEF Reach
<1> HIDE DEF p
<1>3. \A i \in DOMAIN l : l[i].on <=> i % 2 = 1
  BY DEF Loose, Alternates
<1>4. ~ScanFault(l, c)
  <2> SUFFICES ASSUME NEW i \in 1 .. p
               PROVE  ~(l[i].on <=> (i - 1 \in 1 .. p /\ l[i - 1].on))
    BY <1>1 DEF ScanFault
  <2>1. CASE i % 2 = 1
    <3>1. l[i].on
      BY <1>1, <1>3, <2>1
    <3>2. ASSUME i - 1 \in 1 .. p PROVE ~l[i - 1].on
      <4>1. i - 1 \in DOMAIN l /\ (i - 1) % 2 # 1
        BY <1>1, <2>1, <3>2, SMTT(30)
      <4> QED
        BY <1>3, <4>1
    <3> QED
      BY <3>1, <3>2
  <2>2. CASE i % 2 # 1
    <3>1. ~l[i].on
      BY <1>1, <1>3, <2>2
    <3>2. i - 1 \in 1 .. p /\ i - 1 \in DOMAIN l /\ (i - 1) % 2 = 1
      <4>1. i % 2 = 0 /\ (i - 1) % 2 = 1
        BY <1>1, <2>2, Parity, SMTT(30)
      <4>2. i # 1
        BY <4>1
      <4> QED
        BY <1>1, <4>1, <4>2
    <3> QED
      BY <1>3, <3>1, <3>2
  <2> QED
    BY <2>1, <2>2
<1>5. p # 0 => (l[p].on <=> p % 2 = 1)
  BY <1>1, <1>3
<1>6. NoteAt(l, c).found <=> (p # 0 /\ l[p].on)
  BY <1>2, <1>5 DEF NoteAt, NoNote
<1>7. p # 0 /\ l[p].on => p < Len(l) /\ ~l[p + 1].on
  <2> SUFFICES ASSUME p # 0, l[p].on PROVE p < Len(l) /\ ~l[p + 1].on
    OBVIOUS
  <2>1. p % 2 = 1 /\ Len(l) % 2 = 0
    BY <1>5 DEF Loose, Alternates
  <2>2. p < Len(l)
    BY <1>1, <2>1
  <2>3. (p + 1) % 2 = 0
    <3>1. p \in Int
      BY <1>1
    <3> QED
      BY <2>1, <3>1, Parity
  <2>4. p + 1 \in DOMAIN l
    BY <1>1, <2>2
  <2> QED
    BY <1>3, <2>2, <2>3, <2>4
<1>8. NoteOffOf(l, p) = 0 => ~(p # 0 /\ l[p].on)
  BY <1>1, <1>7 DEF NoteOffOf
<1>9. ~QueryFault(l, c)
  BY <1>2, <1>4, <1>8 DEF QueryFault
<1>10. NoteAt(l, c).found <=> p % 2 = 1
  BY <1>1, <1>5, <1>6
<1>11. NoteAt(l, c).found => p < Len(l)
  BY <1>6, <1>7
<1> QED
  BY <1>9, <1>10, <1>11 DEF p

-----------------------------------------------------------------------------
(* The three ways a row changes, event by event.                           *)

(* m is l with a note-on and its note-off entered after position k.        *)
Spliced(l, m, k) ==
  /\ Len(m) = Len(l) + 2
  /\ \A i \in 1 .. k : m[i] = l[i]
  /\ \A i \in k + 1 .. Len(l) : m[i + 2] = l[i]
  /\ m[k + 1].on /\ ~m[k + 2].on

LEMMA InsertPairIs ==
  ASSUME NEW l \in Seq(Event), NEW k \in 0 .. Len(l), NEW e \in Event, NEW f \in Event,
         e.on, ~f.on
  PROVE  /\ InsertPair(l, k, e, f) \in Seq(Event)
         /\ Spliced(l, InsertPair(l, k, e, f), k)
         /\ InsertPair(l, k, e, f)[k + 1] = e
         /\ InsertPair(l, k, e, f)[k + 2] = f
<1> DEFINE a == SubSeq(l, 1, k)
           b == <<e, f>>
           z == SubSeq(l, k + 1, Len(l))
<1>0. Len(l) \in Nat /\ k \in Nat /\ k <= Len(l) /\ \A i \in 1 .. Len(l) : l[i] \in Event
  OBVIOUS
<1>1. a \in Seq(Event) /\ Len(a) = k /\ \A i \in 1 .. k : a[i] = l[i]
  BY <1>0
<1>2. b \in Seq(Event) /\ Len(b) = 2 /\ b[1] = e /\ b[2] = f
  OBVIOUS
<1>3. z \in Seq(Event) /\ Len(z) = Len(l) - k /\ \A i \in 1 .. Len(l) - k : z[i] = l[k + i]
  <2>1. \A i \in k + 1 .. Len(l) : l[i] \in Event
    BY <1>0
  <2>2. /\ z \in Seq(Event) /\ Len(z) = IF k + 1 <= Len(l) THEN Len(l) - (k + 1) + 1 ELSE 0
        /\ \A i \in 1 .. Len(l) - (k + 1) + 1 : z[i] = l[k + 1 + i - 1]
    BY <1>0, <2>1, SubSeqProperties
  <2>3. \A i \in 1 .. Len(l) - k : i \in 1 .. Len(l) - (k + 1) + 1 /\ k + 1 + i - 1 = k + i
    BY <1>0
  <2>4. Len(z) = Len(l) - k
    BY <1>0, <2>2
  <2> HIDE DEF z
  <2> QED
    BY <2>2, <2>3, <2>4
<1>4. InsertPair(l, k, e, f) = (a \o b) \o z
  BY DEF InsertPair
<1> HIDE DEF a, b, z
<1>5. /\ a \o b \in Seq(Event) /\ Len(a \o b) = k + 2
      /\ \A i \in 1 .. k + 2 : (a \o b)[i] = IF i <= k THEN a[i] ELSE b[i - k]
  <2>1. /\ a \o b \in Seq(Event) /\ Len(a \o b) = Len(a) + Len(b)
        /\ \A i \in 1 .. Len(a) + Len(b) : (a \o b)[i] = IF i <= Len(a) THEN a[i] ELSE b[i - Len(a)]
    <3>1. a \in Seq(Event) /\ b \in Seq(Event)
      BY <1>1, <1>2
    <3> QED
      BY <3>1, ConcatProperties
  <2> QED
    BY <1>1, <1>2, <2>1
<1> DEFINE h == a \o b
<1> HIDE DEF h
<1>6. /\ h \in Seq(Event) /\ Len(h) = k + 2
      /\ h[k + 1] = e /\ h[k + 2] = f
      /\ \A i \in 1 .. k : h[i] = l[i]
  <2>1. \A i \in 1 .. k + 2 : h[i] = IF i <= k THEN a[i] ELSE b[i - k]
    BY <1>5 DEF h
  <2>2. \A i \in 1 .. k : h[i] = l[i]
    BY <1>0, <1>1, <2>1
  <2>3. h[k + 1] = b[1] /\ h[k + 2] = b[2]
    <3>1. (k + 1) - k = 1 /\ (k + 2) - k = 2 /\ k + 1 \in 1 .. k + 2 /\ k + 2 \in 1 .. k + 2
      BY <1>0
    <3>2. ~(k + 1 <= k) /\ ~(k + 2 <= k)
      BY <1>0
    <3> QED
      BY <2>1, <3>1, <3>2
  <2> QED
    BY <1>2, <1>5, <2>2, <2>3 DEF h
<1>7. /\ h \o z \in Seq(Event) /\ Len(h \o z) = Len(l) + 2
      /\ \A i \in 1 .. Len(l) + 2 : (h \o z)[i] = IF i <= k + 2 THEN h[i] ELSE z[i - (k + 2)]
  <2>1. /\ h \o z \in Seq(Event) /\ Len(h \o z) = Len(h) + Len(z)
        /\ \A i \in 1 .. Len(h) + Len(z) : (h \o z)[i] = IF i <= Len(h) THEN h[i] ELSE z[i - Len(h)]
    <3>1. h \in Seq(Event) /\ z \in Seq(Event)
      BY <1>3, <1>6
    <3> QED
      BY <3>1, ConcatProperties
  <2>2. Len(h) + Len(z) = Len(l) + 2 /\ Len(h) = k + 2
    BY <1>0, <1>3, <1>6
  <2> QED
    BY <2>1, <2>2
<1> DEFINE m == h \o z
<1> HIDE DEF m
<1>8. \A i \in 1 .. k + 2 : m[i] = h[i]
  BY <1>0, <1>7 DEF m
<1>9. \A i \in k + 1 .. Len(l) : m[i + 2] = l[i]
  <2> SUFFICES ASSUME NEW i \in k + 1 .. Len(l) PROVE m[i + 2] = l[i]
    OBVIOUS
  <2>1. /\ i + 2 \in 1 .. Len(l) + 2 /\ ~(i + 2 <= k + 2) /\ (i + 2) - (k + 2) = i - k
        /\ i - k \in 1 .. Len(l) - k /\ k + (i - k) = i
    BY <1>0
  <2> QED
    BY <1>3, <1>7, <2>1 DEF m
<1>10. InsertPair(l, k, e, f) = m
  BY <1>4 DEF m, h
<1>11. m[k + 1] = e /\ m[k + 2] = f /\ \A i \in 1 .. k : m[i] = l[i]
  <2>1. k + 1 \in 1 .. k + 2 /\ k + 2 \in 1 .. k + 2 /\ \A i \in 1 .. k : i \in 1 .. k + 2
    BY <1>0
  <2> QED
    BY <1>6, <1>8, <2>1
<1>12. m \in Seq(Event) /\ Len(m) = Len(l) + 2
  BY <1>7 DEF m
<1>13. Spliced(l, m, k)
  BY <1>9, <1>11, <1>12 DEF Spliced
<1> QED
  BY <1>10, <1>11, <1>12, <1>13

(* m is l without the events at k and k + 1.                               *)
Cut(l, m, k) ==
  /\ Len(m) = Len(l) - 2
  /\ \A i \in 1 .. k - 1 : m[i] = l[i]
  /\ \A i \in k .. Len(l) - 2 : m[i] = l[i + 2]

LEMMA RemovePairIs ==
  ASSUME NEW l \in Seq(Event), NEW k \in 1 .. Len(l) - 1
  PROVE  RemovePair(l, k) \in Seq(Event) /\ Cut(l, RemovePair(l, k), k)
<1> DEFINE a == SubSeq(l, 1, k - 1)
           z == SubSeq(l, k + 2, Len(l))
<1>0. /\ Len(l) \in Nat /\ k \in Nat /\ k >= 1 /\ k < Len(l)
      /\ \A i \in 1 .. Len(l) : l[i] \in Event
  OBVIOUS
<1>1. a \in Seq(Event) /\ Len(a) = k - 1 /\ \A i \in 1 .. k - 1 : a[i] = l[i]
  <2>1. \A i \in 1 .. k - 1 : l[i] \in Event
    BY <1>0
  <2>2. /\ a \in Seq(Event) /\ Len(a) = IF 1 <= k - 1 THEN k - 1 - 1 + 1 ELSE 0
        /\ \A i \in 1 .. k - 1 - 1 + 1 : a[i] = l[1 + i - 1]
    BY <1>0, <2>1, SubSeqProperties
  <2>3. \A i \in 1 .. k - 1 : i \in 1 .. k - 1 - 1 + 1 /\ 1 + i - 1 = i
    BY <1>0
  <2>4. Len(a) = k - 1
    BY <1>0, <2>2
  <2> HIDE DEF a
  <2> QED
    BY <2>2, <2>3, <2>4
<1>2. /\ z \in Seq(Event) /\ Len(z) = Len(l) - (k + 1)
      /\ \A i \in 1 .. Len(l) - (k + 1) : z[i] = l[k + 1 + i]
  <2>1. \A i \in k + 2 .. Len(l) : l[i] \in Event
    BY <1>0
  <2>2. /\ z \in Seq(Event) /\ Len(z) = IF k + 2 <= Len(l) THEN Len(l) - (k + 2) + 1 ELSE 0
        /\ \A i \in 1 .. Len(l) - (k + 2) + 1 : z[i] = l[k + 2 + i - 1]
    BY <1>0, <2>1, SubSeqProperties
  <2>3. \A i \in 1 .. Len(l) - (k + 1) : i \in 1 .. Len(l) - (k + 2) + 1 /\ k + 2 + i - 1 = k + 1 + i
    BY <1>0
  <2>4. Len(z) = Len(l) - (k + 1)
    BY <1>0, <2>2
  <2> HIDE DEF z
  <2> QED
    BY <2>2, <2>3, <2>4
<1> HIDE DEF a, z
<1>3. /\ a \o z \in Seq(Event) /\ Len(a \o z) = Len(l) - 2
      /\ \A i \in 1 .. Len(l) - 2 : (a \o z)[i] = IF i <= k - 1 THEN a[i] ELSE z[i - (k - 1)]
  <2>1. /\ a \o z \in Seq(Event) /\ Len(a \o z) = Len(a) + Len(z)
        /\ \A i \in 1 .. Len(a) + Len(z) : (a \o z)[i] = IF i <= Len(a) THEN a[i] ELSE z[i - Len(a)]
    <3>1. a \in Seq(Event) /\ z \in Seq(Event)
      BY <1>1, <1>2
    <3> QED
      BY <3>1, ConcatProperties
  <2>2. Len(a) + Len(z) = Len(l) - 2 /\ Len(a) = k - 1
    BY <1>0, <1>1, <1>2
  <2> QED
    BY <2>1, <2>2
<1> DEFINE m == a \o z
<1> HIDE DEF m
<1>4. \A i \in 1 .. k - 1 : m[i] = l[i]
  <2>1. \A i \in 1 .. k - 1 : i \in 1 .. Len(l) - 2 /\ i <= k - 1
    BY <1>0
  <2> QED
    BY <1>1, <1>3, <2>1 DEF m
<1>5. \A i \in k .. Len(l) - 2 : m[i] = l[i + 2]
  <2> SUFFICES ASSUME NEW i \in k .. Len(l) - 2 PROVE m[i] = l[i + 2]
    OBVIOUS
  <2>1. /\ i \in 1 .. Len(l) - 2 /\ ~(i <= k - 1) /\ i - (k - 1) \in 1 .. Len(l) - (k + 1)
        /\ k + 1 + (i - (k - 1)) = i + 2
    BY <1>0
  <2> QED
    BY <1>2, <1>3, <2>1 DEF m
<1>6. RemovePair(l, k) = m
  BY DEF RemovePair, m, a, z
<1>7. m \in Seq(Event) /\ Len(m) = Len(l) - 2
  BY <1>3 DEF m
<1>8. Cut(l, m, k)
  BY <1>4, <1>5, <1>7 DEF Cut
<1> QED
  BY <1>6, <1>7, <1>8

(* m is l with another velocity at k and the event at k + 1 moved.         *)
Edited(l, m, k) ==
  /\ Len(m) = Len(l)
  /\ \A i \in DOMAIN l : m[i].on = l[i].on
  /\ \A i \in DOMAIN l : i # k + 1 => m[i].col = l[i].col
  /\ \A i \in DOMAIN l : i # k /\ i # k + 1 => m[i] = l[i]

Updated(l, m, k, d, v) ==
  /\ Edited(l, m, k)
  /\ m[k].vel = v /\ m[k + 1].col = l[k].col + d

LEMMA UpdatePairIs ==
  ASSUME NEW l \in Seq(Event), NEW k \in 1 .. Len(l) - 1, NEW d \in Nat,
         NEW v \in Velocities
  PROVE  /\ UpdatePair(l, k, d, v) \in Seq(Event)
         /\ Updated(l, UpdatePair(l, k, d, v), k, d, v)
<1> DEFINE e == [on |-> l[k].on, col |-> l[k].col, vel |-> v]
           f == [on |-> l[k + 1].on, col |-> l[k].col + d, vel |-> l[k + 1].vel]
<1>0. /\ Len(l) \in Nat /\ k \in 1 .. Len(l) /\ k + 1 \in 1 .. Len(l) /\ k # k + 1
      /\ l \in [1 .. Len(l) -> Event]
  OBVIOUS
<1>1. l[k] \in Event /\ l[k + 1] \in Event
  BY <1>0
<1>2. e \in Event /\ f \in Event
  <2>1. l[k].col + d \in Nat
    BY <1>1 DEF Event
  <2> QED
    BY <1>1, <2>1 DEF Event
<1>3. [l[k] EXCEPT !.vel = v] = e
  BY <1>1 DEF Event
<1>4. [l[k + 1] EXCEPT !.col = l[k].col + d] = f
  BY <1>1, SMTT(30) DEF Event
<1> DEFINE m1 == [l EXCEPT ![k].vel = v]
<1>5. m1 = [l EXCEPT ![k] = e]
  BY <1>3
<1> HIDE DEF e
<1>6. /\ m1 \in [1 .. Len(l) -> Event] /\ m1[k] = e
      /\ \A i \in 1 .. Len(l) : i # k => m1[i] = l[i]
  BY <1>0, <1>2, <1>5
<1> HIDE DEF m1
<1>7. UpdatePair(l, k, d, v) = [m1 EXCEPT ![k + 1].col = l[k].col + d]
  BY DEF UpdatePair, m1
<1>8. m1[k + 1] = l[k + 1]
  BY <1>0, <1>6
<1>9. [m1 EXCEPT ![k + 1].col = l[k].col + d] = [m1 EXCEPT ![k + 1] = f]
  BY <1>4, <1>8
<1> HIDE DEF f
<1> DEFINE m2 == [m1 EXCEPT ![k + 1] = f]
<1>10. /\ m2 \in [1 .. Len(l) -> Event] /\ m2[k + 1] = f /\ m2[k] = e
       /\ \A i \in 1 .. Len(l) : i # k /\ i # k + 1 => m2[i] = l[i]
  BY <1>0, <1>2, <1>6
<1> HIDE DEF m2
<1>11. m2 \in Seq(Event) /\ Len(m2) = Len(l)
  <2>1. m2 \in Seq(Event)
    BY <1>0, <1>10
  <2>2. DOMAIN m2 = 1 .. Len(l) /\ DOMAIN m2 = 1 .. Len(m2) /\ Len(m2) \in Nat
    BY <1>10, <2>1
  <2> QED
    BY <1>0, <2>1, <2>2
<1>12. UpdatePair(l, k, d, v) = m2
  BY <1>7, <1>9 DEF m2
<1>13. e.on = l[k].on /\ e.col = l[k].col /\ e.vel = v /\ f.on = l[k + 1].on /\ f.col = l[k].col + d
  BY DEF e, f
<1>14. Edited(l, m2, k)
  <2>1. DOMAIN l = 1 .. Len(l)
    BY <1>0
  <2> QED
    BY <1>10, <1>11, <1>13, <2>1 DEF Edited
<1> QED
  BY <1>10, <1>11, <1>12, <1>13, <1>14 DEF Updated

-----------------------------------------------------------------------------
(* Rows of notes that keep apart: each lasts at least one step and ends    *)
(* before any later event of the row.                                      *)

NotesApart(l) ==
  \A i, j \in DOMAIN l : i % 2 = 1 /\ i < j =>
    l[i].col < l[i + 1].col /\ l[i + 1].col <= l[j].col

Tidy(l) == Alternates(l) /\ NotesApart(l)

LEMMA PairOf ==
  ASSUME NEW l \in Seq(Event), Alternates(l), NEW i \in DOMAIN l, i % 2 = 1
  PROVE  /\ i \in 1 .. Len(l) - 1 /\ i + 1 \in DOMAIN l /\ (i + 1) % 2 = 0
         /\ l[i].on /\ ~l[i + 1].on
<1>1. DOMAIN l = 1 .. Len(l) /\ Len(l) \in Nat /\ Len(l) % 2 = 0 /\ i \in Int
  BY EventsOfRow DEF Alternates
<1>2. i # Len(l) /\ (i + 1) % 2 = 0
  BY <1>1, Parity
<1>3. i + 1 \in DOMAIN l /\ i \in 1 .. Len(l) - 1
  BY <1>1, <1>2
<1> QED
  BY <1>2, <1>3 DEF Alternates

LEMMA TidyIsLoose ==
  ASSUME NEW l \in Seq(Event), Tidy(l)
  PROVE  Loose(l)
<1>1. ASSUME NEW i \in DOMAIN l, NEW j \in DOMAIN l, i % 2 = 1, i <= j
      PROVE  l[i].col <= l[j].col
  <2>1. CASE i = j
    BY <2>1, EventsOfRow
  <2>2. CASE i # j
    <3>1. i < j
      BY <1>1, <2>2, EventsOfRow
    <3>2. l[i].col < l[i + 1].col /\ l[i + 1].col <= l[j].col
      BY <1>1, <3>1 DEF Tidy, NotesApart
    <3>3. i + 1 \in DOMAIN l
      BY <1>1, PairOf DEF Tidy
    <3>4. l[i].col \in Nat /\ l[i + 1].col \in Nat /\ l[j].col \in Nat
      BY <3>3, EventsOfRow
    <3> QED
      BY <3>2, <3>4
  <2> QED
    BY <2>1, <2>2
<1> QED
  BY <1>1 DEF Tidy, Loose

LEMMA TidyIsWellFormed ==
  ASSUME NEW l \in Seq(Event), Tidy(l)
  PROVE  WellFormed(l)
<1>1. ASSUME NEW i \in 1 .. Len(l) - 1
      PROVE  IF l[i].on THEN l[i].col < l[i + 1].col ELSE l[i].col <= l[i + 1].col
  <2>1. i \in DOMAIN l /\ i + 1 \in DOMAIN l /\ i < i + 1 /\ i \in Int
    BY EventsOfRow
  <2>2. CASE i % 2 = 1
    <3>1. l[i].on
      BY <2>1, <2>2 DEF Tidy, Alternates
    <3>2. l[i].col < l[i + 1].col
      BY <2>1, <2>2 DEF Tidy, NotesApart
    <3> QED
      BY <3>1, <3>2
  <2>3. CASE i % 2 # 1
    <3>1. ~l[i].on
      BY <2>1, <2>3 DEF Tidy, Alternates
    <3>2. (i - 1) % 2 = 1
      BY <2>1, <2>3, Parity
    <3>3. i # 1
      <4>1. 1 % 2 = 1
        OBVIOUS
      <4> QED
        BY <2>3, <4>1
    <3>4. i - 1 \in DOMAIN l /\ i - 1 < i + 1 /\ (i - 1) + 1 = i
      BY <2>1, <3>3, EventsOfRow
    <3>5. l[i].col <= l[i + 1].col
      BY <2>1, <3>2, <3>4 DEF Tidy, NotesApart
    <3> QED
      BY <3>1, <3>5
  <2> QED
    BY <2>2, <2>3
<1> QED
  BY <1>1 DEF Tidy, WellFormed, Sorted

-----------------------------------------------------------------------------
LEMMA SplicedZones ==
  ASSUME NEW l \in Seq(Event), NEW m \in Seq(Event), NEW k \in 0 .. Len(l), Spliced(l, m, k),
         NEW i \in DOMAIN m
  PROVE  \/ i \in 1 .. k /\ i \in DOMAIN l /\ m[i] = l[i]
         \/ i = k + 1
         \/ i = k + 2
         \/ i > k + 2 /\ i - 2 \in k + 1 .. Len(l) /\ i - 2 \in DOMAIN l /\ m[i] = l[i - 2]
<1>1. /\ Len(l) \in Nat /\ k \in Nat /\ k <= Len(l) /\ i \in 1 .. Len(l) + 2
      /\ DOMAIN l = 1 .. Len(l)
  BY EventsOfRow DEF Spliced
<1>2. CASE i <= k
  BY <1>1, <1>2 DEF Spliced
<1>3. CASE i > k + 2
  <2>1. i - 2 \in k + 1 .. Len(l) /\ (i - 2) + 2 = i
    BY <1>1, <1>3
  <2>2. m[(i - 2) + 2] = l[i - 2]
    BY <2>1 DEF Spliced
  <2> QED
    BY <1>1, <1>3, <2>1, <2>2
<1> QED
  BY <1>1, <1>2, <1>3

LEMMA SplicedSides ==
  ASSUME NEW l \in Seq(Event), NEW m \in Seq(Event), NEW k \in 0 .. Len(l), Spliced(l, m, k),
         NEW i \in DOMAIN m
  PROVE  /\ i \in Int
         /\ i <= k => i \in DOMAIN l /\ m[i] = l[i]
         /\ i > k + 2 => i - 2 \in DOMAIN l /\ i - 2 >= k + 1 /\ m[i] = l[i - 2]
<1>1. \/ i \in 1 .. k /\ i \in DOMAIN l /\ m[i] = l[i]
      \/ i = k + 1
      \/ i = k + 2
      \/ i > k + 2 /\ i - 2 \in k + 1 .. Len(l) /\ i - 2 \in DOMAIN l /\ m[i] = l[i - 2]
  BY SplicedZones
<1>2. i \in Int /\ k \in Int /\ Len(l) \in Nat
  BY EventsOfRow
<1> QED
  BY <1>1, <1>2

LEMMA SplicedAlternates ==
  ASSUME NEW l \in Seq(Event), NEW m \in Seq(Event), NEW k \in 0 .. Len(l), Spliced(l, m, k),
         Alternates(l), k % 2 = 0
  PROVE  Alternates(m)
<1>0. k \in Int /\ Len(l) \in Int /\ (k + 1) % 2 = 1 /\ (k + 2) % 2 = 0
  <2>1. k \in Int /\ Len(l) \in Int
    BY EventsOfRow
  <2> QED
    BY <2>1, Parity
<1>1. Len(m) % 2 = 0
  BY <1>0, Parity DEF Alternates, Spliced
<1>2. ASSUME NEW i \in DOMAIN m PROVE m[i].on <=> i % 2 = 1
  <2>1. CASE i \in 1 .. k /\ i \in DOMAIN l /\ m[i] = l[i]
    BY <2>1 DEF Alternates
  <2>2. CASE i = k + 1
    BY <1>0, <2>2 DEF Spliced
  <2>3. CASE i = k + 2
    BY <1>0, <2>3 DEF Spliced
  <2>4. CASE i > k + 2 /\ i - 2 \in k + 1 .. Len(l) /\ i - 2 \in DOMAIN l /\ m[i] = l[i - 2]
    <3>1. i \in Int
      BY EventsOfRow
    <3>2. (i - 2) % 2 = i % 2
      BY <3>1, Parity
    <3>3. m[i].on <=> (i - 2) % 2 = 1
      BY <2>4 DEF Alternates
    <3> QED
      BY <3>2, <3>3
  <2> QED
    BY <2>1, <2>2, <2>3, <2>4, SplicedZones
<1> QED
  BY <1>1, <1>2 DEF Alternates

(* The place for a new note at column c: between two pairs, after every    *)
(* event at or before c.                                                   *)
OnBeat(l, k, c) ==
  /\ k \in 0 .. Len(l) /\ k % 2 = 0
  /\ \A i \in 1 .. k : l[i].col <= c
  /\ \A i \in k + 1 .. Len(l) : l[i].col > c

LEMMA LooseSpliced ==
  ASSUME NEW l \in Seq(Event), NEW m \in Seq(Event), NEW k, NEW c \in Nat,
         Loose(l), OnBeat(l, k, c), Spliced(l, m, k), m[k + 1].col = c, m[k + 2].col >= c
  PROVE  Loose(m)
<1>0. k \in 0 .. Len(l) /\ k \in Int /\ k % 2 = 0 /\ Len(l) \in Nat
  BY EventsOfRow DEF OnBeat
<1>z. ASSUME NEW i \in DOMAIN m
      PROVE  /\ i \in Int
             /\ i <= k => i \in DOMAIN l /\ m[i] = l[i]
             /\ i > k + 2 => i - 2 \in DOMAIN l /\ i - 2 >= k + 1 /\ m[i] = l[i - 2]
  <2>1. k \in 0 .. Len(l)
    BY <1>0
  <2> QED
    BY <2>1, SplicedSides
<1>1. Alternates(m)
  BY <1>0, SplicedAlternates DEF Loose
<1>2. ASSUME NEW i \in DOMAIN m
      PROVE  /\ i <= k + 1 => m[i].col <= c
             /\ i >= k + 1 => m[i].col >= c
             /\ m[i].col \in Nat /\ i \in Int
  <2>0. m[i].col \in Nat /\ i \in Int
    BY EventsOfRow
  <2>1. CASE i \in 1 .. k /\ i \in DOMAIN l /\ m[i] = l[i]
    BY <1>0, <2>0, <2>1 DEF OnBeat
  <2>2. CASE i = k + 1
    BY <1>0, <2>0, <2>2
  <2>3. CASE i = k + 2
    BY <1>0, <2>0, <2>3
  <2>4. CASE i > k + 2 /\ i - 2 \in k + 1 .. Len(l) /\ i - 2 \in DOMAIN l /\ m[i] = l[i - 2]
    BY <1>0, <2>0, <2>4, SMTT(30) DEF OnBeat
  <2>5. k \in 0 .. Len(l)
    BY <1>0
  <2>6. \/ i \in 1 .. k /\ i \in DOMAIN l /\ m[i] = l[i]
        \/ i = k + 1
        \/ i = k + 2
        \/ i > k + 2 /\ i - 2 \in k + 1 .. Len(l) /\ i - 2 \in DOMAIN l /\ m[i] = l[i - 2]
    BY <2>5, SplicedZones
  <2> QED
    BY <2>1, <2>2, <2>3, <2>4, <2>6
<1>3. ASSUME NEW i \in DOMAIN m, NEW j \in DOMAIN m, i % 2 = 1, i <= j
      PROVE  m[i].col <= m[j].col
  <2>0. i \in Int /\ j \in Int /\ m[i].col \in Nat /\ m[j].col \in Nat
    BY <1>2
  <2>1. CASE j <= k
    <3>1. i \in DOMAIN l /\ j \in DOMAIN l /\ m[i] = l[i] /\ m[j] = l[j]
      <4>1. i <= k /\ j <= k
        BY <1>0, <1>3, <2>0, <2>1, SMTT(30)
      <4> QED
        BY <1>z, <4>1
    <3> QED
      BY <1>3, <3>1 DEF Loose
  <2>2. CASE i <= k + 1 /\ j >= k + 1
    BY <1>0, <1>2, <2>0, <2>2
  <2>3. CASE i > k + 2
    <3>1. /\ i - 2 \in DOMAIN l /\ j - 2 \in DOMAIN l /\ m[i] = l[i - 2] /\ m[j] = l[j - 2]
          /\ i - 2 <= j - 2
      <4>1. i \in Int /\ j \in Int /\ k \in Int /\ i <= j /\ i > k + 2
        BY <1>0, <1>3, <2>0, <2>3
      <4>2. j > k + 2 /\ i - 2 <= j - 2
        BY ONLY <4>1
      <4> QED
        BY <1>z, <4>1, <4>2
    <3>2. (i - 2) % 2 = 1
      BY <1>3, <2>0, Parity
    <3> QED
      BY <3>1, <3>2 DEF Loose
  <2>4. i # k + 2
    <3>1. (k + 2) % 2 = 0
      BY <1>0, Parity
    <3> QED
      BY <1>3, <3>1
  <2> QED
    BY <1>0, <1>3, <2>0, <2>1, <2>2, <2>3, <2>4, SMTT(30)
<1> QED
  BY <1>1, <1>3 DEF Loose

LEMMA TidySpliced ==
  ASSUME NEW l \in Seq(Event), NEW m \in Seq(Event), NEW k, NEW c \in Nat,
         Tidy(l), OnBeat(l, k, c), Spliced(l, m, k),
         m[k + 1].col = c, m[k + 2].col > c, \A i \in k + 1 .. Len(l) : m[k + 2].col <= l[i].col
  PROVE  Tidy(m)
<1>0. k \in 0 .. Len(l) /\ k \in Int /\ k % 2 = 0 /\ Len(l) \in Nat
  BY EventsOfRow DEF OnBeat
<1>z. ASSUME NEW i \in DOMAIN m
      PROVE  /\ i \in Int
             /\ i <= k => i \in DOMAIN l /\ m[i] = l[i]
             /\ i > k + 2 => i - 2 \in DOMAIN l /\ i - 2 >= k + 1 /\ m[i] = l[i - 2]
  <2>1. k \in 0 .. Len(l)
    BY <1>0
  <2> QED
    BY <2>1, SplicedSides
<1>1. Alternates(m)
  BY <1>0, SplicedAlternates DEF Tidy
<1>2. /\ k + 1 \in DOMAIN m /\ k + 2 \in DOMAIN m
      /\ m[k + 1].col \in Nat /\ m[k + 2].col \in Nat
  <2>1. DOMAIN m = 1 .. Len(l) + 2
    BY EventsOfRow DEF Spliced
  <2>2. k + 1 \in DOMAIN m /\ k + 2 \in DOMAIN m
    BY <1>0, <2>1
  <2> QED
    BY <2>2, EventsOfRow
<1>3. ASSUME NEW i \in DOMAIN m, NEW j \in DOMAIN m, i % 2 = 1, i < j
      PROVE  m[i].col < m[i + 1].col /\ m[i + 1].col <= m[j].col
  <2>0. i \in Int /\ j \in Int /\ i + 1 \in DOMAIN m /\ i >= 1
    BY <1>1, <1>3, PairOf, EventsOfRow
  <2>1. i # k + 2 /\ i # k
    BY <1>0, <1>3, Parity
  <2>2. CASE i < k
    <3>1. /\ i \in DOMAIN l /\ i + 1 \in DOMAIN l /\ i + 1 \in 1 .. k
          /\ m[i] = l[i] /\ m[i + 1] = l[i + 1]
      <4>1. k \in Int /\ i \in Int /\ i >= 1
        BY <1>0, <2>0
      <4>2. i <= k /\ i + 1 <= k /\ i + 1 \in 1 .. k
        BY <2>2, <4>1
      <4> QED
        BY <1>z, <2>0, <4>2
    <3>2. l[i].col < l[i + 1].col
      BY <1>3, <3>1, <2>0, SMTT(30) DEF Tidy, NotesApart
    <3>3. CASE j <= k
      <4>1. j \in DOMAIN l /\ m[j] = l[j]
        BY <1>z, <2>0, <3>3
      <4> QED
        BY <1>3, <3>1, <3>2, <4>1 DEF Tidy, NotesApart
    <3>4. CASE j = k + 1 \/ j = k + 2
      <4>1. l[i + 1].col <= c /\ l[i + 1].col \in Nat
        BY <3>1, EventsOfRow DEF OnBeat
      <4> QED
        BY <1>2, <3>1, <3>2, <3>4, <4>1
    <3>5. CASE j > k + 2
      <4>1. j - 2 \in DOMAIN l /\ m[j] = l[j - 2] /\ i < j - 2
        <5>1. i < j - 2
          BY <1>0, <2>0, <2>2, <3>5, SMTT(30)
        <5> QED
          BY <1>z, <3>5, <5>1
      <4> QED
        BY <1>3, <3>1, <3>2, <4>1 DEF Tidy, NotesApart
    <3>6. j <= k \/ j = k + 1 \/ j = k + 2 \/ j > k + 2
      <4>1. j \in Int /\ k \in Int
        BY <1>0, <2>0
      <4> QED
        BY <4>1
    <3> QED
      BY <3>3, <3>4, <3>5, <3>6
  <2>3. CASE i = k + 1
    <3>1. (k + 1) + 1 = k + 2
      BY <1>0
    <3>2. CASE j = k + 2
      BY <1>2, <2>3, <3>1, <3>2
    <3>3. CASE j > k + 2
      <4>1. j - 2 \in k + 1 .. Len(l) /\ m[j] = l[j - 2]
        <5>1. j - 2 \in 1 .. Len(l) /\ j - 2 >= k + 1 /\ m[j] = l[j - 2]
          BY <1>z, <2>0, <3>3, EventsOfRow
        <5>2. k \in Int /\ Len(l) \in Int
          BY <1>0
        <5> QED
          BY <5>1, <5>2
      <4> QED
        BY <1>2, <2>3, <3>1, <4>1
    <3> QED
      BY <1>0, <1>3, <2>0, <2>3, <3>2, <3>3
  <2>4. CASE i > k + 2
    <3>1. /\ i - 2 \in DOMAIN l /\ j - 2 \in DOMAIN l /\ (i - 2) + 1 = (i + 1) - 2
          /\ i - 2 < j - 2
          /\ m[i] = l[i - 2] /\ m[i + 1] = l[(i + 1) - 2] /\ m[j] = l[j - 2]
      <4>0. i \in Int /\ j \in Int /\ k \in Int /\ i < j /\ i > k + 2
        BY <1>0, <1>3, <2>0, <2>4
      <4>1. (i - 2) + 1 = (i + 1) - 2 /\ i - 2 < j - 2 /\ i + 1 > k + 2 /\ j > k + 2
        BY ONLY <4>0
      <4> QED
        BY <1>z, <2>0, <2>4, <4>1
    <3>2. (i - 2) % 2 = 1
      BY <1>3, <2>0, Parity
    <3> QED
      BY <3>1, <3>2 DEF Tidy, NotesApart
  <2> QED
    BY <1>0, <2>0, <2>1, <2>2, <2>3, <2>4
<1> QED
  BY <1>1, <1>3 DEF Tidy, NotesApart

LEMMA TidyRemoved ==
  ASSUME NEW l \in Seq(Event), NEW m \in Seq(Event), NEW k \in 1 .. Len(l) - 1,
         Tidy(l), k % 2 = 1, Cut(l, m, k)
  PROVE  Tidy(m)
<1>0. /\ Len(l) \in Nat /\ k \in Int /\ k >= 1 /\ k < Len(l)
      /\ DOMAIN l = 1 .. Len(l) /\ DOMAIN m = 1 .. Len(l) - 2
  BY EventsOfRow DEF Cut
<1>z. ASSUME NEW i \in DOMAIN m
      PROVE  /\ i \in Int
             /\ i < k => i \in DOMAIN l /\ m[i] = l[i]
             /\ i >= k => i + 2 \in DOMAIN l /\ m[i] = l[i + 2]
  BY <1>0 DEF Cut
<1>1. Alternates(m)
  <2>1. Len(m) % 2 = 0
    BY <1>0, Parity DEF Tidy, Alternates, Cut
  <2>2. ASSUME NEW i \in DOMAIN m PROVE m[i].on <=> i % 2 = 1
    <3>1. CASE i < k
      BY <1>z, <3>1 DEF Tidy, Alternates
    <3>2. CASE i >= k
      <4>1. (i + 2) % 2 = i % 2
        BY <1>z, Parity
      <4>2. m[i].on <=> (i + 2) % 2 = 1
        BY <1>z, <3>2 DEF Tidy, Alternates
      <4> QED
        BY <4>1, <4>2
    <3> QED
      BY <1>0, <1>z, <3>1, <3>2
  <2> QED
    BY <2>1, <2>2 DEF Alternates
<1>2. ASSUME NEW i \in DOMAIN m, NEW j \in DOMAIN m, i % 2 = 1, i < j
      PROVE  m[i].col < m[i + 1].col /\ m[i + 1].col <= m[j].col
  <2>0. i \in Int /\ j \in Int /\ i + 1 \in DOMAIN m
    BY <1>1, <1>2, <1>z, PairOf
  <2>1. CASE i < k
    <3>1. i + 1 < k
      <4>1. i + 1 # k
        <5>1. (i + 1) % 2 = 0
          BY <1>2, <2>0, Parity
        <5> QED
          BY <5>1
      <4> QED
        BY <1>0, <2>0, <2>1, <4>1
    <3>2. m[i] = l[i] /\ m[i + 1] = l[i + 1] /\ i \in DOMAIN l
      BY <1>z, <2>0, <2>1, <3>1
    <3>3. PICK n \in DOMAIN l : m[j] = l[n] /\ i < n
      <4>1. CASE j < k
        BY <1>2, <1>z, <4>1
      <4>2. CASE j >= k
        <5>1. i < j + 2
          BY <1>2, <2>0
        <5> QED
          BY <1>z, <4>2, <5>1
      <4> QED
        BY <1>0, <2>0, <4>1, <4>2
    <3> QED
      BY <1>2, <3>2, <3>3 DEF Tidy, NotesApart
  <2>2. CASE i >= k
    <3>1. (i + 1) + 2 = (i + 2) + 1 /\ i + 1 >= k /\ j >= k /\ i + 2 < j + 2
      BY <1>0, <1>2, <2>0, <2>2
    <3>2. /\ m[i] = l[i + 2] /\ m[i + 1] = l[(i + 2) + 1] /\ m[j] = l[j + 2]
          /\ i + 2 \in DOMAIN l /\ j + 2 \in DOMAIN l
      BY <1>z, <2>0, <2>2, <3>1
    <3>3. (i + 2) % 2 = 1
      BY <1>2, <2>0, Parity
    <3> QED
      BY <3>1, <3>2, <3>3 DEF Tidy, NotesApart
  <2> QED
    BY <1>0, <2>0, <2>1, <2>2
<1> QED
  BY <1>1, <1>2 DEF Tidy, NotesApart

LEMMA LooseEdited ==
  ASSUME NEW l \in Seq(Event), NEW m \in Seq(Event), NEW k \in 1 .. Len(l) - 1,
         Loose(l), Edited(l, m, k), k % 2 = 1, m[k + 1].col >= l[k].col
  PROVE  Loose(m)
<1>0. /\ Len(l) \in Nat /\ k \in Int /\ k >= 1 /\ k < Len(l)
      /\ DOMAIN l = 1 .. Len(l) /\ DOMAIN m = DOMAIN l
  BY EventsOfRow DEF Edited
<1>1. Alternates(m)
  BY <1>0 DEF Loose, Alternates, Edited
<1>2. ASSUME NEW i \in DOMAIN m, NEW j \in DOMAIN m, i % 2 = 1, i <= j
      PROVE  m[i].col <= m[j].col
  <2>1. i # k + 1
    <3>1. (k + 1) % 2 = 0
      BY <1>0, Parity
    <3> QED
      BY <1>2, <3>1
  <2>2. m[i].col = l[i].col /\ i \in Int /\ j \in Int
    BY <1>0, <2>1 DEF Edited
  <2>3. CASE j # k + 1
    BY <1>0, <1>2, <2>2, <2>3 DEF Loose, Edited
  <2>4. CASE j = k + 1
    <3>1. i <= k /\ k \in DOMAIN l
      BY <1>0, <1>2, <2>1, <2>2, <2>4
    <3>2. l[i].col <= l[k].col
      BY <1>0, <1>2, <3>1 DEF Loose
    <3>3. l[i].col \in Nat /\ l[k].col \in Nat /\ m[j].col \in Nat
      BY <1>0, <3>1, EventsOfRow
    <3> QED
      BY <2>2, <2>4, <3>2, <3>3 DEF Edited
  <2> QED
    BY <2>3, <2>4
<1> QED
  BY <1>1, <1>2 DEF Loose

LEMMA TidyEdited ==
  ASSUME NEW l \in Seq(Event), NEW m \in Seq(Event), NEW k \in 1 .. Len(l) - 1,
         Tidy(l), Edited(l, m, k), k % 2 = 1, m[k + 1].col > l[k].col,
         k + 2 <= Len(l) => m[k + 1].col <= l[k + 2].col
  PROVE  Tidy(m)
<1>0. /\ Len(l) \in Nat /\ k \in Int /\ k >= 1 /\ k < Len(l) /\ k % 2 = 1 /\ (k + 2) % 2 = 1
      /\ DOMAIN l = 1 .. Len(l) /\ DOMAIN m = DOMAIN l
  <2>1. k \in Int /\ k >= 1 /\ Len(l) \in Nat /\ k < Len(l)
    OBVIOUS
  <2>2. k % 2 = 1 /\ (k + 2) % 2 = 1
    BY <2>1, Parity DEF Edited
  <2> QED
    BY <2>1, <2>2, EventsOfRow DEF Edited
<1>1. Alternates(m)
  BY <1>0 DEF Tidy, Alternates, Edited
<1>2. \A i \in DOMAIN l : i # k + 1 => m[i].col = l[i].col
  BY DEF Edited
<1>3. ASSUME NEW i \in DOMAIN m, NEW j \in DOMAIN m, i % 2 = 1, i < j
      PROVE  m[i].col < m[i + 1].col /\ m[i + 1].col <= m[j].col
  <2>0. i \in Int /\ j \in Int /\ i \in DOMAIN l /\ j \in DOMAIN l /\ i + 1 \in DOMAIN l
    BY <1>0, <1>1, <1>3, PairOf
  <2>1. i # k + 1
    <3>1. k \in Int /\ k % 2 = 1
      BY <1>0
    <3>2. (k + 1) % 2 = 0
      BY <3>1, Parity
    <3> QED
      BY <1>3, <3>2
  <2>2. l[i].col < l[i + 1].col /\ l[i + 1].col <= l[j].col
    BY <1>3, <2>0 DEF Tidy, NotesApart
  <2>3. /\ l[i].col \in Nat /\ l[i + 1].col \in Nat /\ l[j].col \in Nat
        /\ m[k + 1].col \in Nat /\ m[j].col \in Nat /\ l[k].col \in Nat
    <3>1. k + 1 \in DOMAIN m /\ k \in DOMAIN l
      BY <1>0
    <3> QED
      BY <1>3, <2>0, <3>1, EventsOfRow
  <2>4. m[i].col = l[i].col
    BY <1>2, <2>0, <2>1
  <2>5. CASE i = k
    <3>1. CASE j = k + 1
      BY <2>3, <2>4, <2>5, <3>1
    <3>2. CASE j # k + 1
      <4>1. k + 2 <= j /\ k + 2 \in DOMAIN l /\ m[j].col = l[j].col
        BY <1>0, <1>2, <1>3, <2>0, <2>5, <3>2
      <4>2. Loose(l)
        BY TidyIsLoose
      <4>3. l[k + 2].col <= l[j].col /\ l[k + 2].col \in Nat
        BY <1>0, <2>0, <4>1, <4>2, EventsOfRow DEF Loose
      <4>4. m[k + 1].col <= l[k + 2].col
        BY <1>0, <4>1
      <4>5. m[k + 1].col <= m[j].col
        BY <2>3, <4>1, <4>3, <4>4, SMTT(30)
      <4>6. m[i].col < m[k + 1].col
        BY <2>4, <2>5
      <4> QED
        BY <2>5, <4>5, <4>6
    <3> QED
      BY <3>1, <3>2
  <2>6. CASE i # k
    <3>1. m[i + 1].col = l[i + 1].col
      BY <1>0, <1>2, <2>0, <2>6
    <3>2. CASE j # k + 1
      BY <1>2, <2>0, <2>2, <2>4, <3>1, <3>2
    <3>3. CASE j = k + 1
      <4>1. i < k /\ k \in DOMAIN l
        BY <1>0, <1>3, <2>0, <2>6, <3>3, SMTT(30)
      <4>2. l[i + 1].col <= l[k].col
        BY <1>3, <2>0, <4>1 DEF Tidy, NotesApart
      <4> QED
        BY <2>2, <2>3, <2>4, <3>1, <3>3, <4>2, SMTT(30)
    <3> QED
      BY <3>2, <3>3
  <2> QED
    BY <2>5, <2>6
<1> QED
  BY <1>1, <1>3 DEF Tidy, NotesApart

-----------------------------------------------------------------------------
(* What the searches of the operations find.                               *)

LEMMA NoteAtIs ==
  ASSUME NEW l \in Seq(Event), NEW c \in Nat, Loose(l)
  PROVE  /\ ~QueryFault(l, c)
         /\ IF Reach(l, c) % 2 = 1
              THEN NoteAt(l, c) =
                     [found |-> TRUE, col |-> l[Reach(l, c)].col, vel |-> l[Reach(l, c)].vel,
                      dur   |-> (l[Reach(l, c) + 1].col - l[Reach(l, c)].col) % 256,
                      steps |-> IF Reach(l, c) + 2 <= Len(l)
                                  THEN (l[Reach(l, c) + 2].col - l[Reach(l, c)].col) % 256
                                  ELSE 0]
              ELSE NoteAt(l, c) =
                     [found |-> FALSE, col |-> 0, dur |-> 0, vel |-> 0,
                      steps |-> IF Reach(l, c) < Len(l)
                                  THEN (l[Reach(l, c) + 1].col - c) % 256
                                  ELSE 0]
<1> DEFINE p == Reach(l, c)
<1>1. /\ p \in 0 .. Len(l) /\ \A i \in 1 .. p : l[i].col <= c
      /\ p < Len(l) => l[p + 1].col > c
  BY ScanIsPrefix
<1>2. Final(Scanned(l, c)) = p
  BY DEF Reach
<1>3. ~QueryFault(l, c) /\ (NoteAt(l, c).found <=> p % 2 = 1)
  BY QueryIs
<1> HIDE DEF p
<1>4. /\ DOMAIN l = 1 .. Len(l) /\ Len(l) \in Nat /\ p \in Int
      /\ \A i \in DOMAIN l : l[i].on <=> i % 2 = 1
  BY <1>1, EventsOfRow DEF Loose, Alternates
<1>5. CASE p % 2 = 1
  <2>1. p # 0 /\ p \in DOMAIN l
    BY <1>1, <1>4, <1>5
  <2>2. /\ p \in 1 .. Len(l) - 1 /\ p + 1 \in DOMAIN l /\ (p + 1) % 2 = 0
        /\ l[p].on /\ ~l[p + 1].on
    BY <1>5, <2>1, PairOf DEF Loose
  <2>3. NoteOffOf(l, p) = p + 1 /\ p + 1 # 0
    BY <1>4, <2>2 DEF NoteOffOf
  <2> DEFINE S == {j \in p + 1 .. Len(l) : l[j].on}
  <2>4. CASE p + 2 <= Len(l)
    <3>1. p + 2 \in S
      BY <1>4, <1>5, <2>1, <2>4, Parity
    <3>2. \A j \in S : p + 2 <= j
      BY <1>4, <2>2
    <3>3. S \subseteq Nat
      BY <1>4, <2>1
    <3>4. NextNoteOn(l, p) = p + 2 /\ p + 2 # 0
      <4>1. First(S) = p + 2
        BY <3>1, <3>2, <3>3, FirstIs
      <4> QED
        BY <1>4, <2>2, <4>1 DEF NextNoteOn
    <3> QED
      BY <1>2, <1>3, <1>5, <2>1, <2>2, <2>3, <2>4, <3>4 DEF NoteAt, p
  <2>5. CASE ~(p + 2 <= Len(l))
    <3>1. S = {}
      BY <1>4, <2>2, <2>5
    <3>2. NextNoteOn(l, p) = 0
      BY <3>1 DEF NextNoteOn, First
    <3> QED
      BY <1>2, <1>3, <1>5, <2>1, <2>2, <2>3, <2>5, <3>2 DEF NoteAt, p
  <2> QED
    BY <2>4, <2>5
<1>6. CASE p % 2 # 1
  <2>1. ~(p # 0 /\ l[p].on)
    BY <1>1, <1>4, <1>6
  <2> DEFINE S == {i \in DOMAIN l : l[i].on /\ l[i].col > c}
  <2>2. StepsToNextNoteOn(l, c) = IF p < Len(l) THEN (l[p + 1].col - c) % 256 ELSE 0
    <3>1. CASE p < Len(l)
      <4>1. p % 2 = 0
        BY <1>4, <1>6, Parity
      <4>2. (p + 1) % 2 = 1
        BY <1>4, <4>1, Parity
      <4>3. p + 1 \in S
        BY <1>1, <1>4, <3>1, <4>2
      <4>4. \A j \in S : p + 1 <= j
        <5> SUFFICES ASSUME NEW j \in S, j <= p PROVE FALSE
          BY <1>4
        <5>1. j \in 1 .. p /\ l[j].col > c /\ l[j].col \in Nat
          BY <1>4, EventsOfRow
        <5>2. l[j].col <= c
          BY <1>1, <5>1
        <5> QED
          BY <5>1, <5>2
      <4>5. S \subseteq Nat
        BY <1>4
      <4>6. First(S) = p + 1 /\ p + 1 # 0
        <5>1. First(S) = p + 1
          BY <4>3, <4>4, <4>5, FirstIs
        <5> QED
          BY <1>1, <5>1
      <4> QED
        BY <3>1, <4>6 DEF StepsToNextNoteOn
    <3>2. CASE ~(p < Len(l))
      <4>1. S = {}
        <5> SUFFICES ASSUME NEW j \in S PROVE FALSE
          OBVIOUS
        <5>1. j \in 1 .. p /\ l[j].col > c /\ l[j].col \in Nat
          BY <1>1, <1>4, <3>2, EventsOfRow
        <5>2. l[j].col <= c
          BY <1>1, <5>1
        <5> QED
          BY <5>1, <5>2
      <4> QED
        BY <3>2, <4>1 DEF StepsToNextNoteOn, First
    <3> QED
      BY <3>1, <3>2
  <2>3. NoteAt(l, c) = [NoNote EXCEPT !.steps = StepsToNextNoteOn(l, c)]
    BY <1>2, <2>1 DEF NoteAt
  <2>4. NoteAt(l, c) = [found |-> FALSE, col |-> 0, dur |-> 0, vel |-> 0,
                        steps |-> StepsToNextNoteOn(l, c)]
    BY <2>3 DEF NoNote
  <2> QED
    BY <1>3, <1>6, <2>2, <2>4 DEF p
<1> QED
  BY <1>5, <1>6 DEF p

(* The note-on an edit finds at its column has its note-off behind it.     *)
LEMMA NoteOnAtIs ==
  ASSUME NEW l \in Seq(Event), NEW c \in Nat, Loose(l), NoteOnAt(l, c) # 0
  PROVE  /\ NoteOnAt(l, c) \in 1 .. Len(l) - 1 /\ NoteOnAt(l, c) % 2 = 1
         /\ l[NoteOnAt(l, c)].col = c
         /\ NoteOffOf(l, NoteOnAt(l, c)) = NoteOnAt(l, c) + 1
         /\ \A j \in DOMAIN l : l[j].on /\ l[j].col = c /\ (\A n \in 1 .. j - 1 : l[n].col <= c)
                                  => NoteOnAt(l, c) <= j
<1> DEFINE S == {i \in DOMAIN l : /\ l[i].on /\ l[i].col = c
                                  /\ \A j \in 1 .. i - 1 : l[j].col <= c}
<1> DEFINE i == NoteOnAt(l, c)
<1>1. S # {} /\ S \subseteq Nat
  BY EventsOfRow DEF NoteOnAt, First
<1>2. Min(S) \in S /\ \A x \in S : Min(S) <= x
  BY <1>1, LeastNatural
<1>3. i = Min(S)
  BY <1>1 DEF NoteOnAt, First
<1> HIDE DEF i
<1>4. i \in DOMAIN l /\ l[i].on /\ l[i].col = c
  BY <1>2, <1>3
<1>5. i % 2 = 1
  BY <1>4 DEF Loose, Alternates
<1>6. i \in 1 .. Len(l) - 1 /\ ~l[i + 1].on
  BY <1>4, <1>5, PairOf DEF Loose
<1>7. NoteOffOf(l, i) = i + 1
  BY <1>6, EventsOfRow DEF NoteOffOf
<1>8. \A j \in DOMAIN l : l[j].on /\ l[j].col = c /\ (\A n \in 1 .. j - 1 : l[n].col <= c) => i <= j
  BY <1>2, <1>3
<1> QED
  BY <1>4, <1>5, <1>6, <1>7, <1>8 DEF i

(* A note-on the query finds at the column asked for is found by an edit.  *)
LEMMA NoteOnFound ==
  ASSUME NEW l \in Seq(Event), NEW c \in Nat, Loose(l), NEW p \in DOMAIN l, p % 2 = 1,
         l[p].col = c, \A i \in 1 .. p : l[i].col <= c
  PROVE  NoteOnAt(l, c) # 0 /\ NoteOnAt(l, c) <= p
<1> DEFINE S == {i \in DOMAIN l : /\ l[i].on /\ l[i].col = c
                                  /\ \A j \in 1 .. i - 1 : l[j].col <= c}
<1>1. p \in S
  BY EventsOfRow DEF Loose, Alternates
<1>2. S \subseteq Nat \ {0}
  BY EventsOfRow
<1>3. Min(S) \in S /\ \A x \in S : Min(S) <= x
  BY <1>1, <1>2, LeastNatural
<1>4. NoteOnAt(l, c) = Min(S)
  BY <1>1 DEF NoteOnAt, First
<1> QED
  BY <1>1, <1>2, <1>3, <1>4

LEMMA TidyNoteOnAt ==
  ASSUME NEW l \in Seq(Event), NEW c \in Nat, Tidy(l), NEW p \in DOMAIN l, p % 2 = 1,
         l[p].col = c, \A i \in 1 .. p : l[i].col <= c
  PROVE  NoteOnAt(l, c) = p
<1> DEFINE i == NoteOnAt(l, c)
<1>1. Loose(l)
  BY TidyIsLoose
<1>2. i # 0 /\ i <= p
  BY <1>1, NoteOnFound
<1>3. i \in 1 .. Len(l) - 1 /\ i % 2 = 1 /\ l[i].col = c
  BY <1>1, <1>2, NoteOnAtIs
<1> HIDE DEF i
<1>4. DOMAIN l = 1 .. Len(l) /\ Len(l) \in Nat /\ i + 1 \in DOMAIN l
  BY <1>3, EventsOfRow
<1>5. CASE i < p
  <2>1. l[i].col < l[i + 1].col /\ l[i + 1].col <= l[p].col
    <3>1. i \in DOMAIN l /\ i % 2 = 1
      BY <1>3, <1>4
    <3> QED
      BY <1>5, <3>1 DEF Tidy, NotesApart
  <2>2. l[i + 1].col \in Nat
    BY <1>4, EventsOfRow
  <2> QED
    BY <1>3, <2>1, <2>2
<1> QED
  BY <1>2, <1>3, <1>4, <1>5 DEF i

(* Where an addition puts a note the query has not found.                  *)
AddPoint(l, c) == IF Inserts(l, c) THEN InsertionPoint(l, c) ELSE Len(l)

LEMMA AddPointIs ==
  ASSUME NEW l \in Seq(Event), NEW c \in Nat, Loose(l), Reach(l, c) % 2 # 1
  PROVE  AddPoint(l, c) = Reach(l, c) /\ OnBeat(l, Reach(l, c), c)
<1> DEFINE p == Reach(l, c)
<1>1. /\ p \in 0 .. Len(l) /\ \A i \in 1 .. p : l[i].col <= c
      /\ p < Len(l) => l[p + 1].col > c
  BY ScanIsPrefix
<1>2. p % 2 # 1
  OBVIOUS
<1> HIDE DEF p
<1>3. DOMAIN l = 1 .. Len(l) /\ Len(l) \in Nat /\ p \in Int /\ p % 2 = 0
  BY <1>1, <1>2, EventsOfRow, Parity
<1>4. ASSUME NEW i \in p + 1 .. Len(l) PROVE l[i].col > c
  <2>1. (p + 1) % 2 = 1
    BY <1>3, Parity
  <2>2. p + 1 \in DOMAIN l /\ i \in DOMAIN l /\ p + 1 <= i /\ p < Len(l)
    BY <1>1, <1>3
  <2>3. l[p + 1].col <= l[i].col /\ l[p + 1].col \in Nat /\ l[i].col \in Nat
    BY <2>1, <2>2, EventsOfRow DEF Loose
  <2> QED
    BY <1>1, <2>2, <2>3
<1>5. OnBeat(l, p, c)
  BY <1>1, <1>3, <1>4 DEF OnBeat
<1>6. AddPoint(l, c) = p
  <2>1. CASE Inserts(l, c)
    <3> DEFINE S == {i \in DOMAIN l : l[i].col <= c}
    <3>1. ASSUME NEW i \in DOMAIN l PROVE l[i].col <= c <=> i \in 1 .. p
      <4>1. l[i].col \in Nat /\ i \in 1 .. Len(l)
        BY EventsOfRow
      <4>2. CASE i \in 1 .. p
        BY <1>1, <4>2
      <4>3. CASE i \notin 1 .. p
        <5>1. i \in p + 1 .. Len(l)
          BY <1>1, <1>3, <4>1, <4>3
        <5>2. l[i].col > c
          BY <1>4, <5>1
        <5> QED
          BY <4>1, <4>3, <5>2
      <4> QED
        BY <4>2, <4>3
    <3>2. S = 1 .. p
      <4>1. 1 .. p \subseteq DOMAIN l
        BY <1>1, <1>3
      <4> QED
        BY <3>1, <4>1
    <3>3. Final(S) = p
      <4>1. p \in Nat
        BY <1>1, <1>3
      <4> QED
        BY <3>2, <4>1, FinalIs
    <3> QED
      BY <2>1, <3>3 DEF AddPoint, InsertionPoint
  <2>2. CASE ~Inserts(l, c)
    <3>1. CASE p < Len(l)
      <4>1. Len(l) \in p + 1 .. Len(l) /\ l # <<>>
        BY <1>1, <1>3, <3>1
      <4>2. l[Len(l)].col > c /\ l[Len(l)].col \in Nat
        <5>1. Len(l) \in DOMAIN l
          BY <1>1, <1>3, <3>1
        <5> QED
          BY <1>4, <4>1, <5>1, EventsOfRow
      <4> QED
        BY <2>2, <4>1, <4>2 DEF Inserts
    <3>2. CASE ~(p < Len(l))
      <4>1. p = Len(l)
        <5>1. p \in 0 .. Len(l)
          BY <1>1
        <5>2. Len(l) \in Nat
          BY <1>3
        <5> QED
          BY <3>2, <5>1, <5>2
      <4> QED
        BY <2>2, <4>1 DEF AddPoint
    <3> QED
      BY <3>1, <3>2
  <2> QED
    BY <2>1, <2>2
<1> QED
  BY <1>5, <1>6 DEF p

-----------------------------------------------------------------------------
(* The notes of a row, by the positions of their note-ons.                 *)

LEMMA Bytes ==
  /\ \A c \in Columns : c \in Nat /\ c <= 255
  /\ \A d \in Durations : d \in Nat /\ d >= 1 /\ d <= 255
  /\ PoolSize \in Nat /\ 0 < PoolSize
  BY GridAssumption

LEMMA ByteDifference ==
  ASSUME NEW a \in Nat, NEW b \in Nat, a >= b, a - b <= 255
  PROVE  (a - b) % 256 = a - b
  OBVIOUS

(* What the callers of the grid leave in a row.                            *)
RowOfNotes(l) ==
  /\ Tidy(l)
  /\ \A i \in DOMAIN l : i % 2 = 1 =>
       /\ l[i].col \in Columns /\ l[i].vel \in Velocities
       /\ l[i + 1].col - l[i].col \in Durations

NoteOf(r, l, i) ==
  [row |-> r, col |-> l[i].col, vel |-> l[i].vel, dur |-> l[i + 1].col - l[i].col]

NotesIn(r, l) == {NoteOf(r, l, i) : i \in {j \in 1 .. Len(l) - 1 : l[j].on}}

LEMMA NotesByPosition ==
  ASSUME NEW l \in Seq(Event), Alternates(l), NEW r
  PROVE  \A n : n \in NotesIn(r, l) <=> \E i \in DOMAIN l : i % 2 = 1 /\ n = NoteOf(r, l, i)
<1>1. \A i \in DOMAIN l : i % 2 = 1 => i \in 1 .. Len(l) - 1 /\ l[i].on
  BY PairOf
<1>2. \A i \in 1 .. Len(l) - 1 : l[i].on => i \in DOMAIN l /\ i % 2 = 1
  BY EventsOfRow DEF Alternates
<1> QED
  BY <1>1, <1>2 DEF NotesIn

LEMMA TidyMonotone ==
  ASSUME NEW l \in Seq(Event), Tidy(l), NEW i \in DOMAIN l, NEW j \in DOMAIN l, i <= j
  PROVE  l[i].col <= l[j].col
<1>1. i \in Int /\ j \in Int /\ l[i].col \in Nat /\ l[j].col \in Nat
  BY EventsOfRow
<1>2. CASE i % 2 = 1
  BY <1>2, TidyIsLoose DEF Loose
<1>3. CASE i % 2 # 1 /\ i < j
  <2>1. (i - 1) % 2 = 1
    BY <1>1, <1>3, Parity
  <2>2. i # 1
    <3>1. 1 % 2 = 1
      OBVIOUS
    <3> QED
      BY <1>3, <3>1
  <2>3. i - 1 \in DOMAIN l /\ i - 1 < j /\ (i - 1) + 1 = i
    BY <1>1, <1>3, <2>2, EventsOfRow
  <2> QED
    BY <2>1, <2>3 DEF Tidy, NotesApart
<1> QED
  BY <1>1, <1>2, <1>3

(* In a row of notes the scan reaches all the events at or before c.       *)
LEMMA ReachOfTidy ==
  ASSUME NEW l \in Seq(Event), NEW c \in Nat, Tidy(l), NEW i \in DOMAIN l
  PROVE  l[i].col <= c <=> i <= Reach(l, c)
<1> DEFINE p == Reach(l, c)
<1>1. /\ p \in 0 .. Len(l) /\ \A j \in 1 .. p : l[j].col <= c
      /\ p < Len(l) => l[p + 1].col > c
  BY TidyIsLoose, ScanIsPrefix
<1> HIDE DEF p
<1>2. DOMAIN l = 1 .. Len(l) /\ Len(l) \in Nat /\ l[i].col \in Nat
  BY EventsOfRow
<1>3. CASE i <= p
  <2>1. i \in 1 .. p
    BY <1>2, <1>3
  <2>2. l[i].col <= c
    BY <1>1, <2>1
  <2> QED
    BY <1>3, <2>2 DEF p
<1>4. CASE i > p
  <2>1. p + 1 \in DOMAIN l /\ p + 1 <= i /\ p < Len(l)
    BY <1>1, <1>2, <1>4
  <2>2. l[p + 1].col <= l[i].col /\ l[p + 1].col \in Nat
    BY <2>1, TidyMonotone, EventsOfRow
  <2>3. ~(l[i].col <= c) /\ ~(i <= p)
    <3>1. l[p + 1].col > c
      BY <1>1, <2>1
    <3>2. ~(l[i].col <= c)
      BY <1>2, <2>2, <3>1
    <3>3. i \in Int /\ p \in Int
      BY <1>1, <1>2
    <3> QED
      BY <1>4, <3>2, <3>3
  <2> QED
    BY <2>3 DEF p
<1>5. i <= p \/ i > p
  BY <1>1, <1>2
<1> QED
  BY <1>3, <1>4, <1>5 DEF p

(* Notes at different positions are different and do not overlap.          *)
LEMMA PositionsApart ==
  ASSUME NEW l \in Seq(Event), Tidy(l), NEW r, NEW s,
         NEW i \in DOMAIN l, NEW j \in DOMAIN l, i % 2 = 1, j % 2 = 1, i # j
  PROVE  /\ Abstract!Disjoint(NoteOf(r, l, i), NoteOf(s, l, j))
         /\ NoteOf(r, l, i).col # NoteOf(s, l, j).col
<1>1. /\ i + 1 \in DOMAIN l /\ j + 1 \in DOMAIN l /\ i \in Int /\ j \in Int
  BY PairOf, EventsOfRow DEF Tidy
<1>2. /\ l[i].col \in Nat /\ l[i + 1].col \in Nat /\ l[j].col \in Nat /\ l[j + 1].col \in Nat
  BY <1>1, EventsOfRow
<1>3. CASE i < j
  <2>1. l[i].col < l[i + 1].col /\ l[i + 1].col <= l[j].col
    BY <1>3 DEF Tidy, NotesApart
  <2> QED
    BY <1>2, <2>1, SMTT(30) DEF NoteOf, Abstract!Disjoint
<1>4. CASE j < i
  <2>1. l[j].col < l[j + 1].col /\ l[j + 1].col <= l[i].col
    BY <1>4 DEF Tidy, NotesApart
  <2> QED
    BY <1>2, <2>1, SMTT(30) DEF NoteOf, Abstract!Disjoint
<1> QED
  BY <1>1, <1>3, <1>4

-----------------------------------------------------------------------------
(* A note the query leaves room for enters the row as one more note.       *)

Room(l, c, d) == ~NoteAt(l, c).found /\ Fits(d, NoteAt(l, c).steps)

(* m is l with a note entered after position k.                            *)
Added(l, m, k, c, d, v) ==
  /\ Spliced(l, m, k)
  /\ m[k + 1].col = c /\ m[k + 1].vel = v /\ m[k + 2].col = c + d

LEMMA AddIsSplice ==
  ASSUME NEW l \in Seq(Event), NEW c \in Nat, NEW d \in Nat, NEW v \in Velocities,
         NEW k \in 0 .. Len(l)
  PROVE  /\ InsertPair(l, k, On(c, v), Off(c + d)) \in Seq(Event)
         /\ Added(l, InsertPair(l, k, On(c, v), Off(c + d)), k, c, d, v)
<1>1. On(c, v) \in Event /\ Off(c + d) \in Event
  BY DEF On, Off, Event
<1>2. /\ On(c, v).on /\ On(c, v).col = c /\ On(c, v).vel = v
      /\ ~Off(c + d).on /\ Off(c + d).col = c + d
  BY DEF On, Off
<1> DEFINE e == On(c, v)
           f == Off(c + d)
<1>3. e \in Event /\ f \in Event /\ e.on /\ ~f.on
  BY <1>1, <1>2
<1> HIDE DEF e, f
<1>4. /\ InsertPair(l, k, e, f) \in Seq(Event) /\ Spliced(l, InsertPair(l, k, e, f), k)
      /\ InsertPair(l, k, e, f)[k + 1] = e /\ InsertPair(l, k, e, f)[k + 2] = f
  BY <1>3, InsertPairIs
<1> QED
  BY <1>2, <1>4 DEF e, f, Added

(* The notes of m are those of l and one at position p.                    *)
OneMore(r, l, m, p) ==
  /\ p \in DOMAIN m /\ p % 2 = 1
  /\ \A i \in DOMAIN m : i % 2 = 1 /\ i # p =>
       \E j \in DOMAIN l : j % 2 = 1 /\ NoteOf(r, m, i) = NoteOf(r, l, j)
  /\ \A j \in DOMAIN l : j % 2 = 1 =>
       \E i \in DOMAIN m : i % 2 = 1 /\ i # p /\ NoteOf(r, m, i) = NoteOf(r, l, j)

LEMMA SplicedPositions ==
  ASSUME NEW l \in Seq(Event), NEW m \in Seq(Event), NEW k \in 0 .. Len(l), Spliced(l, m, k),
         Alternates(l), k % 2 = 0, NEW r
  PROVE  OneMore(r, l, m, k + 1)
<1>0. /\ Len(l) \in Nat /\ k \in Int /\ k >= 0 /\ k <= Len(l)
      /\ DOMAIN l = 1 .. Len(l) /\ DOMAIN m = 1 .. Len(l) + 2
  BY EventsOfRow DEF Spliced
<1>1. Alternates(m)
  BY SplicedAlternates
<1>z. ASSUME NEW i \in DOMAIN m
      PROVE  /\ i \in Int
             /\ i <= k => i \in DOMAIN l /\ m[i] = l[i]
             /\ i > k + 2 => i - 2 \in DOMAIN l /\ i - 2 >= k + 1 /\ m[i] = l[i - 2]
  BY SplicedSides
<1>2. ASSUME NEW i \in DOMAIN m, i % 2 = 1, i # k + 1
      PROVE  \E j \in DOMAIN l : j % 2 = 1 /\ NoteOf(r, m, i) = NoteOf(r, l, j)
  <2>1. i \in Int /\ i + 1 \in DOMAIN m /\ i + 1 # k + 1 /\ i # k + 2
    <3>1. i \in Int /\ i + 1 \in DOMAIN m /\ (i + 1) % 2 = 0
      BY <1>0, <1>1, <1>2, PairOf, SMTT(30)
    <3>2. (k + 1) % 2 = 1 /\ (k + 2) % 2 = 0
      BY <1>0, Parity
    <3> QED
      BY <1>2, <3>1, <3>2, SMTT(30)
  <2>2. CASE i <= k
    <3>1. i + 1 <= k
      BY <1>0, <2>1, <2>2
    <3>2. i \in DOMAIN l /\ m[i] = l[i] /\ m[i + 1] = l[i + 1]
      BY <1>z, <1>2, <2>1, <2>2, <3>1
    <3> QED
      BY <1>2, <3>2 DEF NoteOf
  <2>3. CASE i > k + 2
    <3>1. i + 1 > k + 2 /\ (i + 1) - 2 = (i - 2) + 1
      BY <1>0, <2>1, <2>3
    <3>2. i - 2 \in DOMAIN l /\ m[i] = l[i - 2]
      BY <1>z, <1>2, <2>3
    <3>3. m[i + 1] = l[(i - 2) + 1]
      BY <1>z, <2>1, <3>1
    <3>4. (i - 2) % 2 = 1
      BY <1>2, <2>1, Parity
    <3> QED
      BY <3>2, <3>3, <3>4 DEF NoteOf
  <2> QED
    BY <1>0, <1>2, <2>1, <2>2, <2>3
<1>3. ASSUME NEW j \in DOMAIN l, j % 2 = 1
      PROVE  \E i \in DOMAIN m : i % 2 = 1 /\ i # k + 1 /\ NoteOf(r, m, i) = NoteOf(r, l, j)
  <2>1. j \in Int /\ j + 1 \in DOMAIN l /\ j # k
    <3>1. j \in Int /\ j + 1 \in DOMAIN l
      BY <1>0, <1>3, PairOf
    <3> QED
      BY <1>0, <1>3, <3>1, Parity
  <2>2. CASE j < k
    <3>1. j \in 1 .. k /\ j + 1 \in 1 .. k /\ j \in DOMAIN m /\ j # k + 1
      BY <1>0, <2>1, <2>2
    <3>2. m[j] = l[j] /\ m[j + 1] = l[j + 1]
      BY <3>1 DEF Spliced
    <3> QED
      BY <1>3, <3>1, <3>2 DEF NoteOf
  <2>3. CASE j > k
    <3>1. /\ j \in k + 1 .. Len(l) /\ j + 1 \in k + 1 .. Len(l) /\ j + 2 \in DOMAIN m
          /\ j + 2 # k + 1 /\ (j + 1) + 2 = (j + 2) + 1
      BY <1>0, <2>1, <2>3
    <3>2. m[j + 2] = l[j] /\ m[(j + 1) + 2] = l[j + 1]
      BY <3>1 DEF Spliced
    <3>3. (j + 2) % 2 = 1
      BY <1>3, <2>1, Parity
    <3> QED
      BY <3>1, <3>2, <3>3 DEF NoteOf
  <2> QED
    BY <1>0, <2>1, <2>2, <2>3
<1>4. k + 1 \in DOMAIN m /\ (k + 1) % 2 = 1
  BY <1>0, Parity
<1> QED
  BY <1>2, <1>3, <1>4 DEF OneMore

(* An addition within the contract.                                        *)
LEMMA RowAdd ==
  ASSUME NEW l \in Seq(Event), RowOfNotes(l), NEW c \in Columns, NEW d \in Durations,
         NEW v \in Velocities, NEW r \in Rows, Room(l, c, d)
  PROVE  LET m == InsertPair(l, AddPoint(l, c), On(c, v), Off(c + d))
             n == [row |-> r, col |-> c, vel |-> v, dur |-> d]
         IN /\ m \in Seq(Event) /\ Len(m) = Len(l) + 2 /\ RowOfNotes(m)
            /\ NotesIn(r, m) = NotesIn(r, l) \cup {n}
            /\ \A x \in NotesIn(r, l) : Abstract!Disjoint(x, n)
<1> DEFINE k == AddPoint(l, c)
           m == InsertPair(l, k, On(c, v), Off(c + d))
           n == [row |-> r, col |-> c, vel |-> v, dur |-> d]
<1>1. Tidy(l) /\ Alternates(l) /\ Loose(l)
  BY TidyIsLoose DEF RowOfNotes, Tidy
<1>2. c \in Nat /\ d \in Nat /\ d >= 1
  BY Bytes
<1>3. Reach(l, c) % 2 # 1 /\ (Reach(l, c) < Len(l) => Fits(d, (l[Reach(l, c) + 1].col - c) % 256))
  <2>1. CASE Reach(l, c) % 2 = 1
    BY <1>1, <1>2, <2>1, NoteAtIs DEF Room
  <2>2. CASE Reach(l, c) % 2 # 1
    BY <1>1, <1>2, <2>2, NoteAtIs DEF Room
  <2> QED
    BY <2>1, <2>2
<1>4. k = Reach(l, c) /\ OnBeat(l, k, c)
  BY <1>1, <1>2, <1>3, AddPointIs
<1> HIDE DEF k
<1>5. /\ k \in 0 .. Len(l) /\ k % 2 = 0 /\ k \in Int /\ Len(l) \in Nat
  BY <1>4, EventsOfRow DEF OnBeat
<1>a. m \in Seq(Event) /\ Added(l, m, k, c, d, v)
  <2>1. k \in 0 .. Len(l) /\ c \in Nat /\ d \in Nat
    BY <1>2, <1>5
  <2> QED
    BY <2>1, AddIsSplice
<1> HIDE DEF m
<1>6. /\ m \in Seq(Event) /\ Spliced(l, m, k)
      /\ m[k + 1].col = c /\ m[k + 1].vel = v /\ m[k + 2].col = c + d
  BY <1>a DEF Added
<1>7. \A i \in k + 1 .. Len(l) : c + d <= l[i].col
  <2> SUFFICES ASSUME NEW i \in k + 1 .. Len(l) PROVE c + d <= l[i].col
    OBVIOUS
  <2>1. k + 1 \in DOMAIN l /\ i \in DOMAIN l /\ k + 1 <= i /\ k < Len(l) /\ k + 1 \in k + 1 .. Len(l)
    BY <1>5, EventsOfRow
  <2>2. (k + 1) % 2 = 1
    BY <1>5, Parity
  <2> DEFINE x == l[k + 1].col
  <2>3. x \in Nat /\ x <= 255 /\ x > c
    <3>1. x \in Columns
      BY <2>1, <2>2 DEF RowOfNotes
    <3>2. x > c
      BY <1>4, <2>1 DEF OnBeat
    <3> QED
      BY <3>1, <3>2, Bytes
  <2>4. Fits(d, (x - c) % 256)
    BY <1>3, <1>4, <2>1
  <2>5. x <= l[i].col /\ l[i].col \in Nat
    BY <1>1, <2>1, TidyMonotone, EventsOfRow
  <2> HIDE DEF x
  <2>6. (x - c) % 256 = x - c /\ x - c # 0
    BY <1>2, <2>3, ByteDifference
  <2>7. d <= x - c
    BY <2>4, <2>6 DEF Fits
  <2> QED
    BY <1>2, <2>3, <2>5, <2>7
<1>8. Tidy(m)
  <2>1. m[k + 2].col > c /\ \A i \in k + 1 .. Len(l) : m[k + 2].col <= l[i].col
    BY <1>2, <1>6, <1>7
  <2> QED
    BY <1>1, <1>2, <1>4, <1>6, <2>1, TidySpliced
<1>9. Alternates(m)
  BY <1>8 DEF Tidy
<1>10. NoteOf(r, m, k + 1) = n
  <2>1. (k + 1) + 1 = k + 2 /\ (c + d) - c = d
    BY <1>2, <1>5
  <2> QED
    BY <1>6, <2>1 DEF NoteOf
<1> HIDE DEF n
<1>12. OneMore(r, l, m, k + 1)
  BY <1>1, <1>5, <1>6, SplicedPositions
<1>11. k + 1 \in DOMAIN m /\ (k + 1) % 2 = 1
  BY <1>12 DEF OneMore
<1>13. /\ \A x : x \in NotesIn(r, l) <=> \E i \in DOMAIN l : i % 2 = 1 /\ x = NoteOf(r, l, i)
       /\ \A x : x \in NotesIn(r, m) <=> \E i \in DOMAIN m : i % 2 = 1 /\ x = NoteOf(r, m, i)
  BY <1>1, <1>6, <1>9, NotesByPosition
<1>14. NotesIn(r, m) = NotesIn(r, l) \cup {n}
  <2>1. ASSUME NEW x \in NotesIn(r, m) PROVE x \in NotesIn(r, l) \cup {n}
    BY <1>10, <1>12, <1>13 DEF OneMore
  <2>2. ASSUME NEW x \in NotesIn(r, l) PROVE x \in NotesIn(r, m)
    BY <1>12, <1>13 DEF OneMore
  <2>3. n \in NotesIn(r, m)
    BY <1>10, <1>11, <1>13
  <2> QED
    BY <2>1, <2>2, <2>3
<1>15. ASSUME NEW x \in NotesIn(r, l) PROVE Abstract!Disjoint(x, n)
  <2>1. PICK i \in DOMAIN m : i % 2 = 1 /\ i # k + 1 /\ x = NoteOf(r, m, i)
    BY <1>12, <1>13 DEF OneMore
  <2> QED
    BY <1>6, <1>8, <1>10, <1>11, <2>1, PositionsApart
<1>16. RowOfNotes(m)
  <2> SUFFICES ASSUME NEW i \in DOMAIN m, i % 2 = 1
               PROVE  /\ m[i].col \in Columns /\ m[i].vel \in Velocities
                      /\ m[i + 1].col - m[i].col \in Durations
    BY <1>8 DEF RowOfNotes
  <2> DEFINE x == NoteOf(r, m, i)
  <2>1. x.col \in Columns /\ x.vel \in Velocities /\ x.dur \in Durations
    <3>1. CASE i = k + 1
      <4>1. n.col = c /\ n.vel = v /\ n.dur = d
        BY DEF n
      <4> QED
        BY <1>10, <3>1, <4>1
    <3>2. CASE i # k + 1
      <4>1. PICK j \in DOMAIN l : j % 2 = 1 /\ x = NoteOf(r, l, j)
        BY <1>12, <3>2 DEF OneMore
      <4>2. l[j].col \in Columns /\ l[j].vel \in Velocities /\ l[j + 1].col - l[j].col \in Durations
        BY <4>1 DEF RowOfNotes
      <4> QED
        BY <4>1, <4>2 DEF NoteOf
    <3> QED
      BY <3>1, <3>2
  <2> QED
    BY <2>1 DEF NoteOf
<1>17. Len(m) = Len(l) + 2
  BY <1>6 DEF Spliced
<1> QED
  BY <1>6, <1>14, <1>15, <1>16, <1>17 DEF m, n, k

(* A removal.                                                              *)
LEMMA RowRemove ==
  ASSUME NEW l \in Seq(Event), RowOfNotes(l), NEW r \in Rows,
         NEW k \in DOMAIN l, k % 2 = 1
  PROVE  LET m == RemovePair(l, k)
         IN /\ m \in Seq(Event) /\ Len(m) = Len(l) - 2 /\ RowOfNotes(m)
            /\ NoteOf(r, l, k) \in NotesIn(r, l)
            /\ NotesIn(r, m) = NotesIn(r, l) \ {NoteOf(r, l, k)}
<1> DEFINE m == RemovePair(l, k)
<1>1. Tidy(l) /\ Alternates(l)
  BY DEF RowOfNotes, Tidy
<1>2. k \in 1 .. Len(l) - 1 /\ Len(l) \in Nat /\ k \in Int /\ DOMAIN l = 1 .. Len(l)
  BY <1>1, PairOf, EventsOfRow
<1>3. m \in Seq(Event) /\ Cut(l, m, k)
  BY <1>2, RemovePairIs
<1> HIDE DEF m
<1>4. Tidy(m) /\ Alternates(m)
  BY <1>1, <1>2, <1>3, TidyRemoved DEF Tidy
<1>5. Len(m) = Len(l) - 2 /\ DOMAIN m = 1 .. Len(l) - 2
  BY <1>3, EventsOfRow DEF Cut
<1>6. ASSUME NEW i \in DOMAIN m, i % 2 = 1
      PROVE  \E j \in DOMAIN l : j % 2 = 1 /\ j # k /\ NoteOf(r, m, i) = NoteOf(r, l, j)
                                 /\ m[i] = l[j] /\ m[i + 1] = l[j + 1]
  <2>1. i \in Int /\ i + 1 \in DOMAIN m
    BY <1>3, <1>4, <1>6, PairOf, EventsOfRow
  <2>2. CASE i < k
    <3>1. (i + 1) % 2 = 0
      BY <1>6, <2>1, Parity
    <3>2. i + 1 # k
      BY <3>1
    <3>3. i \in 1 .. k - 1 /\ i + 1 \in 1 .. k - 1 /\ i \in DOMAIN l /\ i # k
      BY <1>2, <1>5, <2>1, <2>2, <3>2
    <3>4. m[i] = l[i] /\ m[i + 1] = l[i + 1]
      BY <1>3, <3>3 DEF Cut
    <3> QED
      BY <1>6, <3>3, <3>4 DEF NoteOf
  <2>3. CASE i >= k
    <3>1. /\ i \in k .. Len(l) - 2 /\ i + 1 \in k .. Len(l) - 2 /\ i + 2 \in DOMAIN l
          /\ i + 2 # k /\ (i + 1) + 2 = (i + 2) + 1
      BY <1>2, <1>5, <2>1, <2>3
    <3>2. m[i] = l[i + 2] /\ m[i + 1] = l[(i + 1) + 2]
      BY <1>3, <3>1 DEF Cut
    <3>3. (i + 2) % 2 = 1
      BY <1>6, <2>1, Parity
    <3> QED
      BY <3>1, <3>2, <3>3 DEF NoteOf
  <2> QED
    BY <1>2, <2>1, <2>2, <2>3
<1>7. ASSUME NEW j \in DOMAIN l, j % 2 = 1, j # k
      PROVE  \E i \in DOMAIN m : i % 2 = 1 /\ NoteOf(r, m, i) = NoteOf(r, l, j)
  <2>1. j \in Int /\ j + 1 \in DOMAIN l /\ j >= 1 /\ j + 1 <= Len(l)
    <3>1. j \in 1 .. Len(l) - 1 /\ j + 1 \in DOMAIN l
      BY <1>1, <1>7, PairOf
    <3> QED
      BY <1>2, <3>1
  <2>2. j + 1 # k /\ j # k + 1
    <3>1. (j + 1) % 2 = 0 /\ (k + 1) % 2 = 0
      BY <1>2, <1>7, <2>1, Parity
    <3> QED
      BY <1>7, <3>1, SMTT(30)
  <2>3. CASE j < k
    <3>1. j \in 1 .. k - 1 /\ j + 1 \in 1 .. k - 1 /\ j \in DOMAIN m
      BY <1>2, <1>5, <2>1, <2>2, <2>3
    <3>2. m[j] = l[j] /\ m[j + 1] = l[j + 1]
      BY <1>3, <3>1 DEF Cut
    <3> QED
      BY <1>7, <3>1, <3>2 DEF NoteOf
  <2>4. CASE j > k
    <3>1. /\ j - 2 \in k .. Len(l) - 2 /\ j - 1 \in k .. Len(l) - 2 /\ j - 2 \in DOMAIN m
          /\ (j - 2) + 2 = j /\ (j - 1) + 2 = j + 1 /\ (j - 2) + 1 = j - 1
      BY <1>2, <1>5, <2>1, <2>2, <2>4
    <3>2. m[j - 2] = l[(j - 2) + 2] /\ m[j - 1] = l[(j - 1) + 2]
      BY <1>3, <3>1 DEF Cut
    <3>3. (j - 2) % 2 = 1
      BY <1>7, <2>1, Parity
    <3> QED
      BY <3>1, <3>2, <3>3 DEF NoteOf
  <2> QED
    BY <1>2, <1>7, <2>1, <2>3, <2>4
<1>8. /\ \A x : x \in NotesIn(r, l) <=> \E i \in DOMAIN l : i % 2 = 1 /\ x = NoteOf(r, l, i)
      /\ \A x : x \in NotesIn(r, m) <=> \E i \in DOMAIN m : i % 2 = 1 /\ x = NoteOf(r, m, i)
  BY <1>1, <1>3, <1>4, NotesByPosition
<1>9. \A j \in DOMAIN l : j % 2 = 1 /\ j # k => NoteOf(r, l, j) # NoteOf(r, l, k)
  BY <1>1, PositionsApart
<1>10. NotesIn(r, m) = NotesIn(r, l) \ {NoteOf(r, l, k)}
  <2>1. ASSUME NEW x \in NotesIn(r, m) PROVE x \in NotesIn(r, l) /\ x # NoteOf(r, l, k)
    <3>1. PICK i \in DOMAIN m : i % 2 = 1 /\ x = NoteOf(r, m, i)
      BY <1>8
    <3>2. PICK j \in DOMAIN l : j % 2 = 1 /\ j # k /\ x = NoteOf(r, l, j)
      BY <1>6, <3>1
    <3> QED
      BY <1>8, <1>9, <3>2
  <2>2. ASSUME NEW x \in NotesIn(r, l), x # NoteOf(r, l, k) PROVE x \in NotesIn(r, m)
    <3>1. PICK j \in DOMAIN l : j % 2 = 1 /\ x = NoteOf(r, l, j)
      BY <1>8
    <3>2. j # k
      BY <2>2, <3>1
    <3> QED
      BY <1>7, <1>8, <3>1, <3>2
  <2> QED
    BY <2>1, <2>2
<1>11. RowOfNotes(m)
  <2> SUFFICES ASSUME NEW i \in DOMAIN m, i % 2 = 1
               PROVE  /\ m[i].col \in Columns /\ m[i].vel \in Velocities
                      /\ m[i + 1].col - m[i].col \in Durations
    BY <1>4 DEF RowOfNotes
  <2>1. PICK j \in DOMAIN l : j % 2 = 1 /\ m[i] = l[j] /\ m[i + 1] = l[j + 1]
    BY <1>6
  <2> QED
    BY <2>1 DEF RowOfNotes
<1>12. NoteOf(r, l, k) \in NotesIn(r, l)
  BY <1>8
<1> QED
  BY <1>3, <1>5, <1>10, <1>11, <1>12 DEF m

(* An edit that keeps the note short of the next one.                      *)
LEMMA RowUpdate ==
  ASSUME NEW l \in Seq(Event), RowOfNotes(l), NEW d \in Durations, NEW v \in Velocities,
         NEW r \in Rows, NEW k \in DOMAIN l, k % 2 = 1,
         k + 2 <= Len(l) => l[k].col + d <= l[k + 2].col
  PROVE  LET m == UpdatePair(l, k, d, v)
             n == [row |-> r, col |-> l[k].col, vel |-> v, dur |-> d]
         IN /\ m \in Seq(Event) /\ Len(m) = Len(l) /\ RowOfNotes(m)
            /\ NoteOf(r, l, k) \in NotesIn(r, l)
            /\ NotesIn(r, m) = (NotesIn(r, l) \ {NoteOf(r, l, k)}) \cup {n}
            /\ \A x \in NotesIn(r, l) \ {NoteOf(r, l, k)} : Abstract!Disjoint(x, n)
<1> DEFINE m == UpdatePair(l, k, d, v)
           n == [row |-> r, col |-> l[k].col, vel |-> v, dur |-> d]
<1>1. Tidy(l) /\ Alternates(l)
  BY DEF RowOfNotes, Tidy
<1>2. k \in 1 .. Len(l) - 1 /\ Len(l) \in Nat /\ k \in Int /\ DOMAIN l = 1 .. Len(l)
  BY <1>1, PairOf, EventsOfRow
<1>3. d \in Nat /\ d >= 1 /\ l[k].col \in Nat
  BY Bytes, EventsOfRow
<1>a. m \in Seq(Event) /\ Updated(l, m, k, d, v)
  BY <1>2, <1>3, UpdatePairIs
<1> HIDE DEF m
<1>4. /\ m \in Seq(Event) /\ Edited(l, m, k)
      /\ m[k].vel = v /\ m[k + 1].col = l[k].col + d
  BY <1>a DEF Updated
<1>5. Len(m) = Len(l) /\ DOMAIN m = DOMAIN l /\ k + 1 # k /\ m[k].col = l[k].col
  <2>1. Len(m) = Len(l) /\ k + 1 # k
    BY <1>2, <1>4 DEF Edited
  <2>2. m[k].col = l[k].col
    BY <1>4, <2>1 DEF Edited
  <2> QED
    BY <1>4, <2>1, <2>2, EventsOfRow
<1>6. Tidy(m) /\ Alternates(m)
  <2>1. m[k + 1].col > l[k].col
    BY <1>3, <1>4
  <2>2. k + 2 <= Len(l) => m[k + 1].col <= l[k + 2].col
    BY <1>4
  <2> QED
    BY <1>1, <1>2, <1>4, <2>1, <2>2, TidyEdited DEF Tidy
<1>7. ASSUME NEW i \in DOMAIN l, i % 2 = 1, i # k
      PROVE  m[i] = l[i] /\ m[i + 1] = l[i + 1]
  <2>1. i \in Int /\ i + 1 \in DOMAIN l
    BY <1>1, <1>2, <1>7, PairOf
  <2>2. i # k + 1 /\ i + 1 # k
    <3>1. (i + 1) % 2 = 0 /\ (k + 1) % 2 = 0
      BY <1>2, <1>7, <2>1, Parity
    <3> QED
      BY <1>7, <3>1, SMTT(30)
  <2>3. i + 1 # k + 1
    BY <1>2, <1>7, <2>1
  <2> QED
    BY <1>4, <1>7, <2>1, <2>2, <2>3 DEF Edited
<1>8. \A i \in DOMAIN l : i % 2 = 1 /\ i # k => NoteOf(r, m, i) = NoteOf(r, l, i)
  BY <1>7 DEF NoteOf
<1>9. NoteOf(r, m, k) = n
  <2>1. (l[k].col + d) - l[k].col = d
    BY <1>3
  <2> QED
    BY <1>4, <1>5, <2>1 DEF NoteOf
<1> HIDE DEF n
<1>10. /\ \A x : x \in NotesIn(r, l) <=> \E i \in DOMAIN l : i % 2 = 1 /\ x = NoteOf(r, l, i)
       /\ \A x : x \in NotesIn(r, m) <=> \E i \in DOMAIN m : i % 2 = 1 /\ x = NoteOf(r, m, i)
  BY <1>1, <1>4, <1>6, NotesByPosition
<1>11. \A i \in DOMAIN l : i % 2 = 1 /\ i # k => NoteOf(r, l, i) # NoteOf(r, l, k)
  BY <1>1, PositionsApart
<1>12. NotesIn(r, m) = (NotesIn(r, l) \ {NoteOf(r, l, k)}) \cup {n}
  <2>1. ASSUME NEW x \in NotesIn(r, m)
        PROVE  x \in (NotesIn(r, l) \ {NoteOf(r, l, k)}) \cup {n}
    <3>1. PICK i \in DOMAIN l : i % 2 = 1 /\ x = NoteOf(r, m, i)
      BY <1>5, <1>10
    <3>2. CASE i = k
      BY <1>9, <3>1, <3>2
    <3>3. CASE i # k
      <4>1. x = NoteOf(r, l, i) /\ NoteOf(r, l, i) # NoteOf(r, l, k)
        BY <1>8, <1>11, <3>1, <3>3
      <4>2. x \in NotesIn(r, l)
        BY <1>10, <3>1, <4>1
      <4> QED
        BY <4>1, <4>2
    <3> QED
      BY <3>2, <3>3
  <2>2. ASSUME NEW x \in NotesIn(r, l), x # NoteOf(r, l, k) PROVE x \in NotesIn(r, m)
    <3>1. PICK i \in DOMAIN l : i % 2 = 1 /\ x = NoteOf(r, l, i)
      BY <1>10
    <3>2. i # k
      BY <2>2, <3>1
    <3>3. x = NoteOf(r, m, i)
      BY <1>8, <3>1, <3>2
    <3> QED
      BY <1>5, <1>10, <3>1, <3>3
  <2>3. n \in NotesIn(r, m)
    BY <1>5, <1>9, <1>10
  <2> QED
    BY <2>1, <2>2, <2>3
<1>13. ASSUME NEW x \in NotesIn(r, l) \ {NoteOf(r, l, k)} PROVE Abstract!Disjoint(x, n)
  <2>1. PICK i \in DOMAIN l : i % 2 = 1 /\ x = NoteOf(r, l, i)
    BY <1>10
  <2>2. i # k
    BY <2>1
  <2>3. x = NoteOf(r, m, i)
    BY <1>8, <2>1, <2>2
  <2> QED
    BY <1>4, <1>5, <1>6, <1>9, <2>1, <2>2, <2>3, PositionsApart
<1>14. RowOfNotes(m)
  <2> SUFFICES ASSUME NEW i \in DOMAIN m, i % 2 = 1
               PROVE  /\ m[i].col \in Columns /\ m[i].vel \in Velocities
                      /\ m[i + 1].col - m[i].col \in Durations
    BY <1>6 DEF RowOfNotes
  <2>1. CASE i = k
    <3>1. m[k].col \in Columns
      BY <1>5 DEF RowOfNotes
    <3>2. m[k + 1].col - m[k].col = d
      BY <1>3, <1>4, <1>5
    <3> QED
      BY <1>4, <2>1, <3>1, <3>2
  <2>2. CASE i # k
    BY <1>5, <1>7, <2>2 DEF RowOfNotes
  <2> QED
    BY <2>1, <2>2
<1>15. NoteOf(r, l, k) \in NotesIn(r, l)
  BY <1>10
<1> QED
  BY <1>4, <1>5, <1>12, <1>13, <1>14, <1>15 DEF m, n

-----------------------------------------------------------------------------
(* The inductive invariant of the callers' specification: every row holds  *)
(* notes the callers asked for, rows nobody uses hold none, and the pool   *)
(* is charged for the events of all rows.                                  *)

GridInv ==
  /\ TypeOK
  /\ nodes = Total(lists)[Rows] /\ nodes < PoolSize
  /\ \A r \in Rows : RowOfNotes(lists[r])
  /\ \A r \in Rows \ UsedRows : lists[r] = <<>>
  /\ ContractExcludesFaults

LEMMA EmptyRow ==
  ASSUME NEW l, l = <<>>
  PROVE  l \in Seq(Event) /\ Len(l) = 0 /\ RowOfNotes(l) /\ \A r : NotesIn(r, l) = {}
<1>1. l \in Seq(Event) /\ Len(l) = 0 /\ DOMAIN l = {}
  OBVIOUS
<1>2. Tidy(l)
  BY <1>1 DEF Tidy, Alternates, NotesApart
<1>3. 1 .. Len(l) - 1 = {}
  BY <1>1
<1> QED
  BY <1>1, <1>2, <1>3 DEF RowOfNotes, NotesIn

LEMMA AllEmpty ==
  ASSUME NEW ls, ls = [r \in Rows |-> <<>>]
  PROVE  ls \in [Rows -> Seq(Event)] /\ \A r \in Rows : ls[r] = <<>> /\ RowOfNotes(ls[r])
<1>1. \A r \in Rows : ls[r] = <<>>
  OBVIOUS
<1>2. \A r \in Rows : RowOfNotes(ls[r])
  BY <1>1, EmptyRow
<1> QED
  BY <1>1, <1>2

LEMMA ListTypes ==
  ASSUME GridInv
  PROVE  /\ lists \in [Rows -> Seq(Event)] /\ nodes \in Nat /\ totalGridColumns \in Nat
         /\ \A r \in Rows : /\ lists[r] \in Seq(Event) /\ RowOfNotes(lists[r])
                            /\ Tidy(lists[r]) /\ Loose(lists[r])
<1>1. lists \in [Rows -> Seq(Event)] /\ nodes \in Nat /\ totalGridColumns \in Nat
  BY DEF GridInv, TypeOK
<1>2. \A r \in Rows : lists[r] \in Seq(Event) /\ RowOfNotes(lists[r])
  BY <1>1 DEF GridInv
<1>3. \A r \in Rows : Tidy(lists[r])
  BY <1>2 DEF RowOfNotes
<1> QED
  BY <1>1, <1>2, <1>3, TidyIsLoose

LEMMA MaxOfThree ==
  ASSUME NEW a \in Nat, NEW b \in Nat, NEW c \in Nat
  PROVE  Max({a, b, c}) \in Nat /\ Max({a, b, c}) >= a
<1> DEFINE S == {a, b, c}
           n == a + b + c
<1>1. n \in Nat /\ S \subseteq 0 .. n /\ S # {}
  OBVIOUS
<1>2. Max(S) \in S /\ \A x \in S : x <= Max(S)
  BY <1>1, GreatestBelow
<1> QED
  BY <1>2

(* One row of notes becomes another.                                       *)
LEMMA OneRowChanges ==
  ASSUME GridInv, NEW r \in UsedRows, NEW m \in Seq(Event), RowOfNotes(m),
         lists' = [lists EXCEPT ![r] = m],
         nodes' = nodes - Len(lists[r]) + Len(m), nodes' < PoolSize, totalGridColumns' \in Nat, fault' \in {"", "outOfNodes", "freeEmpty"}
  PROVE  GridInv'
<1>1. /\ lists \in [Rows -> Seq(Event)]
      /\ \A s \in Rows : RowOfNotes(lists[s])
      /\ \A s \in Rows \ UsedRows : lists[s] = <<>>
      /\ r \in Rows
  BY GridAssumption DEF GridInv, TypeOK
<1>2. lists' \in [Rows -> Seq(Event)]
  BY <1>1
<1>3. \A s \in Rows : lists'[s] = IF s = r THEN m ELSE lists[s]
  BY <1>1
<1>7. nodes' = Total(lists')[Rows] /\ nodes' \in Nat
  <2>1. nodes = Total(lists)[Rows]
    BY DEF GridInv
  <2>2. Total(lists')[Rows] = Total(lists)[Rows] - Len(lists[r]) + Len(m)
    BY <1>1, TotalChanges
  <2>3. Total(lists')[Rows] \in Nat
    BY <1>2, TotalIs
  <2> QED
    BY <2>1, <2>2, <2>3
<1>4. TypeOK'
  BY <1>2, <1>7 DEF TypeOK
<1>5. \A s \in Rows : RowOfNotes(lists'[s])
  BY <1>1, <1>3
<1>6. \A s \in Rows \ UsedRows : lists'[s] = <<>>
  BY <1>1, <1>3
<1> QED
  BY <1>4, <1>5, <1>6, <1>7 DEF GridInv, ContractExcludesFaults

LEMMA AllRowsEmptied ==
  ASSUME lists' = [r \in Rows |-> <<>>],
         nodes' = 0, totalGridColumns' \in Nat, fault' \in {"", "outOfNodes", "freeEmpty"}
  PROVE  GridInv'
<1>1. lists' \in [Rows -> Seq(Event)] /\ \A r \in Rows : lists'[r] = <<>> /\ RowOfNotes(lists'[r])
  BY AllEmpty
<1>2. Total(lists')[Rows] = 0
  BY TotalOfEmptied
<1>3. nodes' = Total(lists')[Rows] /\ nodes' < PoolSize /\ nodes' \in Nat
  BY <1>2, Bytes
<1> QED
  BY <1>1, <1>3 DEF GridInv, TypeOK, ContractExcludesFaults

-----------------------------------------------------------------------------
(* What each operation does when the caller keeps to the contract.         *)

Halted ==
  /\ fault' \in {"outOfNodes", "freeEmpty"}
  /\ UNCHANGED <<lists, nodes, totalGridColumns>>

LEMMA AddStep ==
  ASSUME GridInv, NEW r \in UsedRows, NEW c \in Columns, NEW d \in Durations,
         NEW v \in Velocities, MayAdd(r, c, d), AddNote(r, c, d, v)
  PROVE  \/ Halted
         \/ /\ lists' = [lists EXCEPT ![r] = InsertPair(lists[r], AddPoint(lists[r], c),
                                                        On(c, v), Off(c + d))]
            /\ nodes' = nodes + 2 /\ nodes + 2 < PoolSize
            /\ totalGridColumns' \in Nat /\ fault' = ""
<1>1. r \in Rows /\ c \in Rows /\ c \notin UsedRows /\ c \in Nat /\ d \in Nat
  BY GridAssumption, Bytes
<1>2. ~NoteAt(lists[r], c).found /\ ~QueryFault(lists[r], c)
  BY <1>1, ListTypes, NoteAtIs DEF MayAdd
<1>3. NoteOnAt(lists[c], r) = 0
  <2>1. lists[c] = <<>>
    BY <1>1 DEF GridInv
  <2> QED
    BY <2>1 DEF NoteOnAt, First
<1>4. \/ AddFault(r, c) = "outOfNodes"
      \/ AddFault(r, c) = "" /\ ~(nodes + 1 >= PoolSize - 1)
  BY <1>2, <1>3 DEF AddFault
<1>5. CASE AddFault(r, c) = "outOfNodes"
  BY <1>5 DEF AddNote, FailAssertion, Halted
<1>6. CASE AddFault(r, c) = "" /\ ~(nodes + 1 >= PoolSize - 1)
  <2>1. /\ lists' = [lists EXCEPT ![r] = InsertPair(lists[r], AddPoint(lists[r], c),
                                                    On(c, v), Off(c + d))]
        /\ nodes' = nodes + 2 /\ fault' = ""
        /\ totalGridColumns' = IF Inserts(lists[r], c)
                                 THEN totalGridColumns
                                 ELSE Max({totalGridColumns, c, c + d})
    BY <1>6 DEF AddNote, AddPoint
  <2>2. nodes \in Nat /\ totalGridColumns \in Nat /\ PoolSize \in Nat
    BY ListTypes, GridAssumption
  <2>3. totalGridColumns' \in Nat
    <3>1. c \in Nat /\ c + d \in Nat
      BY <1>1
    <3>2. Max({totalGridColumns, c, c + d}) \in Nat
      BY <2>2, <3>1, MaxOfThree
    <3> QED
      BY <2>1, <2>2, <3>2
  <2>4. nodes + 2 < PoolSize
    <3>1. ~(nodes + 1 >= PoolSize - 1)
      BY <1>6
    <3> QED
      BY <2>2, <3>1
  <2> QED
    BY <2>1, <2>3, <2>4
<1> QED
  BY <1>4, <1>5, <1>6

(* The note-on an operation works on, when the query shows it there.       *)
LEMMA ShownIsFound ==
  ASSUME NEW l \in Seq(Event), RowOfNotes(l), NEW c \in Columns, NoteAt(l, c).found,
         NoteAt(l, c).col = c
  PROVE  /\ NoteOnAt(l, c) \in DOMAIN l /\ NoteOnAt(l, c) % 2 = 1 /\ l[NoteOnAt(l, c)].col = c
         /\ NoteOnAt(l, c) # 0 /\ NoteOffOf(l, NoteOnAt(l, c)) # 0
         /\ NoteOnAt(l, c) + 2 <= Len(l) =>
              NoteAt(l, c).steps = l[NoteOnAt(l, c) + 2].col - c /\ NoteAt(l, c).steps # 0
<1>1. Tidy(l) /\ Alternates(l) /\ Loose(l) /\ c \in Nat
  BY TidyIsLoose, Bytes DEF RowOfNotes, Tidy
<1> DEFINE p == Reach(l, c)
<1>2. /\ p % 2 = 1 /\ l[p].col = c
      /\ NoteAt(l, c).steps = IF p + 2 <= Len(l) THEN (l[p + 2].col - l[p].col) % 256 ELSE 0
  <2>1. CASE p % 2 = 1
    BY <1>1, <2>1, NoteAtIs
  <2>2. CASE p % 2 # 1
    BY <1>1, <2>2, NoteAtIs
  <2> QED
    BY <2>1, <2>2
<1>3. p \in 0 .. Len(l) /\ \A i \in 1 .. p : l[i].col <= c
  BY <1>1, ScanIsPrefix
<1> HIDE DEF p
<1>4. p \in DOMAIN l /\ p # 0 /\ p \in Int /\ DOMAIN l = 1 .. Len(l) /\ Len(l) \in Nat
  BY <1>2, <1>3, EventsOfRow
<1>5. NoteOnAt(l, c) = p
  BY <1>1, <1>2, <1>3, <1>4, TidyNoteOnAt
<1>6. NoteOffOf(l, p) # 0
  <2>1. p \in 1 .. Len(l) - 1 /\ ~l[p + 1].on
    BY <1>1, <1>2, <1>4, PairOf
  <2> QED
    BY <1>4, <2>1 DEF NoteOffOf
<1>7. ASSUME p + 2 <= Len(l)
      PROVE  NoteAt(l, c).steps = l[p + 2].col - c /\ NoteAt(l, c).steps # 0
  <2>1. p + 2 \in DOMAIN l /\ p < p + 2 /\ p + 1 \in DOMAIN l
    BY <1>4, <1>7
  <2>2. (p + 2) % 2 = 1
    BY <1>2, <1>4, Parity
  <2> DEFINE x == l[p + 2].col
  <2>3. x \in Nat /\ x <= 255
    BY <2>1, <2>2, Bytes DEF RowOfNotes
  <2>4. x > c
    <3>1. l[p].col < l[p + 1].col /\ l[p + 1].col <= l[p + 2].col
      BY <1>1, <1>2, <1>4, <2>1 DEF Tidy, NotesApart
    <3>2. l[p + 1].col \in Nat
      BY <2>1, EventsOfRow
    <3> QED
      BY <1>1, <1>2, <2>3, <3>1, <3>2, SMTT(30)
  <2>5. NoteAt(l, c).steps = (x - c) % 256
    BY <1>2, <1>7
  <2> HIDE DEF x
  <2>6. (x - c) % 256 = x - c /\ x - c # 0
    BY <1>1, <2>3, <2>4, ByteDifference
  <2> QED
    BY <2>5, <2>6 DEF x
<1> QED
  BY <1>2, <1>4, <1>5, <1>6, <1>7

LEMMA UpdateStep ==
  ASSUME GridInv, NEW r \in UsedRows, NEW c \in Columns, NEW d \in Durations,
         NEW v \in Velocities, MayUpdate(r, c, d), UpdateNote(r, c, d, v)
  PROVE  \E k \in DOMAIN lists[r] :
           /\ k % 2 = 1 /\ (k + 2 <= Len(lists[r]) => lists[r][k].col + d <= lists[r][k + 2].col)
           /\ lists' = [lists EXCEPT ![r] = UpdatePair(lists[r], k, d, v)]
           /\ UNCHANGED <<nodes, totalGridColumns, fault>>
<1> DEFINE l == lists[r]
           k == NoteOnAt(l, c)
<1>1. r \in Rows /\ l \in Seq(Event) /\ RowOfNotes(l) /\ c \in Nat /\ d \in Nat
  BY GridAssumption, ListTypes, Bytes
<1>2. NoteAt(l, c).found /\ NoteAt(l, c).col = c /\ Fits(d, NoteAt(l, c).steps)
  BY DEF MayUpdate
<1>3. /\ k \in DOMAIN l /\ k % 2 = 1 /\ l[k].col = c /\ k # 0 /\ NoteOffOf(l, k) # 0
      /\ k + 2 <= Len(l) => NoteAt(l, c).steps = l[k + 2].col - c /\ NoteAt(l, c).steps # 0
  BY <1>1, <1>2, ShownIsFound
<1>4. /\ lists' = [lists EXCEPT ![r] = UpdatePair(l, k, d, v)]
      /\ UNCHANGED <<nodes, totalGridColumns, fault>>
  BY <1>3 DEF UpdateNote
<1> HIDE DEF k
<1>5. ASSUME k + 2 <= Len(l) PROVE l[k].col + d <= l[k + 2].col
  <2>1. d <= l[k + 2].col - c
    BY <1>2, <1>3, <1>5 DEF Fits
  <2>2. k + 2 \in DOMAIN l
    BY <1>1, <1>3, <1>5, EventsOfRow
  <2>3. l[k + 2].col \in Nat
    BY <1>1, <2>2, EventsOfRow
  <2> QED
    BY <1>1, <1>3, <2>1, <2>3
<1> QED
  BY <1>3, <1>4, <1>5

LEMMA RemoveStep ==
  ASSUME GridInv, NEW r \in UsedRows, NEW c \in Columns, MayRemove(r, c), RemoveNote(r, c)
  PROVE  \E k \in DOMAIN lists[r] :
           /\ k % 2 = 1
           /\ lists' = [lists EXCEPT ![r] = RemovePair(lists[r], k)]
           /\ nodes' = nodes - 2 /\ UNCHANGED <<totalGridColumns, fault>>
<1> DEFINE l == lists[r]
           k == NoteOnAt(l, c)
<1>1. r \in Rows /\ l \in Seq(Event) /\ RowOfNotes(l)
  BY GridAssumption, ListTypes
<1>2. NoteAt(l, c).found /\ NoteAt(l, c).col = c
  BY DEF MayRemove
<1>3. k \in DOMAIN l /\ k % 2 = 1 /\ k # 0 /\ NoteOffOf(l, k) # 0
  BY <1>1, <1>2, ShownIsFound
<1>4. /\ lists' = [lists EXCEPT ![r] = RemovePair(l, k)]
      /\ nodes' = nodes - 2 /\ UNCHANGED <<totalGridColumns, fault>>
  BY <1>3 DEF RemoveNote
<1> QED
  BY <1>3, <1>4

-----------------------------------------------------------------------------
LEMMA GridInvInit == Init => GridInv
<1> SUFFICES ASSUME Init PROVE GridInv
  OBVIOUS
<1>1. lists = [r \in Rows |-> <<>>] /\ nodes = 0 /\ totalGridColumns = 0 /\ fault = ""
  BY DEF Init
<1>2. lists \in [Rows -> Seq(Event)] /\ \A r \in Rows : lists[r] = <<>> /\ RowOfNotes(lists[r])
  BY <1>1, AllEmpty
<1>3. Total(lists)[Rows] = 0
  BY <1>1, TotalOfEmptied
<1>4. nodes = Total(lists)[Rows] /\ nodes < PoolSize /\ nodes \in Nat
  BY <1>1, <1>3, Bytes
<1> QED
  BY <1>1, <1>2, <1>4 DEF GridInv, TypeOK, ContractExcludesFaults

LEMMA GridInvNext == GridInv /\ [CallerNext]_vars => GridInv'
<1> SUFFICES ASSUME GridInv, [CallerNext]_vars PROVE GridInv'
  OBVIOUS
<1>0. ASSUME UNCHANGED <<lists, nodes, totalGridColumns>>,
             fault' \in {"", "outOfNodes", "freeEmpty"}
      PROVE  GridInv'
  BY <1>0 DEF GridInv, TypeOK, ContractExcludesFaults
<1>1. ASSUME NEW r \in UsedRows, NEW c \in Columns, NEW d \in Durations, NEW v \in Velocities,
             MayAdd(r, c, d), AddNote(r, c, d, v)
      PROVE  GridInv'
  <2>1. CASE Halted
    BY <1>0, <2>1 DEF Halted
  <2>2. CASE /\ lists' = [lists EXCEPT ![r] = InsertPair(lists[r], AddPoint(lists[r], c),
                                                         On(c, v), Off(c + d))]
             /\ nodes' = nodes + 2 /\ nodes + 2 < PoolSize
             /\ totalGridColumns' \in Nat /\ fault' = ""
    <3> DEFINE m == InsertPair(lists[r], AddPoint(lists[r], c), On(c, v), Off(c + d))
    <3>1. r \in Rows /\ lists[r] \in Seq(Event) /\ RowOfNotes(lists[r]) /\ Room(lists[r], c, d)
      BY <1>1, GridAssumption, ListTypes DEF MayAdd, Room
    <3>2. m \in Seq(Event) /\ Len(m) = Len(lists[r]) + 2 /\ RowOfNotes(m)
      BY <3>1, RowAdd
    <3>3. lists' = [lists EXCEPT ![r] = m]
      BY <2>2
    <3> HIDE DEF m
    <3>4. nodes' = nodes - Len(lists[r]) + Len(m) /\ nodes' < PoolSize
      <4>1. nodes \in Nat /\ Len(lists[r]) \in Nat
        BY <3>1, ListTypes
      <4>3. PoolSize \in Nat
        BY GridAssumption
      <4>2. nodes' = nodes + 2 /\ nodes + 2 < PoolSize /\ Len(m) = Len(lists[r]) + 2
        BY <2>2, <3>2
      <4>4. nodes' = nodes - Len(lists[r]) + Len(m)
        <5> DEFINE x == Len(lists[r])
                   y == Len(m)
        <5>1. x \in Nat /\ y = x + 2 /\ nodes \in Nat
          BY <4>1, <4>2
        <5> HIDE DEF x, y
        <5>2. nodes + 2 = nodes - x + y
          BY <5>1
        <5> QED
          BY <4>2, <5>2 DEF x, y
      <4>5. nodes' < PoolSize
        BY <4>2
      <4> QED
        BY <4>4, <4>5
    <3> QED
      BY <2>2, <3>2, <3>3, <3>4, OneRowChanges
  <2> QED
    BY <1>1, <2>1, <2>2, AddStep
<1>2. ASSUME NEW r \in UsedRows, NEW c \in Columns, NEW d \in Durations, NEW v \in Velocities,
             MayUpdate(r, c, d), UpdateNote(r, c, d, v)
      PROVE  GridInv'
  <2>1. PICK k \in DOMAIN lists[r] :
          /\ k % 2 = 1 /\ (k + 2 <= Len(lists[r]) => lists[r][k].col + d <= lists[r][k + 2].col)
          /\ lists' = [lists EXCEPT ![r] = UpdatePair(lists[r], k, d, v)]
          /\ UNCHANGED <<nodes, totalGridColumns, fault>>
    BY <1>2, UpdateStep
  <2> DEFINE m == UpdatePair(lists[r], k, d, v)
  <2>2. r \in Rows /\ lists[r] \in Seq(Event) /\ RowOfNotes(lists[r])
    BY GridAssumption, ListTypes
  <2>3. m \in Seq(Event) /\ Len(m) = Len(lists[r]) /\ RowOfNotes(m)
    BY <2>1, <2>2, RowUpdate
  <2>4. lists' = [lists EXCEPT ![r] = m]
    BY <2>1
  <2> HIDE DEF m
  <2>5. nodes' = nodes - Len(lists[r]) + Len(m) /\ nodes' < PoolSize
    <3>1. nodes \in Nat /\ Len(lists[r]) \in Nat /\ nodes < PoolSize
      BY <2>2, ListTypes DEF GridInv
    <3>2. nodes' = nodes
      BY <2>1
    <3> QED
      BY <2>3, <3>1, <3>2
  <2>6. totalGridColumns' \in Nat /\ fault' \in {"", "outOfNodes", "freeEmpty"}
    BY <2>1, ListTypes DEF GridInv, ContractExcludesFaults
  <2> QED
    BY <2>3, <2>4, <2>5, <2>6, OneRowChanges
<1>3. ASSUME NEW r \in UsedRows, NEW c \in Columns, MayRemove(r, c), RemoveNote(r, c)
      PROVE  GridInv'
  <2>1. PICK k \in DOMAIN lists[r] :
          /\ k % 2 = 1
          /\ lists' = [lists EXCEPT ![r] = RemovePair(lists[r], k)]
          /\ nodes' = nodes - 2 /\ UNCHANGED <<totalGridColumns, fault>>
    BY <1>3, RemoveStep
  <2> DEFINE m == RemovePair(lists[r], k)
  <2>2. r \in Rows /\ lists[r] \in Seq(Event) /\ RowOfNotes(lists[r])
    BY GridAssumption, ListTypes
  <2>3. m \in Seq(Event) /\ Len(m) = Len(lists[r]) - 2 /\ RowOfNotes(m)
    BY <2>1, <2>2, RowRemove
  <2>4. lists' = [lists EXCEPT ![r] = m]
    BY <2>1
  <2> HIDE DEF m
  <2>5. nodes' = nodes - Len(lists[r]) + Len(m) /\ nodes' < PoolSize
    <3>1. nodes \in Nat /\ Len(lists[r]) \in Nat /\ nodes < PoolSize /\ PoolSize \in Nat
      BY <2>2, ListTypes, GridAssumption DEF GridInv
    <3>2. nodes' = nodes - 2
      BY <2>1
    <3> QED
      BY <2>3, <3>1, <3>2
  <2>6. totalGridColumns' \in Nat /\ fault' \in {"", "outOfNodes", "freeEmpty"}
    BY <2>1, ListTypes DEF GridInv, ContractExcludesFaults
  <2> QED
    BY <2>3, <2>4, <2>5, <2>6, OneRowChanges
<1>4. ASSUME ResetGrid PROVE GridInv'
  <2>1. totalGridColumns \in Nat
    BY ListTypes
  <2>2. CASE totalGridColumns # 0 /\ \E r \in Rows : lists[r] = <<>>
    BY <1>0, <1>4, <2>2 DEF ResetGrid, FailAssertion
  <2>3. CASE totalGridColumns # 0 /\ ~\E r \in Rows : lists[r] = <<>>
    BY <1>4, <2>1, <2>3, AllRowsEmptied DEF ResetGrid
  <2>4. CASE totalGridColumns = 0
    BY <1>0, <1>4, <2>4 DEF ResetGrid
  <2> QED
    BY <2>2, <2>3, <2>4
<1>5. ASSUME PowerCycle PROVE GridInv'
  BY <1>5, AllRowsEmptied DEF PowerCycle
<1>6. ASSUME UNCHANGED vars PROVE GridInv'
  BY <1>0, <1>6 DEF vars, GridInv, ContractExcludesFaults
<1> QED
  BY <1>1, <1>2, <1>3, <1>4, <1>5, <1>6 DEF CallerNext, CallerAdds, CallerUpdates, CallerRemoves

(* GridInv holds for every caller that keeps to the contract: each row is  *)
(* a run of notes apart from one another, the pool is charged for exactly  *)
(* their events, and only the pool's assertions can fail.                  *)
THEOREM InvariantHolds == CallerSpec => []GridInv
  BY GridInvInit, GridInvNext, PTL DEF CallerSpec

(* Callers within the contract keep every row of the grid a run of notes   *)
(* in time order, whatever order they add, edit and remove in, never fail  *)
(* an assertion of gridManager.c that guards the contract, and the node    *)
(* pool is charged for exactly the events on the grid.                     *)
THEOREM GridStaysSound == CallerSpec => []GridSound
<1>1. GridInv => GridSound
  <2> SUFFICES ASSUME GridInv PROVE GridSound
    OBVIOUS
  <2>1. RowsWellFormed
    BY ListTypes, TidyIsWellFormed DEF RowsWellFormed
  <2>2. PoolAccounted
    BY PoolIsTotal DEF GridInv, PoolAccounted
  <2> QED
    BY <2>1, <2>2 DEF GridInv, GridSound
<1> QED
  BY <1>1, InvariantHolds, PTL

-----------------------------------------------------------------------------
(* The lists implement the abstract grid, step by step.                    *)

LEMMA NotesOfRows ==
  /\ \A x : x \in NotesOnGrid <=> \E r \in Rows : x \in NotesIn(r, lists[r])
  /\ \A r, l, x : x \in NotesIn(r, l) => x.row = r
<1>1. \A r : NotesOfRow(r) = NotesIn(r, lists[r])
  BY DEF NotesOfRow, NotesIn, NoteOf
<1> QED
  BY <1>1 DEF NotesOnGrid, NotesIn, NoteOf

LEMMA NotesOfRowsNext ==
  \A x : x \in NotesOnGrid' <=> \E r \in Rows : x \in NotesIn(r, lists'[r])
<1>1. \A r : NotesOfRow(r)' = NotesIn(r, lists'[r])
  BY DEF NotesOfRow, NotesIn, NoteOf
<1> QED
  BY <1>1 DEF NotesOnGrid

(* The notes of the grid when one row changes.                             *)
LEMMA NotesChange ==
  ASSUME GridInv, NEW r \in Rows, NEW m, lists' = [lists EXCEPT ![r] = m]
  PROVE  \A x : x \in NotesOnGrid' <=> \/ x \in NotesIn(r, m)
                                       \/ x \in NotesOnGrid \ NotesIn(r, lists[r])
<1>1. \A s \in Rows : lists'[s] = IF s = r THEN m ELSE lists[s]
  BY ListTypes
<1>2. ASSUME NEW x, x \in NotesOnGrid'
      PROVE  x \in NotesIn(r, m) \/ x \in NotesOnGrid \ NotesIn(r, lists[r])
  <2>1. PICK s \in Rows : x \in NotesIn(s, lists'[s])
    BY <1>2, NotesOfRowsNext
  <2>2. CASE s = r
    BY <1>1, <2>1, <2>2
  <2>3. CASE s # r
    <3>1. x \in NotesIn(s, lists[s]) /\ x.row = s
      BY <1>1, <2>1, <2>3, NotesOfRows
    <3>2. x \notin NotesIn(r, lists[r])
      BY <2>3, <3>1, NotesOfRows
    <3> QED
      BY <3>1, <3>2, NotesOfRows
  <2> QED
    BY <2>2, <2>3
<1>3. ASSUME NEW x, x \in NotesIn(r, m) PROVE x \in NotesOnGrid'
  BY <1>1, <1>3, NotesOfRowsNext
<1>4. ASSUME NEW x, x \in NotesOnGrid \ NotesIn(r, lists[r]) PROVE x \in NotesOnGrid'
  <2>1. PICK s \in Rows : x \in NotesIn(s, lists[s])
    BY <1>4, NotesOfRows
  <2>2. s # r
    BY <1>4, <2>1
  <2>3. lists'[s] = lists[s]
    BY <1>1, <2>2
  <2> QED
    BY <2>1, <2>3, NotesOfRowsNext
<1> QED
  BY <1>2, <1>3, <1>4

(* Every note on the grid is one the abstract grid may hold, and notes of  *)
(* other rows are disjoint from it.                                        *)
LEMMA NoteTypes ==
  ASSUME GridInv, NEW r \in Rows, NEW k \in DOMAIN lists[r], k % 2 = 1
  PROVE  NoteOf(r, lists[r], k) \in Abstract!Note
<1>1. RowOfNotes(lists[r])
  BY ListTypes
<1> DEFINE l == lists[r]
<1>2. l[k].col \in Columns /\ l[k].vel \in Velocities /\ l[k + 1].col - l[k].col \in Durations
  BY <1>1 DEF RowOfNotes
<1> HIDE DEF l
<1>3. NoteOf(r, l, k) \in Abstract!Note
  BY <1>2 DEF NoteOf, Abstract!Note
<1> QED
  BY <1>3 DEF l

LEMMA RefineInit == Init => Abstract!Init
<1> SUFFICES ASSUME Init PROVE NotesOnGrid = {}
  BY DEF Abstract!Init
<1>1. \A r \in Rows : lists[r] = <<>>
  BY DEF Init
<1>2. \A r \in Rows : NotesIn(r, lists[r]) = {}
  BY <1>1, EmptyRow
<1> QED
  BY <1>2, NotesOfRows

LEMMA RefineClear ==
  ASSUME lists' = [r \in Rows |-> <<>>]
  PROVE  Abstract!Clear
<1>1. \A r \in Rows : lists'[r] = <<>>
  OBVIOUS
<1>2. \A r \in Rows : NotesIn(r, lists'[r]) = {}
  BY <1>1, EmptyRow
<1>3. NotesOnGrid' = {}
  BY <1>2, NotesOfRowsNext
<1> QED
  BY <1>3 DEF Abstract!Clear

LEMMA RefineStutter ==
  ASSUME lists' = lists
  PROVE  NotesOnGrid' = NotesOnGrid
<1>1. \A x : x \in NotesOnGrid' <=> x \in NotesOnGrid
  BY NotesOfRows, NotesOfRowsNext
<1> QED
  BY <1>1

LEMMA RefineAdd ==
  ASSUME GridInv, NEW r \in UsedRows, NEW c \in Columns, NEW d \in Durations,
         NEW v \in Velocities, MayAdd(r, c, d), AddNote(r, c, d, v)
  PROVE  Abstract!Next \/ UNCHANGED NotesOnGrid
<1>1. CASE Halted
  BY <1>1, RefineStutter DEF Halted
<1>2. CASE lists' = [lists EXCEPT ![r] = InsertPair(lists[r], AddPoint(lists[r], c),
                                                    On(c, v), Off(c + d))]
  <2> DEFINE m == InsertPair(lists[r], AddPoint(lists[r], c), On(c, v), Off(c + d))
             n == [row |-> r, col |-> c, vel |-> v, dur |-> d]
  <2>1. r \in Rows /\ lists[r] \in Seq(Event) /\ RowOfNotes(lists[r]) /\ Room(lists[r], c, d)
    BY GridAssumption, ListTypes DEF MayAdd, Room
  <2>2. /\ NotesIn(r, m) = NotesIn(r, lists[r]) \cup {n}
        /\ \A x \in NotesIn(r, lists[r]) : Abstract!Disjoint(x, n)
    BY <2>1, RowAdd
  <2>3. lists' = [lists EXCEPT ![r] = m]
    BY <1>2
  <2>4. n.row = r /\ n \in Abstract!Note
    BY <2>1 DEF Abstract!Note
  <2> HIDE DEF m, n
  <2>5. \A x : x \in NotesOnGrid' <=> x \in NotesIn(r, m) \/ x \in NotesOnGrid \ NotesIn(r, lists[r])
    BY <2>1, <2>3, NotesChange
  <2>6. NotesOnGrid' = NotesOnGrid \cup {n}
    BY <2>1, <2>2, <2>5, NotesOfRows
  <2>7. ASSUME NEW x \in NotesOnGrid PROVE Abstract!Disjoint(x, n)
    <3>1. PICK s \in Rows : x \in NotesIn(s, lists[s]) /\ x.row = s
      BY NotesOfRows
    <3>2. CASE s = r
      BY <2>2, <3>1, <3>2
    <3>3. CASE s # r
      BY <2>4, <3>1, <3>3 DEF Abstract!Disjoint
    <3> QED
      BY <3>2, <3>3
  <2>8. Abstract!AddNote(n)
    BY <2>6, <2>7 DEF Abstract!AddNote
  <2> QED
    BY <2>4, <2>8 DEF Abstract!Next
<1> QED
  BY <1>1, <1>2, AddStep

(* The edit of a note's length and velocity, field by field.               *)
Lengthened(o, d, v) == [o EXCEPT !.dur = d, !.vel = v]

LEMMA NoteEdited ==
  ASSUME NEW o, NEW r, NEW a, NEW b, NEW x, NEW d, NEW v,
         o = [row |-> r, col |-> a, vel |-> b, dur |-> x]
  PROVE  Lengthened(o, d, v) = [row |-> r, col |-> a, vel |-> v, dur |-> d]
<1>1. [o EXCEPT !.dur = d] = [row |-> r, col |-> a, vel |-> b, dur |-> d]
  OBVIOUS
<1>2. [[row |-> r, col |-> a, vel |-> b, dur |-> d] EXCEPT !.vel = v]
      = [row |-> r, col |-> a, vel |-> v, dur |-> d]
  OBVIOUS
<1>3. Lengthened(o, d, v) = [[o EXCEPT !.dur = d] EXCEPT !.vel = v]
  <2>1. \A z : [z EXCEPT !.dur = d, !.vel = v] = [[z EXCEPT !.dur = d] EXCEPT !.vel = v]
    OBVIOUS
  <2> QED
    BY ONLY <2>1 DEF Lengthened
<1> QED
  BY <1>1, <1>2, <1>3

LEMMA RefineUpdate ==
  ASSUME GridInv, NEW r \in UsedRows, NEW c \in Columns, NEW d \in Durations,
         NEW v \in Velocities, MayUpdate(r, c, d), UpdateNote(r, c, d, v)
  PROVE  Abstract!Next
<1>1. PICK k \in DOMAIN lists[r] :
        /\ k % 2 = 1 /\ (k + 2 <= Len(lists[r]) => lists[r][k].col + d <= lists[r][k + 2].col)
        /\ lists' = [lists EXCEPT ![r] = UpdatePair(lists[r], k, d, v)]
  BY UpdateStep
<1> DEFINE m == UpdatePair(lists[r], k, d, v)
           o == NoteOf(r, lists[r], k)
           n == [row |-> r, col |-> lists[r][k].col, vel |-> v, dur |-> d]
<1>2. r \in Rows /\ lists[r] \in Seq(Event) /\ RowOfNotes(lists[r])
  BY GridAssumption, ListTypes
<1>3. /\ o \in NotesIn(r, lists[r])
      /\ NotesIn(r, m) = (NotesIn(r, lists[r]) \ {o}) \cup {n}
      /\ \A x \in NotesIn(r, lists[r]) \ {o} : Abstract!Disjoint(x, n)
  BY <1>1, <1>2, RowUpdate
<1>4. lists' = [lists EXCEPT ![r] = m]
  BY <1>1
<1>5. n.row = r /\ n = [o EXCEPT !.dur = d, !.vel = v] /\ o \in Abstract!Note
  <2>1. o \in Abstract!Note
    BY <1>1, <1>2, NoteTypes
  <2>2. n = [o EXCEPT !.dur = d, !.vel = v]
    <3> DEFINE a == lists[r][k].col
               b == lists[r][k].vel
               x == lists[r][k + 1].col - lists[r][k].col
    <3>1. o = [row |-> r, col |-> a, vel |-> b, dur |-> x]
      BY DEF NoteOf
    <3> HIDE DEF a, b, x, o
    <3>2. Lengthened(o, d, v) = [row |-> r, col |-> a, vel |-> v, dur |-> d]
      BY <3>1, NoteEdited
    <3> QED
      BY <3>2 DEF a, Lengthened
  <2> QED
    BY <2>1, <2>2
<1> HIDE DEF m, n, o
<1>6. \A x : x \in NotesOnGrid' <=> x \in NotesIn(r, m) \/ x \in NotesOnGrid \ NotesIn(r, lists[r])
  BY <1>2, <1>4, NotesChange
<1>7. o \in NotesOnGrid
  BY <1>2, <1>3, NotesOfRows
<1>8. NotesOnGrid' = (NotesOnGrid \ {o}) \cup {n}
  <2>1. \A x : x \in NotesIn(r, lists[r]) => x \in NotesOnGrid
    BY <1>2, NotesOfRows
  <2>2. \A x : x \in NotesOnGrid' <=> x \in (NotesOnGrid \ {o}) \cup {n}
    BY <1>3, <1>6, <2>1
  <2> QED
    BY <2>2
<1>9. ASSUME NEW x \in NotesOnGrid \ {o} PROVE Abstract!Disjoint(x, n)
  <2>1. PICK s \in Rows : x \in NotesIn(s, lists[s]) /\ x.row = s
    BY NotesOfRows
  <2>2. CASE s = r
    BY <1>3, <2>1, <2>2
  <2>3. CASE s # r
    BY <1>5, <2>1, <2>3 DEF Abstract!Disjoint
  <2> QED
    BY <2>2, <2>3
<1>10. Abstract!EditNote(o, d, v)
  BY <1>5, <1>7, <1>8, <1>9 DEF Abstract!EditNote
<1> QED
  BY <1>5, <1>10 DEF Abstract!Next

LEMMA RefineRemove ==
  ASSUME GridInv, NEW r \in UsedRows, NEW c \in Columns, MayRemove(r, c), RemoveNote(r, c)
  PROVE  Abstract!Next
<1>1. PICK k \in DOMAIN lists[r] :
        k % 2 = 1 /\ lists' = [lists EXCEPT ![r] = RemovePair(lists[r], k)]
  BY RemoveStep
<1> DEFINE m == RemovePair(lists[r], k)
           o == NoteOf(r, lists[r], k)
<1>2. r \in Rows /\ lists[r] \in Seq(Event) /\ RowOfNotes(lists[r])
  BY GridAssumption, ListTypes
<1>3. o \in NotesIn(r, lists[r]) /\ NotesIn(r, m) = NotesIn(r, lists[r]) \ {o}
  BY <1>1, <1>2, RowRemove
<1>4. lists' = [lists EXCEPT ![r] = m]
  BY <1>1
<1>5. o \in Abstract!Note
  BY <1>1, <1>2, NoteTypes
<1> HIDE DEF m, o
<1>6. \A x : x \in NotesOnGrid' <=> x \in NotesIn(r, m) \/ x \in NotesOnGrid \ NotesIn(r, lists[r])
  BY <1>2, <1>4, NotesChange
<1>7. o \in NotesOnGrid /\ \A x : x \in NotesIn(r, lists[r]) => x \in NotesOnGrid
  BY <1>2, <1>3, NotesOfRows
<1>8. NotesOnGrid' = NotesOnGrid \ {o}
  BY <1>3, <1>6, <1>7
<1> QED
  BY <1>5, <1>7, <1>8 DEF Abstract!RemoveNote, Abstract!Next

(* The lists implement the abstract grid: within the contract every        *)
(* operation adds, edits or removes exactly one note, clears the grid or   *)
(* leaves it alone, and what it puts there overlaps no other note.         *)
THEOREM ListsImplementNotes == CallerSpec => ImplementsNoteGrid
<1>1. GridInv /\ [CallerNext]_vars => [Abstract!Next]_NotesOnGrid
  <2> SUFFICES ASSUME GridInv, [CallerNext]_vars PROVE Abstract!Next \/ UNCHANGED NotesOnGrid
    OBVIOUS
  <2>1. ASSUME CallerAdds PROVE Abstract!Next \/ UNCHANGED NotesOnGrid
    BY <2>1, RefineAdd DEF CallerAdds
  <2>2. ASSUME CallerUpdates PROVE Abstract!Next
    BY <2>2, RefineUpdate DEF CallerUpdates
  <2>3. ASSUME CallerRemoves PROVE Abstract!Next
    BY <2>3, RefineRemove DEF CallerRemoves
  <2>4. ASSUME ResetGrid PROVE Abstract!Next \/ UNCHANGED NotesOnGrid
    <3>1. lists' = lists \/ lists' = [r \in Rows |-> <<>>]
      BY <2>4 DEF ResetGrid, FailAssertion
    <3> QED
      BY <3>1, RefineClear, RefineStutter DEF Abstract!Next
  <2>5. ASSUME PowerCycle PROVE Abstract!Next
    BY <2>5, RefineClear DEF PowerCycle, Abstract!Next
  <2>6. ASSUME UNCHANGED vars PROVE UNCHANGED NotesOnGrid
    BY <2>6, RefineStutter DEF vars
  <2> QED
    BY <2>1, <2>2, <2>3, <2>4, <2>5, <2>6 DEF CallerNext
<1> QED
  BY <1>1, RefineInit, InvariantHolds, PTL DEF CallerSpec, ImplementsNoteGrid, Abstract!Spec

(* Every note of the abstract grid is a note: rows, columns, durations and *)
(* velocities stay within what the callers may ask for.                    *)
LEMMA NotesTyped == Abstract!Spec => []Abstract!TypeOK
<1>1. Abstract!Init => Abstract!TypeOK
  BY DEF Abstract!Init, Abstract!TypeOK
<1>2. Abstract!TypeOK /\ [Abstract!Next]_NotesOnGrid => Abstract!TypeOK'
  <2> SUFFICES ASSUME Abstract!TypeOK, [Abstract!Next]_NotesOnGrid PROVE Abstract!TypeOK'
    OBVIOUS
  <2>1. ASSUME NEW n \in Abstract!Note, Abstract!AddNote(n) PROVE Abstract!TypeOK'
    BY <2>1 DEF Abstract!TypeOK, Abstract!AddNote
  <2>2. ASSUME NEW n \in Abstract!Note, NEW d \in Durations, NEW v \in Velocities,
               Abstract!EditNote(n, d, v)
        PROVE  Abstract!TypeOK'
    BY <2>2 DEF Abstract!TypeOK, Abstract!EditNote, Abstract!Note
  <2>3. ASSUME NEW n \in Abstract!Note, Abstract!RemoveNote(n) PROVE Abstract!TypeOK'
    BY <2>3 DEF Abstract!TypeOK, Abstract!RemoveNote
  <2>4. CASE Abstract!Clear
    BY <2>4 DEF Abstract!TypeOK, Abstract!Clear
  <2>5. CASE UNCHANGED NotesOnGrid
    BY <2>5 DEF Abstract!TypeOK
  <2> QED
    BY <2>1, <2>2, <2>3, <2>4, <2>5 DEF Abstract!Next
<1> QED
  BY <1>1, <1>2, PTL DEF Abstract!Spec

(* Two notes overlap whichever of them is looked at first.                 *)
LEMMA DisjointSymmetric ==
  ASSUME NEW m, NEW n, Abstract!Disjoint(m, n)
  PROVE  Abstract!Disjoint(n, m)
  BY DEF Abstract!Disjoint

(* However notes are added, stretched, shortened and removed, no step of a *)
(* row belongs to two of them.                                             *)
LEMMA NotesApartForever == Abstract!Spec => []Abstract!NoOverlap
<1>1. Abstract!Init => Abstract!NoOverlap
  BY DEF Abstract!Init, Abstract!NoOverlap
<1>2. Abstract!NoOverlap /\ [Abstract!Next]_NotesOnGrid => Abstract!NoOverlap'
  <2> SUFFICES ASSUME Abstract!NoOverlap, [Abstract!Next]_NotesOnGrid PROVE Abstract!NoOverlap'
    OBVIOUS
  <2>1. ASSUME NEW n \in Abstract!Note, Abstract!AddNote(n) PROVE Abstract!NoOverlap'
    <3>1. \A m \in NotesOnGrid : Abstract!Disjoint(m, n) /\ Abstract!Disjoint(n, m)
      BY <2>1, DisjointSymmetric DEF Abstract!AddNote
    <3> QED
      BY <2>1, <3>1 DEF Abstract!AddNote, Abstract!NoOverlap
  <2>2. ASSUME NEW n \in Abstract!Note, NEW d \in Durations, NEW v \in Velocities,
               Abstract!EditNote(n, d, v)
        PROVE  Abstract!NoOverlap'
    <3> DEFINE edited == [n EXCEPT !.dur = d, !.vel = v]
    <3>1. \A m \in NotesOnGrid \ {n} : Abstract!Disjoint(m, edited) /\ Abstract!Disjoint(edited, m)
      BY <2>2, DisjointSymmetric DEF Abstract!EditNote
    <3>2. NotesOnGrid' = (NotesOnGrid \ {n}) \cup {edited}
      BY <2>2 DEF Abstract!EditNote
    <3> HIDE DEF edited
    <3> QED
      BY <3>1, <3>2 DEF Abstract!NoOverlap
  <2>3. ASSUME NEW n \in Abstract!Note, Abstract!RemoveNote(n) PROVE Abstract!NoOverlap'
    BY <2>3 DEF Abstract!RemoveNote, Abstract!NoOverlap
  <2>4. CASE Abstract!Clear
    BY <2>4 DEF Abstract!Clear, Abstract!NoOverlap
  <2>5. CASE UNCHANGED NotesOnGrid
    BY <2>5 DEF Abstract!NoOverlap
  <2> QED
    BY <2>1, <2>2, <2>3, <2>4, <2>5 DEF Abstract!Next
<1> QED
  BY <1>1, <1>2, PTL DEF Abstract!Spec

(* So the notes read off the lists are notes the callers may ask for, and  *)
(* no two of them overlap.                                                 *)
THEOREM NotesNeverOverlap == CallerSpec => [](Abstract!TypeOK /\ Abstract!NoOverlap)
  BY ListsImplementNotes, NotesTyped, NotesApartForever, PTL DEF ImplementsNoteGrid

-----------------------------------------------------------------------------
(* What a query answers, in terms of the notes of the row.                 *)

Later(r, l, b) == {n.col : n \in {m \in NotesIn(r, l) : m.col > b}}

(* The distance to the next note, when s is where the later notes begin.   *)
LEMMA NextNoteIs ==
  ASSUME NEW l \in Seq(Event), RowOfNotes(l), NEW r, NEW b \in Nat,
         NEW s \in 1 .. Len(l) + 1, s % 2 = 1,
         \A i \in DOMAIN l : i % 2 = 1 => (l[i].col > b <=> i >= s)
  PROVE  (IF Later(r, l, b) = {} THEN 0 ELSE Min(Later(r, l, b)) - b)
           = IF s <= Len(l) THEN l[s].col - b ELSE 0
<1>1. /\ DOMAIN l = 1 .. Len(l) /\ Len(l) \in Nat
      /\ \A i \in DOMAIN l : l[i].col \in Nat
  BY EventsOfRow
<1>2. Alternates(l) /\ Tidy(l)
  BY DEF RowOfNotes, Tidy
<1>3. \A x : x \in Later(r, l, b) <=> \E i \in DOMAIN l : i % 2 = 1 /\ i >= s /\ x = l[i].col
  <2>1. \A n : n \in NotesIn(r, l) <=> \E i \in DOMAIN l : i % 2 = 1 /\ n = NoteOf(r, l, i)
    BY <1>2, NotesByPosition
  <2>2. \A i : NoteOf(r, l, i).col = l[i].col
    BY DEF NoteOf
  <2>3. \A x : x \in Later(r, l, b) <=> \E n \in NotesIn(r, l) : n.col > b /\ x = n.col
    BY DEF Later
  <2> QED
    BY <2>1, <2>2, <2>3
<1>4. CASE s > Len(l)
  <2>1. \A i \in DOMAIN l : ~(i >= s)
    BY <1>1, <1>4
  <2>2. Later(r, l, b) = {}
    BY <1>3, <2>1
  <2> QED
    BY <1>1, <1>4, <2>2
<1>5. CASE s <= Len(l)
  <2>1. s \in DOMAIN l
    BY <1>1, <1>5
  <2>2. l[s].col \in Later(r, l, b)
    BY <1>3, <2>1
  <2>3. \A x \in Later(r, l, b) : x \in Nat /\ l[s].col <= x
    BY <1>1, <1>2, <1>3, <2>1, TidyMonotone
  <2>4. Min(Later(r, l, b)) = l[s].col
    <3>1. Later(r, l, b) \subseteq Nat /\ Later(r, l, b) # {}
      BY <2>2, <2>3
    <3>2. /\ Min(Later(r, l, b)) \in Later(r, l, b)
          /\ \A x \in Later(r, l, b) : Min(Later(r, l, b)) <= x
      BY <3>1, LeastNatural
    <3> DEFINE x == Min(Later(r, l, b))
    <3>3. x \in Nat /\ l[s].col \in Nat /\ x <= l[s].col /\ l[s].col <= x
      BY <2>2, <2>3, <3>1, <3>2
    <3> QED
      BY <3>3
  <2> QED
    BY <1>5, <2>2, <2>4
<1> QED
  BY <1>1, <1>4, <1>5

(* The note that covers a column is the one the scan stops in.             *)
LEMMA CoveringIs ==
  ASSUME NEW l \in Seq(Event), RowOfNotes(l), NEW r, NEW c \in Nat,
         NEW i \in DOMAIN l, i % 2 = 1
  PROVE  Abstract!Covers(NoteOf(r, l, i), r, c) <=> i = Reach(l, c)
<1>1. Alternates(l) /\ Tidy(l) /\ Loose(l)
  BY TidyIsLoose DEF RowOfNotes, Tidy
<1>2. i + 1 \in DOMAIN l /\ i \in Int
  BY <1>1, PairOf, EventsOfRow
<1>3. (l[i].col <= c <=> i <= Reach(l, c)) /\ (l[i + 1].col <= c <=> i + 1 <= Reach(l, c))
  BY <1>1, <1>2, ReachOfTidy
<1>4. l[i].col \in Nat /\ l[i + 1].col \in Nat /\ Reach(l, c) \in Int
  <2>1. l[i].col \in Nat /\ l[i + 1].col \in Nat
    BY <1>2, EventsOfRow
  <2>2. Reach(l, c) \in 0 .. Len(l) /\ Len(l) \in Nat
    BY <1>1, EventsOfRow, ScanIsPrefix
  <2> QED
    BY <2>1, <2>2
<1> DEFINE a == l[i].col
           b == l[i + 1].col
           p == Reach(l, c)
<1>5. Abstract!Covers(NoteOf(r, l, i), r, c) <=> a <= c /\ c < a + (b - a)
  BY DEF Abstract!Covers, NoteOf
<1>6. (a <= c <=> i <= p) /\ (b <= c <=> i + 1 <= p) /\ a \in Nat /\ b \in Nat /\ p \in Int
  BY <1>3, <1>4
<1> HIDE DEF a, b, p
<1>7. (a <= c /\ c < a + (b - a)) <=> i = p
  BY <1>2, <1>6
<1> QED
  BY <1>5, <1>7 DEF p

LEMMA QueryOfRow ==
  ASSUME NEW l \in Seq(Event), RowOfNotes(l), NEW r, NEW c \in Nat
  PROVE  LET q        == NoteAt(l, c)
             covering == {n \in NotesIn(r, l) : Abstract!Covers(n, r, c)}
             b        == IF q.found THEN q.col ELSE c
         IN /\ ~QueryFault(l, c)
            /\ q.found <=> covering # {}
            /\ \A n \in covering : q.col = n.col /\ q.dur = n.dur /\ q.vel = n.vel
            /\ q.steps = IF Later(r, l, b) = {} THEN 0 ELSE Min(Later(r, l, b)) - b
<1> DEFINE q == NoteAt(l, c)
           covering == {n \in NotesIn(r, l) : Abstract!Covers(n, r, c)}
           b == IF q.found THEN q.col ELSE c
           p == Reach(l, c)
<1>1. Alternates(l) /\ Tidy(l) /\ Loose(l) /\ Len(l) % 2 = 0
  BY TidyIsLoose DEF RowOfNotes, Tidy, Alternates
<1>2. /\ DOMAIN l = 1 .. Len(l) /\ Len(l) \in Nat /\ p \in 0 .. Len(l)
      /\ \A i \in DOMAIN l : l[i].col \in Nat
  BY <1>1, EventsOfRow, ScanIsPrefix
<1>3. \A i \in DOMAIN l : i % 2 = 1 => l[i].col \in Columns /\ l[i + 1].col - l[i].col \in Durations
  BY DEF RowOfNotes
<1>4. ~QueryFault(l, c)
  BY <1>1, QueryIs
<1>5. \A x : x \in covering <=> p \in DOMAIN l /\ p % 2 = 1 /\ x = NoteOf(r, l, p)
  <2>1. \A x : x \in NotesIn(r, l) <=> \E i \in DOMAIN l : i % 2 = 1 /\ x = NoteOf(r, l, i)
    BY <1>1, NotesByPosition
  <2>2. \A i \in DOMAIN l : i % 2 = 1 =>
          (Abstract!Covers(NoteOf(r, l, i), r, c) <=> i = p)
    BY CoveringIs
  <2> QED
    BY <2>1, <2>2
<1>6. \A i \in DOMAIN l : l[i].col <= c <=> i <= p
  BY <1>1, ReachOfTidy
<1>7. CASE p % 2 = 1
  <2>1. p \in DOMAIN l /\ p + 1 <= Len(l)
    <3>1. p \in DOMAIN l
      BY <1>2, <1>7
    <3>2. p \in 1 .. Len(l) - 1
      <4> HIDE DEF p
      <4> QED
        BY <1>1, <1>7, <3>1, PairOf
    <3> QED
      BY <1>2, <3>1, <3>2
  <2> DEFINE x == l[p].col
             y == l[p + 1].col
             z == l[p + 2].col
  <2>2. q = [found |-> TRUE, col |-> x, vel |-> l[p].vel, dur |-> (y - x) % 256,
             steps |-> IF p + 2 <= Len(l) THEN (z - x) % 256 ELSE 0]
    BY <1>1, <1>7, NoteAtIs
  <2>3. x \in Nat /\ y \in Nat /\ (y - x) % 256 = y - x
    <3>1. p + 1 \in DOMAIN l /\ x \in Columns /\ y - x \in Durations
      BY <1>2, <1>3, <1>7, <2>1
    <3>2. x \in Nat /\ y \in Nat /\ y - x \in Nat /\ y - x <= 255
      BY <1>2, <3>1, Bytes
    <3> HIDE DEF x, y
    <3>3. y >= x
      BY <3>2
    <3> QED
      BY <3>2, <3>3, ByteDifference
  <2>4. p + 2 <= Len(l) => (z - x) % 256 = z - x
    <3> SUFFICES ASSUME p + 2 <= Len(l) PROVE (z - x) % 256 = z - x
      OBVIOUS
    <3>1. p + 2 \in DOMAIN l /\ p \in Int /\ p <= p + 2
      BY <1>2, <2>1
    <3>2. (p + 2) % 2 = 1
      BY <1>7, <3>1, Parity
    <3>3. z \in Columns /\ x \in Nat /\ z \in Nat /\ z <= 255 /\ z - x <= 255
      <4>1. z \in Columns /\ x \in Nat
        BY <1>3, <2>3, <3>1, <3>2
      <4>2. z \in Nat /\ z <= 255
        BY <4>1, Bytes
      <4> HIDE DEF z, x
      <4> QED
        BY <4>1, <4>2
    <3>4. x <= z
      BY <1>1, <2>1, <3>1, TidyMonotone
    <3> HIDE DEF x, z
    <3> QED
      BY <3>3, <3>4, ByteDifference
  <2>5. covering = {NoteOf(r, l, p)}
    BY <1>5, <1>7, <2>1
  <2>6. NoteOf(r, l, p).col = x /\ NoteOf(r, l, p).vel = l[p].vel /\ NoteOf(r, l, p).dur = y - x
    BY DEF NoteOf
  <2>7. p + 2 \in 1 .. Len(l) + 1 /\ (p + 2) % 2 = 1
    BY <1>2, <1>7, <2>1, Parity
  <2>8. \A i \in DOMAIN l : i % 2 = 1 => (l[i].col > x <=> i >= p + 2)
    <3> SUFFICES ASSUME NEW i \in DOMAIN l, i % 2 = 1 PROVE l[i].col > x <=> i >= p + 2
      OBVIOUS
    <3>0. i \in Int /\ p \in Int /\ l[i].col \in Nat /\ x \in Nat
      BY <1>2, <2>3
    <3>1. i <= p => l[i].col <= x
      BY <1>1, <2>1, TidyMonotone
    <3>2. i > p => l[i].col > x
      <4>1. i > p => x < y /\ y <= l[i].col
        BY <1>1, <1>7, <2>1, <3>0 DEF Tidy, NotesApart
      <4> HIDE DEF x, y
      <4> QED
        BY <2>3, <3>0, <4>1
    <3>3. i > p <=> i >= p + 2
      <4>1. i # p + 1
        BY <1>7, <3>0, Parity
      <4> QED
        BY <3>0, <4>1
    <3> HIDE DEF x
    <3> QED
      BY <3>0, <3>1, <3>2, <3>3
  <2>9. (IF Later(r, l, x) = {} THEN 0 ELSE Min(Later(r, l, x)) - x)
           = IF p + 2 <= Len(l) THEN z - x ELSE 0
    <3> HIDE DEF x
    <3>1. \A i \in DOMAIN l : i % 2 = 1 => (l[i].col > x <=> i >= p + 2)
      BY <2>8
    <3> QED
      BY <2>3, <2>7, <3>1, NextNoteIs, ZenonT(30)
  <2>10. b = x /\ q.found /\ q.col = x /\ q.vel = l[p].vel /\ q.dur = y - x
    BY <2>2, <2>3
  <2>11. q.steps = IF p + 2 <= Len(l) THEN z - x ELSE 0
    BY <2>2, <2>4
  <2> HIDE DEF q, covering, x, y, z, b
  <2> QED
    BY <1>4, <2>5, <2>6, <2>9, <2>10, <2>11 DEF q, covering, b
<1>8. CASE p % 2 # 1
  <2> DEFINE z == l[p + 1].col
  <2>1. q = [found |-> FALSE, col |-> 0, dur |-> 0, vel |-> 0,
             steps |-> IF p < Len(l) THEN (z - c) % 256 ELSE 0]
    BY <1>1, <1>8, NoteAtIs
  <2>2. p + 1 \in 1 .. Len(l) + 1 /\ (p + 1) % 2 = 1
    <3>1. p % 2 = 0
      BY <1>2, <1>8, Parity
    <3> QED
      BY <1>2, <3>1, Parity, SMTT(30)
  <2>3. p < Len(l) => (z - c) % 256 = z - c
    <3> SUFFICES ASSUME p < Len(l) PROVE (z - c) % 256 = z - c
      OBVIOUS
    <3>1. p + 1 \in DOMAIN l /\ ~(p + 1 <= p)
      BY <1>2
    <3>2. z \in Columns /\ ~(z <= c)
      BY <1>3, <1>6, <2>2, <3>1
    <3>3. z \in Nat /\ z <= 255
      BY <3>2, Bytes
    <3> HIDE DEF z
    <3>4. z >= c /\ z - c <= 255
      BY <3>2, <3>3
    <3> QED
      BY <3>3, <3>4, ByteDifference
  <2>4. covering = {}
    BY <1>5, <1>8
  <2>5. \A i \in DOMAIN l : i % 2 = 1 => (l[i].col > c <=> i >= p + 1)
    BY <1>2, <1>6
  <2>6. (IF Later(r, l, c) = {} THEN 0 ELSE Min(Later(r, l, c)) - c)
           = IF p + 1 <= Len(l) THEN z - c ELSE 0
    BY <2>2, <2>5, NextNoteIs
  <2>7. b = c /\ ~q.found
    BY <2>1
  <2>8. q.steps = IF p + 1 <= Len(l) THEN z - c ELSE 0
    BY <1>2, <2>1, <2>3
  <2> HIDE DEF q, covering, z, b
  <2> QED
    BY <1>4, <2>4, <2>6, <2>7, <2>8 DEF q, covering, b
<1> QED
  BY <1>7, <1>8

(* Within the contract a query tells its caller exactly what the notes on  *)
(* the grid say: whether one covers the step, which, and how far away the  *)
(* next one of the row is. No byte it returns ever wraps.                  *)
THEOREM QueriesAnswerForNotes == CallerSpec => []QueryAnswersForNotes
<1>1. ASSUME GridInv PROVE QueryAnswersForNotes
  <2> SUFFICES ASSUME NEW r \in Rows, NEW c \in 0 .. totalGridColumns + 1
               PROVE  LET q        == NoteAt(lists[r], c)
                          covering == {n \in NotesOfRow(r) : Abstract!Covers(n, r, c)}
                      IN /\ ~QueryFault(lists[r], c)
                         /\ q.found <=> covering # {}
                         /\ \A n \in covering : q.col = n.col /\ q.dur = n.dur /\ q.vel = n.vel
                         /\ q.steps = StepsAfter(r, IF q.found THEN q.col ELSE c)
    BY DEF QueryAnswersForNotes
  <2>1. lists[r] \in Seq(Event) /\ RowOfNotes(lists[r]) /\ c \in Nat
    BY <1>1, ListTypes
  <2>2. NotesOfRow(r) = NotesIn(r, lists[r])
    BY DEF NotesOfRow, NotesIn, NoteOf
  <2>3. \A b : StepsAfter(r, b) = IF Later(r, lists[r], b) = {} THEN 0
                                    ELSE Min(Later(r, lists[r], b)) - b
    BY <2>2 DEF StepsAfter, Later
  <2> DEFINE q == NoteAt(lists[r], c)
             covering == {n \in NotesIn(r, lists[r]) : Abstract!Covers(n, r, c)}
             b == IF q.found THEN q.col ELSE c
  <2>4. /\ ~QueryFault(lists[r], c)
        /\ q.found <=> covering # {}
        /\ \A n \in covering : q.col = n.col /\ q.dur = n.dur /\ q.vel = n.vel
        /\ q.steps = IF Later(r, lists[r], b) = {} THEN 0 ELSE Min(Later(r, lists[r], b)) - b
    BY <2>1, QueryOfRow
  <2>5. q.steps = StepsAfter(r, b)
    BY <2>3, <2>4
  <2>6. {n \in NotesOfRow(r) : Abstract!Covers(n, r, c)} = covering
    BY <2>2
  <2> HIDE DEF covering
  <2> QED
    BY <2>4, <2>5, <2>6
<1> QED
  BY <1>1, InvariantHolds, PTL

-----------------------------------------------------------------------------
(* The LEDs of a window: what the walk along a row of notes lights.        *)

LEMMA TidyNoteOff ==
  ASSUME NEW l \in Seq(Event), Tidy(l), NEW i \in DOMAIN l, l[i].on
  PROVE  NoteOffOf(l, i) = i + 1 /\ i % 2 = 1 /\ i + 1 \in DOMAIN l /\ ~l[i + 1].on
<1>1. i % 2 = 1
  BY DEF Tidy, Alternates
<1>2. i \in 1 .. Len(l) - 1 /\ i + 1 \in DOMAIN l /\ ~l[i + 1].on
  BY <1>1, PairOf DEF Tidy
<1>3. i < Len(l)
  BY <1>2, EventsOfRow
<1> QED
  BY <1>1, <1>2, <1>3 DEF NoteOffOf

LEMMA RowNeverFaults ==
  ASSUME NEW l \in Seq(Event), Tidy(l), NEW co \in Nat
  PROVE  ~LedFault(l, co)
<1> SUFFICES ASSUME NEW i \in DOMAIN l, l[i].on PROVE NoteOffOf(l, i) # 0
  BY DEF LedFault
<1>1. NoteOffOf(l, i) = i + 1 /\ i \in Nat
  BY TidyNoteOff, EventsOfRow
<1> QED
  BY <1>1

(* The events the walk continues behind are the note-offs of the notes     *)
(* that start inside the window.                                           *)
LEMMA BehindIs ==
  ASSUME NEW l \in Seq(Event), Tidy(l), NEW co \in Nat, NEW i \in DOMAIN l
  PROVE  /\ l[i].on => i \notin Behind(l, co)
         /\ i + 1 \in Behind(l, co) <=> l[i].on /\ Inside(l[i], co)
<1>1. \A x : x \in Behind(l, co) <=>
              \E j \in DOMAIN l : l[j].on /\ Inside(l[j], co) /\ x = NoteOffOf(l, j)
  BY DEF Behind
<1>2. \A j \in DOMAIN l : l[j].on => NoteOffOf(l, j) = j + 1 /\ ~l[j + 1].on /\ j \in Int
  BY TidyNoteOff, EventsOfRow
<1>3. i \in Int
  BY EventsOfRow
<1>4. l[i].on => i \notin Behind(l, co)
  BY <1>1, <1>2
<1>5. ASSUME i + 1 \in Behind(l, co) PROVE l[i].on /\ Inside(l[i], co)
  <2>1. PICK j \in DOMAIN l : l[j].on /\ Inside(l[j], co) /\ i + 1 = NoteOffOf(l, j)
    BY <1>1, <1>5
  <2>2. i = j
    BY <1>2, <1>3, <2>1
  <2> QED
    BY <2>1, <2>2
<1>6. ASSUME l[i].on, Inside(l[i], co) PROVE i + 1 \in Behind(l, co)
  BY <1>1, <1>2, <1>6
<1> QED
  BY <1>4, <1>5, <1>6

(* The walk is at an event it does not leave out when no event before it   *)
(* is beyond the window.                                                   *)
LEMMA VisitedIs ==
  ASSUME NEW l, NEW co, NEW i
  PROVE  i \in Visited(l, co) <=>
           /\ i \in DOMAIN l /\ i \notin Behind(l, co)
           /\ \A j \in 2 .. i : j \in Behind(l, co) \/ l[j].col < co + Width
  BY DEF Visited

(* What the walk lights, by its last event and the events it was at.       *)
LeftAlone(l, co) == DOMAIN l \ (Visited(l, co) \cup Behind(l, co))

FirstEnd(l, co, i) ==
  \A j \in {k \in Visited(l, co) : ~l[k].on /\ Inside(l[k], co)} : i <= j

LEMMA LitIs ==
  ASSUME NEW l, NEW co, NEW c
  PROVE  c \in LitColumns(l, co) <=>
           /\ ~(Len(l) = 0 \/ l[Len(l)].col < co)
           /\ \/ LeftAlone(l, co) # {} /\ l[Max(Visited(l, co))].on /\ c \in PanelColumns
              \/ /\ ~(LeftAlone(l, co) # {} /\ l[Max(Visited(l, co))].on)
                 /\ \E i \in Visited(l, co) : c \in LitByEvent(l, i, co, FirstEnd(l, co, i))
  BY DEF LitColumns, LeftAlone, FirstEnd

LEMMA PanelIs ==
  /\ Width \in Nat /\ 1 <= Width
  /\ \A c : c \in PanelColumns <=> c \in Nat /\ c < Width
<1>1. Width \in Nat /\ 1 <= Width
  BY WidthAssumption
<1> QED
  BY <1>1 DEF PanelColumns

LEMMA InsideIs ==
  ASSUME NEW e, e.col \in Nat, NEW co \in Nat
  PROVE  Inside(e, co) <=> co <= e.col /\ e.col < co + Width
<1> DEFINE x == e.col
<1>1. x \in Nat /\ Width \in Nat
  BY PanelIs
<1> HIDE DEF x
<1>2. x \in co .. co + Width - 1 <=> co <= x /\ x < co + Width
  BY <1>1
<1> QED
  BY <1>2 DEF x, Inside

LEMMA LastVisited ==
  ASSUME NEW l \in Seq(Event), NEW co, NEW i \in Visited(l, co)
  PROVE  LET m == Max(Visited(l, co))
         IN m \in Visited(l, co) /\ \A j \in Visited(l, co) : j <= m
<1>1. Visited(l, co) \subseteq 0 .. Len(l) /\ Len(l) \in Nat
  BY EventsOfRow DEF Visited
<1> QED
  BY <1>1, GreatestBelow

(* Every column of a note is lit. A note that starts inside the window     *)
(* lights its own columns; one that started before it is ended by the      *)
(* first note-off in the window, or the walk stops at it and lights the    *)
(* row.                                                                    *)
LEMMA RowLights ==
  ASSUME NEW l \in Seq(Event), Tidy(l), NEW co \in Nat, NEW c \in PanelColumns,
         NEW i \in DOMAIN l, i % 2 = 1, l[i].col <= c + co, c + co < l[i + 1].col
  PROVE  c \in LitColumns(l, co)
<1>1. /\ i + 1 \in DOMAIN l /\ l[i].on /\ ~l[i + 1].on /\ i \in Int
      /\ NoteOffOf(l, i) = i + 1 /\ DOMAIN l = 1 .. Len(l) /\ Len(l) \in Nat
  BY PairOf, TidyNoteOff, EventsOfRow DEF Tidy
<1>2. /\ c \in Nat /\ c < Width /\ Width \in Nat
      /\ l[i].col \in Nat /\ l[i + 1].col \in Nat
  BY <1>1, PanelIs, EventsOfRow
<1>3. l[i].col < co + Width /\ co <= l[i + 1].col
  BY <1>2
<1>4. ~(Len(l) = 0 \/ l[Len(l)].col < co)
  <2>1. Len(l) \in DOMAIN l /\ i + 1 <= Len(l) /\ Len(l) # 0
    BY <1>1
  <2>2. l[i + 1].col <= l[Len(l)].col /\ l[Len(l)].col \in Nat
    BY <1>1, <2>1, TidyMonotone, EventsOfRow
  <2> QED
    BY <1>2, <1>3, <2>1, <2>2
<1>5. \A j \in DOMAIN l : j <= i => l[j].col <= l[i].col /\ l[j].col < co + Width
  <2> SUFFICES ASSUME NEW j \in DOMAIN l, j <= i
               PROVE  l[j].col <= l[i].col /\ l[j].col < co + Width
    OBVIOUS
  <2>1. l[j].col <= l[i].col /\ l[j].col \in Nat
    BY TidyMonotone, EventsOfRow
  <2> QED
    BY <1>2, <1>3, <2>1
<1>6. i \in Visited(l, co)
  <2>1. i \notin Behind(l, co)
    BY <1>1, BehindIs
  <2>2. \A j \in 2 .. i : l[j].col < co + Width
    BY <1>1, <1>5
  <2> QED
    BY <2>1, <2>2, VisitedIs
<1>7. CASE LeftAlone(l, co) # {} /\ l[Max(Visited(l, co))].on
  BY <1>4, <1>7, LitIs
<1>8. CASE ~(LeftAlone(l, co) # {} /\ l[Max(Visited(l, co))].on)
  <2>1. ASSUME NEW j \in Visited(l, co), c \in LitByEvent(l, j, co, FirstEnd(l, co, j))
        PROVE  c \in LitColumns(l, co)
    BY <1>4, <1>8, <2>1, LitIs
  <2>2. CASE co <= l[i].col
    <3>1. Inside(l[i], co)
      BY <1>2, <1>3, <2>2, InsideIs
    <3>2. c \in LitByEvent(l, i, co, FirstEnd(l, co, i))
      BY <1>1, <3>1 DEF LitByEvent
    <3> QED
      BY <1>6, <2>1, <3>2
  <2>3. CASE l[i].col < co
    <3>1. ~Inside(l[i], co)
      BY <1>2, <2>3, InsideIs
    <3>2. i + 1 \notin Behind(l, co)
      BY <3>1, BehindIs
    <3>3. CASE l[i + 1].col < co + Width
      <4>1. Inside(l[i + 1], co)
        BY <1>2, <1>3, <3>3, InsideIs
      <4>2. i + 1 \in Visited(l, co)
        <5>1. \A j \in 2 .. i + 1 : l[j].col < co + Width
          <6> SUFFICES ASSUME NEW j \in 2 .. i + 1 PROVE l[j].col < co + Width
            OBVIOUS
          <6>1. j = i + 1 \/ (j \in DOMAIN l /\ j <= i)
            BY <1>1
          <6> QED
            BY <1>5, <3>3, <6>1
        <5> QED
          BY <1>1, <3>2, <5>1, VisitedIs
      <4>3. FirstEnd(l, co, i + 1)
        <5> SUFFICES ASSUME NEW j \in Visited(l, co), Inside(l[j], co), ~(i + 1 <= j) PROVE FALSE
          BY DEF FirstEnd
        <5>1. j \in DOMAIN l /\ j \in Int
          BY <1>1, VisitedIs
        <5>2. j <= i
          BY <1>1, <5>1
        <5>3. l[j].col <= l[i].col /\ l[j].col \in Nat
          BY <1>5, <5>1, <5>2, EventsOfRow
        <5>4. co <= l[j].col
          BY <5>3, InsideIs
        <5> QED
          BY <1>2, <2>3, <5>3, <5>4
      <4>4. c \in LitByEvent(l, i + 1, co, FirstEnd(l, co, i + 1))
        BY <1>1, <4>1, <4>3 DEF LitByEvent
      <4> QED
        BY <2>1, <4>2, <4>4
    <3>4. CASE ~(l[i + 1].col < co + Width)
      <4>1. i + 1 \notin Visited(l, co)
        <5>1. i + 1 \in 2 .. i + 1
          BY <1>1
        <5> QED
          BY <3>2, <3>4, <5>1, VisitedIs
      <4>2. LeftAlone(l, co) # {}
        BY <1>1, <3>2, <4>1 DEF LeftAlone
      <4>3. \A j \in Visited(l, co) : j <= i
        <5> SUFFICES ASSUME NEW j \in Visited(l, co), ~(j <= i) PROVE FALSE
          OBVIOUS
        <5>1. j \in DOMAIN l
          BY VisitedIs
        <5>2. i + 1 \in 2 .. j
          BY <1>1, <5>1
        <5> QED
          BY <3>2, <3>4, <5>2, VisitedIs
      <4>4. Max(Visited(l, co)) = i
        <5> DEFINE m == Max(Visited(l, co))
        <5>1. m \in Visited(l, co) /\ i <= m
          BY <1>6, LastVisited
        <5>2. m <= i /\ m \in DOMAIN l
          BY <4>3, <5>1, VisitedIs
        <5> HIDE DEF m
        <5>3. m = i
          BY <1>1, <5>1, <5>2
        <5> QED
          BY <5>3 DEF m
      <4> QED
        BY <1>1, <1>8, <4>2, <4>4
    <3> QED
      BY <3>3, <3>4
  <2> QED
    BY <1>2, <2>2, <2>3
<1> QED
  BY <1>7, <1>8

(* The rows the code floods, by the positions of the notes.                *)
FloodedRow(l, co) ==
  /\ \E i \in DOMAIN l : i % 2 = 1 /\ co + Width <= l[i].col
  /\ \/ \A i \in DOMAIN l : i % 2 = 1 => co + Width <= l[i].col
     \/ \E i \in DOMAIN l : i % 2 = 1 /\ co <= l[i].col /\ l[i].col < co + Width

CoveredAt(l, c) ==
  \E i \in DOMAIN l : i % 2 = 1 /\ l[i].col <= c /\ c < l[i + 1].col

(* An event lights only columns of its own note: a note-off the walk is at *)
(* ends a note that started before the window.                             *)
LEMMA EventLightsNote ==
  ASSUME NEW l \in Seq(Event), Tidy(l), NEW co \in Nat, NEW i \in Visited(l, co),
         NEW once, NEW c \in LitByEvent(l, i, co, once)
  PROVE  CoveredAt(l, c + co)
<1>1. /\ i \in DOMAIN l /\ i \notin Behind(l, co)
      /\ DOMAIN l = 1 .. Len(l) /\ Len(l) \in Nat /\ l[i].col \in Nat
  BY VisitedIs, EventsOfRow
<1>2. Inside(l[i], co)
  BY DEF LitByEvent
<1>3. c \in Nat /\ c < Width /\ Width \in Nat
  <2>1. c \in PanelColumns
    BY <1>2 DEF LitByEvent
  <2> QED
    BY <2>1, PanelIs
<1>4. CASE l[i].on
  <2>1. NoteOffOf(l, i) = i + 1 /\ i % 2 = 1
    BY <1>1, <1>4, TidyNoteOff
  <2>2. l[i].col <= c + co /\ c + co < l[i + 1].col
    BY <1>2, <1>4, <2>1 DEF LitByEvent
  <2> QED
    BY <1>1, <2>1, <2>2 DEF CoveredAt
<1>5. CASE ~l[i].on
  <2>1. c + co < l[i].col
    BY <1>2, <1>5 DEF LitByEvent
  <2>2. i % 2 # 1 /\ i \in Int
    BY <1>1, <1>5 DEF Tidy, Alternates
  <2>3. i # 1
    BY <2>2
  <2>4. i - 1 \in DOMAIN l /\ (i - 1) % 2 = 1 /\ (i - 1) + 1 = i
    <3>1. i - 1 \in DOMAIN l /\ (i - 1) + 1 = i
      BY <1>1, <2>3
    <3> QED
      BY <2>2, <3>1, Parity
  <2>5. l[i - 1].on /\ l[i - 1].col <= l[i].col /\ l[i - 1].col \in Nat
    <3>1. i - 1 <= i
      BY <1>1
    <3>2. l[i - 1].on
      BY <2>4 DEF Tidy, Alternates
    <3> QED
      BY <1>1, <2>4, <3>1, <3>2, TidyMonotone, EventsOfRow
  <2>6. ~Inside(l[i - 1], co)
    <3>1. (i - 1) + 1 \in Behind(l, co) <=> l[i - 1].on /\ Inside(l[i - 1], co)
      BY <2>4, BehindIs
    <3> QED
      BY <1>1, <2>4, <2>5, <3>1
  <2>7. l[i].col < co + Width
    BY <1>1, <1>2, InsideIs
  <2>8. l[i - 1].col < co
    <3>1. ~(co <= l[i - 1].col /\ l[i - 1].col < co + Width)
      BY <2>5, <2>6, InsideIs
    <3> QED
      BY <1>1, <1>3, <2>5, <2>7, <3>1
  <2>9. l[i - 1].col <= c + co
    BY <1>3, <2>5, <2>8
  <2> QED
    BY <2>1, <2>4, <2>9 DEF CoveredAt
<1> QED
  BY <1>4, <1>5

(* A whole row is lit when it is flooded or covered: past the last event   *)
(* the walk was at, a note-on, comes one beyond the window.                *)
LEMMA FloodsRow ==
  ASSUME NEW l \in Seq(Event), Tidy(l), NEW co \in Nat, NEW c \in PanelColumns,
         LeftAlone(l, co) # {}, l[Max(Visited(l, co))].on
  PROVE  CoveredAt(l, c + co) \/ FloodedRow(l, co)
<1> DEFINE m == Max(Visited(l, co))
<1>1. /\ DOMAIN l = 1 .. Len(l) /\ Len(l) \in Nat
      /\ \A i \in DOMAIN l : l[i].col \in Nat /\ i \in Int
  BY EventsOfRow
<1>2. /\ c \in Nat /\ c < Width /\ Width \in Nat
  BY PanelIs
<1>3. PICK u \in DOMAIN l : u \notin Visited(l, co) /\ u \notin Behind(l, co)
  BY DEF LeftAlone
<1>4. PICK v \in 2 .. u : v \notin Behind(l, co) /\ ~(l[v].col < co + Width)
  BY <1>3, VisitedIs
<1>5. v \in DOMAIN l /\ v \in Int /\ 2 <= v
  BY <1>1, <1>4
<1>6. 1 \in Visited(l, co)
  <2>1. 1 \in DOMAIN l /\ 2 .. 1 = {}
    BY <1>1, <1>5
  <2>2. l[1].on
    BY <2>1 DEF Tidy, Alternates
  <2>3. 1 \notin Behind(l, co)
    BY <2>1, <2>2, BehindIs
  <2> QED
    BY <2>1, <2>3, VisitedIs
<1>7. m \in Visited(l, co) /\ \A j \in Visited(l, co) : j <= m
  BY <1>6, LastVisited
<1>8. m \in DOMAIN l /\ \A j \in 2 .. m : j \in Behind(l, co) \/ l[j].col < co + Width
  BY <1>7, VisitedIs
<1>9. l[m].on
  OBVIOUS
<1> HIDE DEF m
<1>10. /\ m % 2 = 1 /\ m + 1 \in DOMAIN l /\ ~l[m + 1].on /\ m \in Int /\ m >= 1
       /\ l[m].col \in Nat /\ l[m + 1].col \in Nat
  <2>1. m % 2 = 1 /\ m + 1 \in DOMAIN l /\ ~l[m + 1].on
    BY <1>8, <1>9, TidyNoteOff
  <2>2. m \in Int /\ m >= 1
    BY <1>1, <1>8
  <2> QED
    BY <1>1, <1>8, <2>1, <2>2
<1>11. v > m
  <2>1. v <= m => v \in 2 .. m
    BY <1>5, <1>10
  <2> QED
    BY <1>4, <1>5, <1>8, <1>10, <2>1
<1>12. ASSUME NEW k \in DOMAIN l, k > m, k \notin Behind(l, co),
              \A j \in m + 1 .. k - 1 : j \in Behind(l, co)
       PROVE  co + Width <= l[k].col
  <2>1. k \notin Visited(l, co) /\ k \in Int
    BY <1>1, <1>7, <1>10, <1>12
  <2>2. PICK j \in 2 .. k : j \notin Behind(l, co) /\ ~(l[j].col < co + Width)
    BY <1>12, <2>1, VisitedIs
  <2>3. j \notin 2 .. m /\ j \notin m + 1 .. k - 1
    BY <1>8, <1>12, <2>2
  <2>4. j = k
    BY <1>10, <2>1, <2>2, <2>3
  <2> QED
    BY <1>1, <1>2, <2>2, <2>4
<1>13. CASE Inside(l[m], co)
  <2>1. co <= l[m].col /\ l[m].col < co + Width
    BY <1>10, <1>13, InsideIs
  <2>2. m + 1 \in Behind(l, co)
    BY <1>8, <1>9, <1>13, BehindIs
  <2>3. m + 2 \in DOMAIN l /\ (m + 2) % 2 = 1
    <3>1. v # m + 1
      BY <1>4, <2>2
    <3>2. m + 2 \in DOMAIN l
      BY <1>1, <1>5, <1>10, <1>11, <3>1
    <3> QED
      BY <1>10, <3>2, Parity
  <2>4. l[m + 2].on
    BY <2>3 DEF Tidy, Alternates
  <2>5. m + 2 \notin Behind(l, co)
    BY <2>3, <2>4, BehindIs
  <2>6. co + Width <= l[m + 2].col
    <3>1. \A j \in m + 1 .. (m + 2) - 1 : j \in Behind(l, co)
      <4>1. \A j \in m + 1 .. (m + 2) - 1 : j = m + 1
        BY <1>10
      <4> QED
        BY <2>2, <4>1
    <3>2. m + 2 > m
      BY <1>10
    <3> QED
      BY <1>12, <2>3, <2>5, <3>1, <3>2
  <2> QED
    BY <1>8, <1>10, <2>1, <2>3, <2>6 DEF FloodedRow
<1>14. CASE ~Inside(l[m], co)
  <2>1. m + 1 \notin Behind(l, co)
    BY <1>8, <1>14, BehindIs
  <2>2. co + Width <= l[m + 1].col
    <3>1. m + 1 .. (m + 1) - 1 = {} /\ m + 1 > m
      BY <1>10
    <3> QED
      BY <1>10, <1>12, <2>1, <3>1
  <2>3. CASE l[m].col < co
    <3>1. l[m].col <= c + co /\ c + co < l[m + 1].col
      BY <1>2, <1>10, <2>2, <2>3
    <3> QED
      BY <1>8, <1>10, <3>1 DEF CoveredAt
  <2>4. CASE co + Width <= l[m].col
    <3>1. m = 1
      <4>1. m \in 2 .. m => l[m].col < co + Width
        BY <1>7, <1>8, VisitedIs
      <4>2. ~(l[m].col < co + Width)
        <5>1. PICK a \in Nat : a = l[m].col
          BY <1>10
        <5>2. co + Width <= a
          BY Zenon, <2>4, <5>1
        <5>3. ~(a < co + Width)
          BY <1>2, <5>2
        <5> QED
          BY Zenon, <5>1, <5>3
      <4>3. m # 1 => m \in 2 .. m
        BY ONLY <1>10
      <4> QED
        BY <4>1, <4>2, <4>3
    <3>2. ASSUME NEW i \in DOMAIN l PROVE co + Width <= l[i].col
      <4>1. m <= i
        BY <1>1, <3>1
      <4>2. l[m].col <= l[i].col /\ l[i].col \in Nat
        BY <1>1, <1>8, <4>1, TidyMonotone
      <4>3. PICK a \in Nat, b \in Nat : a = l[m].col /\ b = l[i].col
        BY <1>10, <4>2
      <4>4. co + Width <= a /\ a <= b
        BY Zenon, <2>4, <4>2, <4>3
      <4>5. co + Width <= b
        BY <1>2, <4>4
      <4> QED
        BY Zenon, <4>3, <4>5
    <3> QED
      BY <1>8, <1>10, <3>2 DEF FloodedRow
  <2>5. ~(co <= l[m].col /\ l[m].col < co + Width)
    BY <1>10, <1>14, InsideIs
  <2> QED
    BY <1>2, <1>10, <2>3, <2>4, <2>5
<1> QED
  BY <1>13, <1>14

LEMMA RowDark ==
  ASSUME NEW l \in Seq(Event), Tidy(l), NEW co \in Nat, NEW c \in LitColumns(l, co)
  PROVE  CoveredAt(l, c + co) \/ FloodedRow(l, co)
<1>1. CASE LeftAlone(l, co) # {} /\ l[Max(Visited(l, co))].on
  <2>1. c \in PanelColumns
    BY <1>1, LitIs
  <2> QED
    BY <1>1, <2>1, FloodsRow
<1>2. CASE ~(LeftAlone(l, co) # {} /\ l[Max(Visited(l, co))].on)
  <2>1. PICK i \in Visited(l, co) : c \in LitByEvent(l, i, co, FirstEnd(l, co, i))
    BY <1>2, LitIs
  <2> QED
    BY <2>1, EventLightsNote
<1> QED
  BY <1>1, <1>2

-----------------------------------------------------------------------------
(* The registers: every LED has one of its own, which the burst of its     *)
(* column writes, and no other.                                            *)

LEMMA SinkOrder ==
  ASSUME NEW r \in PanelRows
  PROVE  \E p \in PanelRows : CurrentSink[r + 1] = 3 * p /\ BurstOrder(p) = r
<1>1. r \in {0, 1, 2, 3, 4, 5}
  BY DEF PanelRows
<1>2. \A x \in {0, 1, 2, 3, 4, 5} : x \in PanelRows
  BY DEF PanelRows
<1>3. CASE r = 0
  BY <1>2, <1>3 DEF CurrentSink, BurstOrder
<1>4. CASE r = 1
  <2>1. CurrentSink[2] = 15 /\ BurstOrder(5) = 1
    BY DEF CurrentSink, BurstOrder
  <2> QED
    BY <1>2, <1>4, <2>1
<1>5. CASE r = 2
  BY <1>2, <1>5 DEF CurrentSink, BurstOrder
<1>6. CASE r = 3
  BY <1>2, <1>6 DEF CurrentSink, BurstOrder
<1>7. CASE r = 4
  BY <1>2, <1>7 DEF CurrentSink, BurstOrder
<1>8. CASE r = 5
  BY <1>2, <1>8 DEF CurrentSink, BurstOrder
<1> QED
  BY <1>1, <1>3, <1>4, <1>5, <1>6, <1>7, <1>8

LEMMA RegistersApart ==
  ASSUME NEW c \in PanelColumns, NEW d \in PanelColumns, NEW p \in PanelRows, NEW q \in PanelRows,
         c \div 2 = d \div 2, LineBase(c) + 3 * p = LineBase(d) + 3 * q
  PROVE  c = d /\ p = q
<1>1. c \in Nat /\ d \in Nat /\ p \in 0 .. 5 /\ q \in 0 .. 5
  BY PanelIs DEF PanelRows
<1>2. c = 2 * (c \div 2) + (c % 2) /\ d = 2 * (d \div 2) + (d % 2)
  BY <1>1
<1>3. c % 2 \in {0, 1} /\ d % 2 \in {0, 1}
  BY <1>1
<1>4. c % 2 = d % 2 /\ p = q
  BY <1>1, <1>3 DEF LineBase
<1> QED
  BY <1>2, <1>4

LEMMA LedShowsImage ==
  ASSUME NEW image, NEW r \in PanelRows, NEW c \in PanelColumns
  PROVE  Registers(image)[LedRegister(r, c)] = image[<<r, c>>]
<1> DEFINE burst == [d \in PanelColumns |->
                       ColumnBurst([s \in PanelRows |-> image[<<s, d>>]], d)]
           x == LedRegister(r, c)
           over == {d \in PanelColumns : x \in DOMAIN burst[d]}
<1>1. PICK p \in PanelRows : CurrentSink[r + 1] = 3 * p /\ BurstOrder(p) = r
  BY SinkOrder
<1>2. x = <<c \div 2, LineBase(c) + 3 * p>>
  BY <1>1 DEF LedRegister
<1>3. \A d \in PanelColumns :
        DOMAIN burst[d] = {<<d \div 2, LineBase(d) + 3 * q>> : q \in PanelRows}
  BY DEF ColumnBurst
<1>4. x \in DOMAIN burst[c]
  BY <1>2, <1>3
<1>5. over = {c}
  <2>1. ASSUME NEW d \in over PROVE d = c
    <3>1. PICK q \in PanelRows : x = <<d \div 2, LineBase(d) + 3 * q>>
      BY <1>3
    <3>2. c \div 2 = d \div 2 /\ LineBase(c) + 3 * p = LineBase(d) + 3 * q
      BY <1>2, <3>1
    <3> QED
      BY <3>2, RegistersApart
  <2> QED
    BY <1>4, <2>1
<1>6. Max(over) = c
  <2>1. Max({c}) = c
    <3>1. c \in Nat /\ {c} \subseteq 0 .. c /\ {c} # {}
      BY PanelIs
    <3> QED
      BY <3>1, GreatestBelow
  <2> QED
    BY <1>5, <2>1
<1>7. Registers(image)[x] = burst[Max(over)][x]
  <2>1. x \in UNION {DOMAIN burst[d] : d \in PanelColumns}
    BY <1>4
  <2> QED
    BY <2>1 DEF Registers
<1>8. burst[c][x] = image[<<r, c>>]
  <2> DEFINE colours == [s \in PanelRows |-> image[<<s, c>>]]
  <2>1. burst[c] = ColumnBurst(colours, c)
    OBVIOUS
  <2>2. ColumnBurst(colours, c)[x] = colours[BurstOrder((x[2] - LineBase(c)) \div 3)]
    <3>1. x \in {<<c \div 2, LineBase(c) + 3 * q>> : q \in PanelRows}
      BY <1>2
    <3> HIDE DEF x, colours
    <3> QED
      BY <3>1 DEF ColumnBurst
  <2>3. (x[2] - LineBase(c)) \div 3 = p
    <3>1. x[2] = LineBase(c) + 3 * p
      BY <1>2
    <3>2. p \in 0 .. 5 /\ LineBase(c) \in {0, 18}
      BY DEF PanelRows, LineBase
    <3> HIDE DEF x
    <3>3. x[2] - LineBase(c) = 3 * p
      BY <3>1, <3>2
    <3>4. (3 * p) \div 3 = p
      BY <3>2
    <3> QED
      BY <3>3, <3>4
  <2>4. colours[r] = image[<<r, c>>]
    OBVIOUS
  <2> HIDE DEF burst, colours, x
  <2> QED
    BY <1>1, <2>1, <2>2, <2>3, <2>4
<1> HIDE DEF burst, over, x
<1>9. Registers(image)[x] = image[<<r, c>>]
  BY <1>6, <1>7, <1>8
<1> QED
  BY <1>9 DEF x

-----------------------------------------------------------------------------
(* The same of the notes on the grid.                                      *)

LEMMA RowNotes ==
  ASSUME GridInv, NEW r \in Rows
  PROVE  \A n : n \in NotesOfRow(r) <=>
                \E i \in DOMAIN lists[r] : i % 2 = 1 /\ n = NoteOf(r, lists[r], i)
<1>1. lists[r] \in Seq(Event) /\ Alternates(lists[r])
  BY ListTypes DEF Tidy
<1>2. NotesOfRow(r) = NotesIn(r, lists[r])
  BY DEF NotesOfRow, NotesIn, NoteOf
<1> QED
  BY <1>1, <1>2, NotesByPosition

LEMMA CoveredIs ==
  ASSUME GridInv, NEW r \in Rows, NEW c \in Nat
  PROVE  Covered(r, c) <=> CoveredAt(lists[r], c)
<1> DEFINE l == lists[r]
<1>1. \A i \in DOMAIN l : i % 2 = 1 =>
        (Abstract!Covers(NoteOf(r, l, i), r, c) <=> l[i].col <= c /\ c < l[i + 1].col)
  <2> SUFFICES ASSUME NEW i \in DOMAIN l, i % 2 = 1
               PROVE  Abstract!Covers(NoteOf(r, l, i), r, c) <=> l[i].col <= c /\ c < l[i + 1].col
    OBVIOUS
  <2> DEFINE a == l[i].col
             b == l[i + 1].col
  <2>1. l \in Seq(Event) /\ Alternates(l)
    BY ListTypes DEF Tidy
  <2>2. a \in Nat /\ b \in Nat
    <3> HIDE DEF l
    <3>1. i + 1 \in DOMAIN l
      BY <2>1, PairOf
    <3> QED
      BY <2>1, <3>1, EventsOfRow
  <2>3. Abstract!Covers(NoteOf(r, l, i), r, c) <=> a <= c /\ c < a + (b - a)
    BY DEF Abstract!Covers, NoteOf
  <2> HIDE DEF a, b
  <2>4. a + (b - a) = b
    BY <2>2
  <2> QED
    BY <2>3, <2>4 DEF a, b
<1>2. \A n : n \in NotesOfRow(r) <=> \E i \in DOMAIN l : i % 2 = 1 /\ n = NoteOf(r, l, i)
  BY RowNotes
<1> QED
  BY <1>1, <1>2 DEF Covered, CoveredAt

LEMMA FloodedIs ==
  ASSUME GridInv, NEW r \in Rows, NEW co \in Nat, FloodedRow(lists[r], co)
  PROVE  Flooded(r, co)
<1> DEFINE l      == lists[r]
           starts == {n.col : n \in NotesOfRow(r)}
           early  == {c \in starts : c < co + Width}
<1>1. \A c : c \in starts <=> \E i \in DOMAIN l : i % 2 = 1 /\ c = l[i].col
  <2>1. \A n : n \in NotesOfRow(r) <=> \E i \in DOMAIN l : i % 2 = 1 /\ n = NoteOf(r, l, i)
    BY RowNotes
  <2>2. \A i : NoteOf(r, l, i).col = l[i].col
    BY DEF NoteOf
  <2> QED
    BY <2>1, <2>2
<1>2. (\A i \in DOMAIN l : l[i].col \in Nat) /\ Width \in Nat
  BY ListTypes, EventsOfRow, PanelIs
<1>3. /\ \E i \in DOMAIN l : i % 2 = 1 /\ co + Width <= l[i].col
      /\ \/ \A i \in DOMAIN l : i % 2 = 1 => co + Width <= l[i].col
         \/ \E i \in DOMAIN l : i % 2 = 1 /\ co <= l[i].col /\ l[i].col < co + Width
  BY DEF FloodedRow
<1> HIDE DEF starts, l
<1>4. early # starts
  <2>1. PICK i \in DOMAIN l : i % 2 = 1 /\ co + Width <= l[i].col
    BY <1>3
  <2>2. ~(l[i].col < co + Width)
    BY <1>2, <2>1
  <2> QED
    BY <1>1, <2>1, <2>2
<1>5. CASE \A i \in DOMAIN l : i % 2 = 1 => co + Width <= l[i].col
  <2>1. \A c \in starts : ~(c < co + Width)
    BY <1>1, <1>2, <1>5
  <2>2. early = {}
    BY <2>1
  <2> QED
    BY <1>4, <2>2 DEF Flooded, starts
<1>6. CASE \E i \in DOMAIN l : i % 2 = 1 /\ co <= l[i].col /\ l[i].col < co + Width
  <2>1. PICK i \in DOMAIN l : i % 2 = 1 /\ co <= l[i].col /\ l[i].col < co + Width
    BY <1>6
  <2>2. l[i].col \in early /\ l[i].col \in Nat
    BY <1>1, <1>2, <2>1
  <2>3. early \subseteq 0 .. co + Width
    BY <1>1, <1>2
  <2>4. Max(early) \in early /\ \A c \in early : c <= Max(early)
    <3> DEFINE n == co + Width
    <3>1. n \in Nat /\ early # {} /\ early \subseteq 0 .. n
      BY <1>2, <2>2, <2>3
    <3> HIDE DEF n, early
    <3> QED
      BY <3>1, GreatestBelow
  <2>5. Max(early) \in Nat /\ l[i].col <= Max(early)
    BY <1>1, <1>2, <2>2, <2>4
  <2> DEFINE top == Max(early)
  <2>6. top >= co
    <3> HIDE DEF top
    <3>1. top \in Nat /\ l[i].col <= top
      BY <2>5 DEF top
    <3> QED
      BY <2>1, <2>2, <3>1
  <2> QED
    BY <1>4, <2>6 DEF Flooded, starts
<1> QED
  BY <1>3, <1>5, <1>6

(* Every LED of every window, of a row and column of the grid.             *)
LEMMA LedIs ==
  ASSUME GridInv, NEW ro \in RowOffsets, NEW co \in ColumnOffsets,
         NEW r \in PanelRows, NEW c \in PanelColumns
  PROVE  LET lit == Registers(Image(lists, ro, co))[LedRegister(r, c)]
         IN /\ r + ro \in Rows /\ c + co \in Nat
            /\ Covered(r + ro, c + co) => lit
            /\ lit => Covered(r + ro, c + co) \/ Flooded(r + ro, co)
<1> DEFINE row == r + ro
           lit == Registers(Image(lists, ro, co))[LedRegister(r, c)]
<1>1. row \in Rows
  <2>1. ro \in Nat /\ ro .. ro + 5 \subseteq Rows /\ r \in 0 .. 5
    BY DEF RowOffsets, PanelRows
  <2> QED
    BY <2>1
<1>2. co \in Nat /\ c \in Nat /\ c + co \in Nat
  BY ListTypes, PanelIs DEF ColumnOffsets
<1>3. lit = (c \in LitColumns(lists[row], co))
  <2>1. lit = Image(lists, ro, co)[<<r, c>>]
    <3> DEFINE image == Image(lists, ro, co)
    <3> HIDE DEF image
    <3>1. Registers(image)[LedRegister(r, c)] = image[<<r, c>>]
      BY LedShowsImage
    <3> QED
      BY <3>1 DEF image
  <2>2. Image(lists, ro, co)[<<r, c>>] = (c \in LitColumns(lists[row], co))
    BY DEF Image
  <2> QED
    BY <2>1, <2>2
<1> HIDE DEF row, lit
<1>4. lists[row] \in Seq(Event) /\ Tidy(lists[row])
  BY <1>1, ListTypes
<1>5. ASSUME Covered(row, c + co) PROVE lit
  <2>1. CoveredAt(lists[row], c + co)
    BY <1>1, <1>2, <1>5, CoveredIs
  <2>2. c \in LitColumns(lists[row], co)
    BY <1>2, <1>4, <2>1, RowLights DEF CoveredAt
  <2> QED
    BY <1>3, <2>2
<1>6. ASSUME lit PROVE Covered(row, c + co) \/ Flooded(row, co)
  <2>1. c \in LitColumns(lists[row], co)
    BY <1>3, <1>6
  <2>2. CoveredAt(lists[row], c + co) \/ FloodedRow(lists[row], co)
    BY <1>2, <1>4, <2>1, RowDark
  <2> QED
    BY <1>1, <1>2, <2>2, CoveredIs, FloodedIs
<1> QED
  BY <1>1, <1>2, <1>5, <1>6 DEF row, lit

(* Whatever notes callers within the contract put on the grid, of however  *)
(* many rows and columns, and wherever the window lies: the walk meets no  *)
(* note without an end, lights every column of every note at the LED of    *)
(* its row and column, and no other LED but in the rows the code floods.   *)
THEOREM WindowsShowNotes == CallerSpec => []WindowShowsNotes
<1>1. ASSUME GridInv PROVE WindowShowsNotes
  <2>1. \A r \in Rows, co \in ColumnOffsets : ~LedFault(lists[r], co)
    <3> SUFFICES ASSUME NEW r \in Rows, NEW co \in ColumnOffsets PROVE ~LedFault(lists[r], co)
      OBVIOUS
    <3>1. lists[r] \in Seq(Event) /\ Tidy(lists[r]) /\ co \in Nat
      BY <1>1, ListTypes DEF ColumnOffsets
    <3> QED
      BY <3>1, RowNeverFaults
  <2>2. NotesAreLit
    BY <1>1, <2>1, LedIs DEF NotesAreLit, ForEachLed
  <2>3. DarkWithoutNote
    BY <1>1, LedIs DEF DarkWithoutNote, ForEachLed
  <2> QED
    BY <2>2, <2>3 DEF WindowShowsNotes
<1> QED
  BY <1>1, InvariantHolds, PTL

-----------------------------------------------------------------------------
(* The grid as a file. First the delta times: the values four bytes of     *)
(* seven bits hold.                                                        *)
Times == 0 .. 128 ^ 4 - 1

LEMMA TimesAre == \A n : n \in Times <=> n \in Nat /\ n < 268435456
<1>1. 128 ^ 4 = 268435456
  BY SMT
<1> QED
  BY SMT, <1>1 DEF Times

(* The powers the lengths of delta times are told by.                      *)
LEMMA Powers ==
  ASSUME NEW e
  PROVE  /\ e = 0 => 128 ^ e = 1
         /\ e = 1 => 128 ^ e = 128 /\ 256 ^ e = 256
         /\ e = 2 => 128 ^ e = 16384 /\ 256 ^ e = 65536
         /\ e = 3 => 128 ^ e = 2097152 /\ 256 ^ e = 16777216
         /\ e = 4 => 128 ^ e = 268435456
<1>1. /\ e = 0 => 128 ^ e = 128 ^ 0
      /\ e = 1 => 128 ^ e = 128 ^ 1 /\ 256 ^ e = 256 ^ 1
      /\ e = 2 => 128 ^ e = 128 ^ 2 /\ 256 ^ e = 256 ^ 2
      /\ e = 3 => 128 ^ e = 128 ^ 3 /\ 256 ^ e = 256 ^ 3
      /\ e = 4 => 128 ^ e = 128 ^ 4
  BY Zenon
<1> QED
  BY SMT, <1>1

(* How many bytes the writer makes of a delta time.                        *)
LEMMA VarLenBytesIs ==
  ASSUME NEW n \in Times
  PROVE  VarLenBytes(n) = IF n < 128 THEN 1 ELSE IF n < 16384 THEN 2 ELSE IF n < 2097152 THEN 3 ELSE 4
<1> DEFINE S == {k \in 1 .. 4 : n < 128 ^ k}
<1>1. n \in Nat /\ n < 268435456
  BY SMT, TimesAre
<1>2. \A k \in 1 .. 4 : k = 1 \/ k = 2 \/ k = 3 \/ k = 4
  BY SMT
<1>3. \A k : k \in S <=> k \in 1 .. 4 /\ n < 128 ^ k
  BY Zenon
<1>4. S \subseteq Nat /\ VarLenBytes(n) = First(S)
  BY SMT DEF VarLenBytes
<1>5. \A k : k \in S <=> \/ (k = 1 /\ n < 128) \/ (k = 2 /\ n < 16384)
                         \/ (k = 3 /\ n < 2097152) \/ k = 4
  <2> HIDE DEF S
  <2> QED
    BY SMT, <1>1, <1>2, <1>3, Powers
<1> HIDE DEF S
<1>6. CASE n < 128
  <2>1. 1 \in S /\ \A k \in S : 1 <= k
    BY SMT, <1>1, <1>5, <1>6
  <2>2. First(S) = 1
    <3>1. S \subseteq Nat
      BY <1>4
    <3> QED
      BY <2>1, <3>1, FirstIs
  <2> QED
    BY SMT, <1>1, <1>4, <1>6, <2>2
<1>7. CASE ~(n < 128) /\ n < 16384
  <2>1. 2 \in S /\ \A k \in S : 2 <= k
    BY SMT, <1>1, <1>5, <1>7
  <2>2. First(S) = 2
    <3>1. S \subseteq Nat
      BY <1>4
    <3> QED
      BY <2>1, <3>1, FirstIs
  <2> QED
    BY SMT, <1>1, <1>4, <1>7, <2>2
<1>8. CASE ~(n < 16384) /\ n < 2097152
  <2>1. 3 \in S /\ \A k \in S : 3 <= k
    BY SMT, <1>1, <1>5, <1>8
  <2>2. First(S) = 3
    <3>1. S \subseteq Nat
      BY <1>4
    <3> QED
      BY <2>1, <3>1, FirstIs
  <2> QED
    BY SMT, <1>1, <1>4, <1>8, <2>2
<1>9. CASE ~(n < 2097152)
  <2>1. 4 \in S /\ \A k \in S : 4 <= k
    BY SMT, <1>1, <1>5, <1>9
  <2>2. First(S) = 4
    <3>1. S \subseteq Nat
      BY <1>4
    <3> QED
      BY <2>1, <3>1, FirstIs
  <2> QED
    BY SMT, <1>1, <1>4, <1>9, <2>2
<1> QED
  BY SMT, <1>6, <1>7, <1>8, <1>9

(* How many bytes the reader takes it for.                                 *)
LEMMA NumBytesIs ==
  ASSUME NEW n \in Times
  PROVE  DeltaTimeNumBytes(n) = IF n < 256 THEN 1 ELSE IF n < 65536 THEN 2 ELSE IF n < 16777216 THEN 3 ELSE 4
<1> DEFINE S == {k \in 1 .. 4 : k = 4 \/ n < 256 ^ k}
<1>1. n \in Nat /\ n < 268435456
  BY SMT, TimesAre
<1>2. \A k \in 1 .. 4 : k = 1 \/ k = 2 \/ k = 3 \/ k = 4
  BY SMT
<1>3. \A k : k \in S <=> k \in 1 .. 4 /\ (k = 4 \/ n < 256 ^ k)
  BY Zenon
<1>4. S \subseteq Nat /\ DeltaTimeNumBytes(n) = First(S)
  BY SMT DEF DeltaTimeNumBytes
<1>5. \A k : k \in S <=> \/ (k = 1 /\ n < 256) \/ (k = 2 /\ n < 65536)
                         \/ (k = 3 /\ n < 16777216) \/ k = 4
  <2> HIDE DEF S
  <2> QED
    BY SMT, <1>1, <1>2, <1>3, Powers
<1> HIDE DEF S
<1>6. CASE n < 256
  <2>1. 1 \in S /\ \A k \in S : 1 <= k
    BY SMT, <1>1, <1>5, <1>6
  <2>2. First(S) = 1
    <3>1. S \subseteq Nat
      BY <1>4
    <3> QED
      BY <2>1, <3>1, FirstIs
  <2> QED
    BY SMT, <1>1, <1>4, <1>6, <2>2
<1>7. CASE ~(n < 256) /\ n < 65536
  <2>1. 2 \in S /\ \A k \in S : 2 <= k
    BY SMT, <1>1, <1>5, <1>7
  <2>2. First(S) = 2
    <3>1. S \subseteq Nat
      BY <1>4
    <3> QED
      BY <2>1, <3>1, FirstIs
  <2> QED
    BY SMT, <1>1, <1>4, <1>7, <2>2
<1>8. CASE ~(n < 65536) /\ n < 16777216
  <2>1. 3 \in S /\ \A k \in S : 3 <= k
    BY SMT, <1>1, <1>5, <1>8
  <2>2. First(S) = 3
    <3>1. S \subseteq Nat
      BY <1>4
    <3> QED
      BY <2>1, <3>1, FirstIs
  <2> QED
    BY SMT, <1>1, <1>4, <1>8, <2>2
<1>9. CASE ~(n < 16777216)
  <2>1. 4 \in S /\ \A k \in S : 4 <= k
    BY SMT, <1>1, <1>5, <1>9
  <2>2. First(S) = 4
    <3>1. S \subseteq Nat
      BY <1>4
    <3> QED
      BY <2>1, <3>1, FirstIs
  <2> QED
    BY SMT, <1>1, <1>4, <1>9, <2>2
<1> QED
  BY SMT, <1>6, <1>7, <1>8, <1>9

(* The bytes of a delta time: seven bits of it each, all but the last      *)
(* marked.                                                                 *)
LEMMA VarLenIs ==
  ASSUME NEW n \in Times
  PROVE  /\ VarLenBytes(n) \in 1 .. 4
         /\ VarLen(n) \in [1 .. VarLenBytes(n) -> Nat]
         /\ VarLen(n)[VarLenBytes(n)] = n % 128
         /\ \A i \in 1 .. VarLenBytes(n) - 1 : VarLen(n)[i] >= 128
         /\ VarLenBytes(n) > 1 => VarLen(n)[VarLenBytes(n) - 1] % 128 = (n \div 128) % 128
         /\ VarLenBytes(n) > 2 => VarLen(n)[VarLenBytes(n) - 2] % 128 = (n \div 16384) % 128
         /\ VarLenBytes(n) > 3 => VarLen(n)[VarLenBytes(n) - 3] % 128 = (n \div 2097152) % 128
<1>1. n \in Nat /\ n < 268435456
  BY SMT, TimesAre
<1>2. PICK k : k = VarLenBytes(n)
  BY SMT
<1>3. k = 1 \/ k = 2 \/ k = 3 \/ k = 4
  BY SMT, <1>1, <1>2, VarLenBytesIs
<1>5. VarLen(n) = [i \in 1 .. k |-> ((n \div 128 ^ (k - i)) % 128) + (IF i < k THEN 128 ELSE 0)]
  BY SMT, <1>2 DEF VarLen
<1>6. \A x \in Nat : x % 128 \in 0 .. 127 /\ ((x % 128) + 128) % 128 = x % 128 /\ (x % 128) % 128 = x % 128
  BY SMT
<1>7. n \div 1 = n /\ n \div 128 \in Nat /\ n \div 16384 \in Nat /\ n \div 2097152 \in Nat
  BY SMT, <1>1
<1>8. ASSUME NEW i \in 1 .. k
      PROVE  /\ n \div 128 ^ (k - i) \in Nat
             /\ (i = k => n \div 128 ^ (k - i) = n)
             /\ (i = k - 1 => n \div 128 ^ (k - i) = n \div 128)
             /\ (i = k - 2 => n \div 128 ^ (k - i) = n \div 16384)
             /\ (i = k - 3 => n \div 128 ^ (k - i) = n \div 2097152)
  <2>1. k - i = 0 \/ k - i = 1 \/ k - i = 2 \/ k - i = 3
    BY SMT, <1>3
  <2>6. /\ i = k <=> k - i = 0
        /\ i = k - 1 <=> k - i = 1
        /\ i = k - 2 <=> k - i = 2
        /\ i = k - 3 <=> k - i = 3
    BY SMT, <1>3
  <2>2. CASE k - i = 0
    <3>1. PICK y : y = 128 ^ (k - i)
      OBVIOUS
    <3>2. y = 1
      BY SMT, <2>2, <3>1, Powers
    <3>3. n \div y = n
      BY SMT, <1>1, <3>2
    <3> QED
      BY SMT, <1>1, <2>2, <2>6, <3>1, <3>3
  <2>3. CASE k - i = 1
    BY SMT, <1>3, <1>7, <2>3, <2>6, Powers
  <2>4. CASE k - i = 2
    BY SMT, <1>3, <1>7, <2>4, <2>6, Powers
  <2>5. CASE k - i = 3
    BY SMT, <1>3, <1>7, <2>5, <2>6, Powers
  <2> QED
    BY SMT, <2>1, <2>2, <2>3, <2>4, <2>5
<1>9. ASSUME NEW i \in 1 .. k
      PROVE  /\ VarLen(n)[i] = ((n \div 128 ^ (k - i)) % 128) + (IF i < k THEN 128 ELSE 0)
             /\ VarLen(n)[i] \in Nat /\ VarLen(n)[i] % 128 = (n \div 128 ^ (k - i)) % 128
             /\ (i < k => VarLen(n)[i] >= 128)
  <2>1. VarLen(n)[i] = ((n \div 128 ^ (k - i)) % 128) + (IF i < k THEN 128 ELSE 0)
    BY SMT, <1>5
  <2>2. PICK x \in Nat : x = n \div 128 ^ (k - i)
    BY SMT, <1>8
  <2>3. /\ x % 128 \in 0 .. 127 /\ ((x % 128) + 128) % 128 = x % 128
        /\ (x % 128) % 128 = x % 128
    BY SMT, <1>6
  <2>4. VarLen(n)[i] = (x % 128) + 128 \/ VarLen(n)[i] = x % 128
    BY SMT, <2>1, <2>2, <2>3
  <2>5. i < k => VarLen(n)[i] = (x % 128) + 128
    BY SMT, <2>1, <2>2
  <2> QED
    BY SMT, <2>1, <2>2, <2>3, <2>4, <2>5
<1>10. VarLen(n) \in [1 .. k -> Nat]
  BY SMT, <1>5, <1>9
<1>11. VarLen(n)[k] = n % 128
  <2>1. k \in 1 .. k /\ ~(k < k)
    BY SMT, <1>3
  <2>2. n \div 128 ^ (k - k) = n
    BY SMT, <1>8, <2>1
  <2>3. n % 128 \in Nat
    BY SMT, <1>1
  <2> QED
    BY SMT, <1>9, <2>1, <2>2, <2>3
<1>12. \A i \in 1 .. k - 1 : VarLen(n)[i] >= 128
  BY SMT, <1>3, <1>9
<1>13. k > 1 => VarLen(n)[k - 1] % 128 = (n \div 128) % 128
  BY SMT, <1>3, <1>8, <1>9
<1>14. k > 2 => VarLen(n)[k - 2] % 128 = (n \div 16384) % 128
  BY SMT, <1>3, <1>8, <1>9
<1>15. k > 3 => VarLen(n)[k - 3] % 128 = (n \div 2097152) % 128
  BY SMT, <1>3, <1>8, <1>9
<1> QED
  BY SMT, <1>2, <1>3, <1>10, <1>11, <1>12, <1>13, <1>14, <1>15
(* The reader gets the delta time back from its bytes.                     *)
LEMMA DeltaTimeIs ==
  ASSUME NEW n \in Times, NEW bytes, NEW p \in Nat \ {0}, Len(bytes) \in Nat,
         p + VarLenBytes(n) - 1 <= Len(bytes),
         \A i \in 1 .. VarLenBytes(n) : bytes[p + i - 1] = VarLen(n)[i]
  PROVE  DeltaTimeAt(bytes, p) = n
<1>1. n \in Nat /\ n < 268435456
  BY SMT, TimesAre
<1>2. PICK k : k = VarLenBytes(n)
  OBVIOUS
<1>3. k = 1 \/ k = 2 \/ k = 3 \/ k = 4
  BY SMT, <1>2, VarLenIs
<1> DEFINE S == {i \in p .. Len(bytes) : bytes[i] < 128}
           last == p + k - 1
<1>4. \A i \in p .. last : i - p + 1 \in 1 .. k /\ bytes[i] = VarLen(n)[i - p + 1]
  <2> SUFFICES ASSUME NEW i \in p .. last
               PROVE  i - p + 1 \in 1 .. k /\ bytes[i] = VarLen(n)[i - p + 1]
    OBVIOUS
  <2>1. i - p + 1 \in 1 .. k /\ p + (i - p + 1) - 1 = i
    BY SMT, <1>3
  <2> QED
    BY <1>2, <2>1
<1>5. First(S) = last
  <2>1. last \in p .. last /\ last - p + 1 = k
    BY SMT, <1>3
  <2>2. bytes[last] = n % 128
    <3>1. bytes[last] = VarLen(n)[k]
      <4> HIDE DEF last
      <4> QED
        BY Zenon, <1>4, <2>1
    <3> QED
      BY SMT, <1>2, <3>1, VarLenIs
  <2>3. last \in S
    BY SMT, <1>1, <1>2, <1>3, <2>2
  <2>4. ASSUME NEW i \in S PROVE last <= i
    <3> SUFFICES ASSUME i < last PROVE FALSE
      BY SMT, <1>3
    <3>1. i \in p .. last /\ i - p + 1 \in 1 .. k - 1
      BY SMT, <1>3
    <3>2. bytes[i] >= 128 /\ bytes[i] \in Nat
      BY SMT, <1>2, <1>4, <3>1, VarLenIs
    <3> QED
      BY SMT, <2>4, <3>2
  <2>5. S \subseteq Nat
    OBVIOUS
  <2> HIDE DEF S, last
  <2> QED
    BY <2>3, <2>4, <2>5, FirstIs
<1> DEFINE Sums(f) == f = [i \in p .. last |->
                           (bytes[i] % 128) + (IF i = p THEN 0 ELSE 128 * f[i - 1])]
           Value == CHOOSE f : Sums(f)
<1>6. DeltaTimeAt(bytes, p) = Value[last]
  <2> DEFINE Digits(m) == CHOOSE f : f = [i \in p .. m |->
               (bytes[i] % 128) + (IF i = p THEN 0 ELSE 128 * f[i - 1])]
  <2>1. DeltaTimeAt(bytes, p) = Digits(First(S))[First(S)]
    BY Zenon DEF DeltaTimeAt
  <2>2. Digits(last) = Value
    BY Zenon
  <2> HIDE DEF Digits, Value, S, last
  <2> QED
    BY Zenon, <1>5, <2>1, <2>2
<1>7. ASSUME NEW i \in p .. last
      PROVE  bytes[i] % 128 \in Nat /\ (last - i = 0 => bytes[i] % 128 = n % 128)
             /\ (last - i = 1 => bytes[i] % 128 = (n \div 128) % 128)
             /\ (last - i = 2 => bytes[i] % 128 = (n \div 16384) % 128)
             /\ (last - i = 3 => bytes[i] % 128 = (n \div 2097152) % 128)
  <2>1. PICK j : j = i - p + 1
    OBVIOUS
  <2>2. /\ j \in 1 .. k /\ bytes[i] = VarLen(n)[j]
        /\ last - i = 0 => j = k
        /\ last - i = 1 => j = k - 1
        /\ last - i = 2 => j = k - 2
        /\ last - i = 3 => j = k - 3
    <3>1. j \in 1 .. k /\ bytes[i] = VarLen(n)[j]
      BY Zenon, <1>4, <2>1
    <3>2. j = i - p + 1 /\ i \in Int /\ last = p + k - 1
      BY SMT, <2>1
    <3>3. /\ last - i = 0 => j = k
          /\ last - i = 1 => j = k - 1
          /\ last - i = 2 => j = k - 2
          /\ last - i = 3 => j = k - 3
      <4> HIDE DEF last
      <4> QED
        BY ONLY <1>3, <3>2, p \in Nat
    <3> QED
      BY Zenon, <3>1, <3>3
  <2>3. VarLen(n)[j] \in Nat
    BY SMT, <1>2, <2>2, VarLenIs
  <2>4. (n % 128) % 128 = n % 128
    BY SMT, <1>1
  <2>5. last - i = 0 => bytes[i] % 128 = n % 128
    BY SMT, <1>2, <2>2, <2>4, VarLenIs
  <2>6. last - i = 1 => bytes[i] % 128 = (n \div 128) % 128
    <3>1. last - i = 1 => j = k - 1 /\ k > 1
      BY SMT, <1>3, <2>2
    <3>2. k > 1 => VarLen(n)[k - 1] % 128 = (n \div 128) % 128
      BY SMT, <1>2, VarLenIs
    <3> QED
      BY SMT, <2>2, <3>1, <3>2
  <2>7. last - i = 2 => bytes[i] % 128 = (n \div 16384) % 128
    <3>1. last - i = 2 => j = k - 2 /\ k > 2
      BY SMT, <1>3, <2>2
    <3>2. k > 2 => VarLen(n)[k - 2] % 128 = (n \div 16384) % 128
      BY SMT, <1>2, VarLenIs
    <3> QED
      BY SMT, <2>2, <3>1, <3>2
  <2>8. last - i = 3 => bytes[i] % 128 = (n \div 2097152) % 128
    <3>1. last - i = 3 => j = k - 3 /\ k > 3
      BY SMT, <1>3, <2>2
    <3>2. k > 3 => VarLen(n)[k - 3] % 128 = (n \div 2097152) % 128
      BY SMT, <1>2, VarLenIs
    <3> QED
      BY SMT, <2>2, <3>1, <3>2
  <2>9. bytes[i] % 128 \in Nat
    BY SMT, <2>2, <2>3
  <2> QED
    BY <2>5, <2>6, <2>7, <2>8, <2>9
<1> DEFINE B == [i \in p .. last |-> bytes[i] % 128]
           Step(f) == [i \in p .. last |-> B[i] + (IF i = p THEN 0 ELSE 128 * f[i - 1])]
           Second == B[p + 1] + 128 * B[p]
           Third == B[p + 2] + 128 * Second
           W == [i \in p .. last |->
                   IF i = p THEN B[p] ELSE IF i = p + 1 THEN Second
                   ELSE IF i = p + 2 THEN Third ELSE B[p + 3] + 128 * Third]
<1>8. \A f : Sums(f) <=> f = Step(f)
  BY Zenon DEF Sums, Step, B
<1>9. B \in [p .. last -> Nat]
  BY SMT, <1>7 DEF B
<1>10. p \in Nat /\ last = p + k - 1
  OBVIOUS
<1>11. \A i \in p .. last : i = p \/ i = p + 1 \/ i = p + 2 \/ i = p + 3
  BY SMT, <1>3, <1>10
<1>12. Sums(W)
  <2> HIDE DEF B, last, Sums
  <2>1. ASSUME NEW i \in p .. last
        PROVE  W[i] = B[i] + (IF i = p THEN 0 ELSE 128 * W[i - 1])
    <3>1. i \in Int /\ p \in Nat /\ B[i] \in Nat
      BY SMT, <1>9, <1>10, <1>3
    <3>2. CASE i = p
      BY SMT, <3>1, <3>2
    <3>3. CASE i # p
      <4>1. i - 1 \in p .. last
        BY SMT, <1>3, <1>10, <3>3
      <4>2. CASE i = p + 1
        BY SMT, <3>1, <4>1, <4>2
      <4>3. CASE i = p + 2
        BY SMT, <3>1, <4>1, <4>3
      <4>4. CASE i = p + 3
        BY SMT, <3>1, <4>1, <4>4
      <4> QED
        BY <1>11, <3>3, <4>2, <4>3, <4>4
    <3> QED
      BY <3>2, <3>3
  <2>2. W = Step(W)
    <3>1. W = [i \in p .. last |-> W[i]]
      BY DEF W
    <3> HIDE DEF W
    <3> QED
      BY Zenon, <2>1, <3>1 DEF Step
  <2> QED
    BY <1>8, <2>2
<1>13. Sums(Value)
  <2> HIDE DEF Sums, W
  <2> QED
    BY Zenon, <1>12
<1>14. \A i \in p .. last : Value[i] = B[i] + (IF i = p THEN 0 ELSE 128 * Value[i - 1])
  <2> HIDE DEF Value, B, last, Sums
  <2>1. Value = Step(Value)
    BY <1>8, <1>13
  <2> QED
    BY Zenon, <2>1
<1>15. n % 128 = B[last]
  BY SMT, <1>3, <1>7, <1>9
<1>16. k > 1 => (n \div 128) % 128 = B[last - 1]
  <2>1. k > 1 => last - 1 \in p .. last /\ last - (last - 1) = 1
    BY SMT, <1>3
  <2>2. PICK i : i = last - 1
    OBVIOUS
  <2>3. k > 1 => B[i] = bytes[i] % 128
    BY SMT, <2>1, <2>2 DEF B
  <2> QED
    BY SMT, <1>7, <2>1, <2>2, <2>3
<1>17. k > 2 => (n \div 16384) % 128 = B[last - 2]
  <2>1. k > 2 => last - 2 \in p .. last /\ last - (last - 2) = 2
    BY SMT, <1>3
  <2>2. PICK i : i = last - 2
    OBVIOUS
  <2>3. k > 2 => B[i] = bytes[i] % 128
    BY SMT, <2>1, <2>2 DEF B
  <2> QED
    BY SMT, <1>7, <2>1, <2>2, <2>3
<1>18. k > 3 => (n \div 2097152) % 128 = B[last - 3]
  <2>1. k > 3 => last - 3 \in p .. last /\ last - (last - 3) = 3
    BY SMT, <1>3
  <2>2. PICK i : i = last - 3
    OBVIOUS
  <2>3. k > 3 => B[i] = bytes[i] % 128
    BY SMT, <2>1, <2>2 DEF B
  <2> QED
    BY SMT, <1>7, <2>1, <2>2, <2>3
<1>20. (k = 1 => n < 128) /\ (k = 2 => n < 16384) /\ (k = 3 => n < 2097152)
  BY SMT, <1>1, <1>2, VarLenBytesIs
<1>21. n = (n % 128) + 128 * (((n \div 128) % 128) + 128 * (((n \div 16384) % 128)
             + 128 * ((n \div 2097152) % 128)))
  BY SMT, <1>1
<1>19. Value[last] = n
  <2> HIDE DEF Value, B, last, Sums
  <2>1. CASE k = 1
    <3>1. last = p /\ p \in p .. last /\ n < 128
      BY SMT, <1>10, <1>20, <2>1
    <3>2. Value[p] = B[p] + 0 /\ B[p] \in Nat
      BY SMT, <1>9, <1>14, <3>1
    <3> QED
      BY SMT, <1>1, <1>15, <3>1, <3>2
  <2>2. CASE k = 2
    <3>1. last = p + 1 /\ p \in p .. last /\ p + 1 \in p .. last /\ n < 16384 /\ (p + 1) - 1 = p
      BY SMT, <1>10, <1>20, <2>2
    <3>2. Value[p] = B[p] + 0 /\ B[p] \in Nat /\ B[p + 1] \in Nat
      BY SMT, <1>9, <1>14, <3>1
    <3>3. Value[p + 1] = B[p + 1] + 128 * Value[p]
      BY SMT, <1>10, <1>14, <3>1
    <3>4. B[p + 1] = n % 128 /\ B[p] = (n \div 128) % 128
      BY SMT, <1>10, <1>15, <1>16, <2>2, <3>1
    <3> QED
      BY SMT, <1>1, <3>1, <3>2, <3>3, <3>4
  <2>3. CASE k = 3
    <3>1. /\ last = p + 2 /\ p \in p .. last /\ p + 1 \in p .. last /\ p + 2 \in p .. last
          /\ n < 2097152 /\ (p + 1) - 1 = p /\ (p + 2) - 1 = p + 1 /\ p + 1 # p /\ p + 2 # p
          /\ last - 1 = p + 1 /\ last - 2 = p
      BY SMT, <1>10, <1>20, <2>3
    <3>2. Value[p] = B[p] + 0 /\ B[p] \in Nat /\ B[p + 1] \in Nat /\ B[p + 2] \in Nat
      BY SMT, <1>9, <1>14, <3>1
    <3>3. Value[p + 1] = B[p + 1] + 128 * Value[p] /\ Value[p + 2] = B[p + 2] + 128 * Value[p + 1]
      BY <1>14, <3>1
    <3>4. /\ B[p + 2] = n % 128 /\ B[p + 1] = (n \div 128) % 128 /\ B[p] = (n \div 16384) % 128
      BY SMT, <1>15, <1>16, <1>17, <2>3, <3>1
    <3> QED
      BY SMT, <1>1, <3>1, <3>2, <3>3, <3>4
  <2>4. CASE k = 4
    <3>1. /\ last = p + 3 /\ p \in p .. last /\ p + 1 \in p .. last /\ p + 2 \in p .. last
          /\ p + 3 \in p .. last
          /\ (p + 1) - 1 = p /\ (p + 2) - 1 = p + 1 /\ (p + 3) - 1 = p + 2
          /\ p + 1 # p /\ p + 2 # p /\ p + 3 # p
          /\ last - 1 = p + 2 /\ last - 2 = p + 1 /\ last - 3 = p
      BY SMT, <1>10, <2>4
    <3>2. /\ Value[p] = B[p] + 0 /\ B[p] \in Nat /\ B[p + 1] \in Nat /\ B[p + 2] \in Nat
          /\ B[p + 3] \in Nat
      BY SMT, <1>9, <1>14, <3>1
    <3>3. /\ Value[p + 1] = B[p + 1] + 128 * Value[p] /\ Value[p + 2] = B[p + 2] + 128 * Value[p + 1]
          /\ Value[p + 3] = B[p + 3] + 128 * Value[p + 2]
      BY <1>14, <3>1
    <3>4. /\ B[p + 3] = n % 128 /\ B[p + 2] = (n \div 128) % 128
          /\ B[p + 1] = (n \div 16384) % 128 /\ B[p] = (n \div 2097152) % 128
      BY SMT, <1>15, <1>16, <1>17, <1>18, <2>4, <3>1
    <3>5. Value[p + 3] = B[p + 3] + 128 * (B[p + 2] + 128 * (B[p + 1] + 128 * B[p]))
      BY SMT, <3>2, <3>3
    <3> QED
      BY SMT, <1>21, <2>4, <3>1, <3>4, <3>5, <1>10
  <2> QED
    BY <1>3, <2>1, <2>2, <2>3, <2>4
<1> QED
  BY <1>6, <1>19

-----------------------------------------------------------------------------
(* The saved events. In a row in time order an insertion point divides the *)
(* events up to a column from the later ones.                              *)
InTimeOrder(l) == \A i, j \in DOMAIN l : i <= j => l[i].col <= l[j].col

LEMMA PointIs ==
  ASSUME NEW l \in Seq(Event), InTimeOrder(l), NEW c \in Int
  PROVE  /\ InsertionPoint(l, c) \in 0 .. Len(l)
         /\ \A i \in DOMAIN l : i <= InsertionPoint(l, c) <=> l[i].col <= c
<1> DEFINE S == {i \in DOMAIN l : l[i].col <= c}
<1>1. DOMAIN l = 1 .. Len(l) /\ Len(l) \in Nat /\ \A i \in DOMAIN l : l[i].col \in Nat
  BY EventsOfRow
<1>2. InsertionPoint(l, c) = Final(S)
  BY DEF InsertionPoint
<1>3. CASE S = {}
  BY <1>1, <1>2, <1>3 DEF Final
<1>4. CASE S # {}
  <2>1. S \subseteq 0 .. Len(l)
    BY <1>1
  <2>2. Max(S) \in S /\ \A k \in S : k <= Max(S)
    BY <1>1, <1>4, <2>1, GreatestBelow
  <2>3. PICK m : m = Max(S)
    OBVIOUS
  <2>4. m \in DOMAIN l /\ l[m].col <= c /\ Final(S) = m
    BY <1>4, <2>2, <2>3 DEF Final
  <2>5. ASSUME NEW i \in DOMAIN l PROVE i <= m <=> l[i].col <= c
    <3>1. i <= m => l[i].col <= l[m].col
      BY <2>4 DEF InTimeOrder
    <3>2. l[i].col <= c => i <= m
      BY <2>2, <2>3
    <3> QED
      BY <1>1, <2>4, <3>1, <3>2
  <2> QED
    <3>1. m \in 0 .. Len(l) /\ InsertionPoint(l, c) = m
      BY <1>1, <1>2, <2>4
    <3> QED
      BY <2>5, <3>1
<1> QED
  BY <1>3, <1>4

(* The run of a column lies between two insertion points.                  *)
LEMMA RunAtIs ==
  ASSUME NEW l \in Seq(Event), InTimeOrder(l), NEW c \in Nat
  PROVE  /\ RunAt(l, c) = SubSeq(l, InsertionPoint(l, c - 1) + 1, InsertionPoint(l, c))
         /\ InsertionPoint(l, c - 1) \in 0 .. InsertionPoint(l, c)
<1>1. DOMAIN l = 1 .. Len(l) /\ Len(l) \in Nat /\ \A i \in DOMAIN l : l[i].col \in Nat
  BY EventsOfRow
<1>2. c - 1 \in Int /\ c \in Int
  OBVIOUS
<1>3. PICK a : a = InsertionPoint(l, c - 1)
  OBVIOUS
<1>4. PICK b : b = InsertionPoint(l, c)
  OBVIOUS
<1>5. a \in 0 .. Len(l) /\ \A i \in DOMAIN l : i <= a <=> l[i].col <= c - 1
  BY <1>2, <1>3, PointIs
<1>6. b \in 0 .. Len(l) /\ \A i \in DOMAIN l : i <= b <=> l[i].col <= c
  BY <1>2, <1>4, PointIs
<1>7. a <= b
  <2> SUFFICES ASSUME b < a PROVE FALSE
    BY <1>5, <1>6
  <2>1. a \in DOMAIN l /\ l[a].col <= c - 1 /\ ~(l[a].col <= c)
    BY <1>1, <1>5, <1>6
  <2> QED
    BY <1>1, <2>1
<1> DEFINE I == {k \in DOMAIN l : l[k].col >= c}
           i == First(I)
           J == {k \in DOMAIN l : i # 0 /\ k >= i /\ \A m \in i .. k : l[m].col = c}
           j == Final(J)
<1>8. RunAt(l, c) = IF j = 0 THEN <<>> ELSE SubSeq(l, i, j)
  BY Zenon DEF RunAt
<1>9. \A k \in DOMAIN l : k \in I <=> k > a
  BY <1>1, <1>5
<1>10. CASE a = b
  <2>1. J = {}
    <3> SUFFICES ASSUME NEW k \in J PROVE FALSE
      OBVIOUS
    <3>1. k \in DOMAIN l /\ i # 0 /\ k >= i /\ \A m \in i .. k : l[m].col = c
      OBVIOUS
    <3>2. I # {}
      BY <3>1 DEF First
    <3>3. i \in I
      <4>1. I \subseteq Nat
        BY <1>1
      <4>2. Min(I) \in I
        BY <3>2, <4>1, LeastNatural
      <4> QED
        BY <3>2, <4>2 DEF First
    <3> HIDE DEF i, I, J
    <3>4. i \in Int /\ k \in i .. k
      BY <1>1, <1>9, <3>1, <3>3 DEF I
    <3>5. l[k].col = c /\ k <= b /\ k > a
      <4>1. l[k].col = c
        BY <3>1, <3>4
      <4>2. ~(l[k].col <= c - 1) /\ l[k].col <= c
        BY <1>1, <3>1, <4>1
      <4> QED
        BY <1>1, <1>5, <1>6, <3>1, <4>1, <4>2
    <3>6. k \in Int /\ a \in Int
      BY <1>1, <1>5, <3>1
    <3> QED
      BY <1>10, <3>5, <3>6
  <2>2. j = 0
    BY <2>1 DEF Final
  <2>3. SubSeq(l, a + 1, b) = <<>>
    BY <1>5, <1>10, SubSeqEmpty
  <2> QED
    <3>1. RunAt(l, c) = SubSeq(l, a + 1, b)
      <4> HIDE DEF j
      <4> QED
        BY Zenon, <1>8, <2>2, <2>3
    <3>2. a \in 0 .. b
      BY <1>5, <1>6, <1>7
    <3> QED
      BY Zenon, <1>3, <1>4, <3>1, <3>2
<1>11. CASE a < b
  <2>1. a + 1 \in I /\ \A k \in I : a + 1 <= k
    BY <1>1, <1>5, <1>6, <1>9, <1>11
  <2>2. i = a + 1
    <3>1. I \subseteq Nat
      BY <1>1
    <3> HIDE DEF I
    <3> QED
      BY <2>1, <3>1, FirstIs
  <2> HIDE DEF i
  <2>3. J = a + 1 .. b
    <3>1. ASSUME NEW k \in a + 1 .. b PROVE k \in J
      <4>1. k \in DOMAIN l /\ k >= i /\ i # 0
        BY <1>1, <1>5, <1>6, <2>2
      <4>2. \A m \in i .. k : l[m].col = c
        <5> SUFFICES ASSUME NEW m \in i .. k PROVE l[m].col = c
          OBVIOUS
        <5>1. m \in DOMAIN l /\ m <= b /\ ~(m <= a)
          BY <1>1, <1>5, <1>6, <2>2
        <5>2. l[m].col <= c /\ ~(l[m].col <= c - 1) /\ l[m].col \in Nat
          BY <1>1, <1>5, <1>6, <5>1
        <5> QED
          BY <5>2
      <4> QED
        BY <4>1, <4>2
    <3>2. ASSUME NEW k \in J PROVE k \in a + 1 .. b
      <4>1. k \in DOMAIN l /\ k >= a + 1 /\ \A m \in a + 1 .. k : l[m].col = c
        BY <2>2
      <4>2. k \in a + 1 .. k
        BY <1>1, <1>5, <4>1
      <4>3. l[k].col <= c
        BY <4>1, <4>2
      <4> QED
        BY <1>1, <1>5, <1>6, <4>1, <4>3
    <3> QED
      BY <3>1, <3>2
  <2>4. j = b
    <3> HIDE DEF J
    <3>1. J \subseteq 0 .. Len(l) /\ J # {} /\ b \in J
      BY <1>5, <1>6, <1>11, <2>3
    <3>2. Max(J) \in J /\ b <= Max(J)
      BY <1>1, <3>1, GreatestBelow
    <3>3. Max(J) = b
      BY <1>5, <1>6, <2>3, <3>2
    <3> QED
      BY <3>1, <3>3 DEF Final
  <2>5. RunAt(l, c) = SubSeq(l, a + 1, b)
    <3> HIDE DEF j
    <3> QED
      BY <1>5, <1>6, <1>8, <1>11, <2>2, <2>4
  <2> QED
    BY <1>3, <1>4, <1>5, <1>6, <1>7, <2>5
<1> QED
  BY <1>5, <1>6, <1>7, <1>10, <1>11

-----------------------------------------------------------------------------
(* A set with 0 and the successor of each of its numbers has all numbers   *)
(* up to n.                                                                *)
LEMMA UpTo ==
  ASSUME NEW n \in Nat, NEW S, 0 \in S, \A k \in 0 .. n - 1 : k \in S => k + 1 \in S
  PROVE  \A k \in 0 .. n : k \in S
<1> DEFINE missing == {k \in 0 .. n : k \notin S}
<1> SUFFICES missing = {}
  OBVIOUS
<1> SUFFICES ASSUME missing # {} PROVE FALSE
  OBVIOUS
<1>1. missing \subseteq Nat
  OBVIOUS
<1>2. PICK m \in missing : \A k \in missing : m <= k
  BY <1>1, LeastNatural
<1>3. m - 1 \in 0 .. n - 1 /\ m - 1 + 1 = m
  BY <1>2
<1>4. m - 1 \in S
  BY <1>2, <1>3
<1> QED
  BY <1>2, <1>3, <1>4

(* FlattenSeq is the last of the sequences that append one after another.  *)
LEMMA FlattenByPrefixes ==
  ASSUME NEW S, NEW ss \in Seq(Seq(S)), ss # <<>>
  PROVE  \E f : /\ f[1] = ss[1]
                /\ \A i \in 1 .. Len(ss) - 1 : f[i + 1] = f[i] \o ss[i + 1]
                /\ FlattenSeq(ss) = f[Len(ss)]
<1> DEFINE Joins(f, n) == f = [i \in 1 .. n |-> IF i = 1 THEN ss[i] ELSE f[i - 1] \o ss[i]]
           able == {n \in 0 .. Len(ss) : \E f : Joins(f, n)}
<1>1. Len(ss) \in Nat /\ Len(ss) > 0
  OBVIOUS
<1>2. 0 \in able
  <2>1. \E f : Joins(f, 0)
    <3>1. Joins(<<>>, 0)
      OBVIOUS
    <3> QED
      BY <3>1
  <2>2. 0 \in 0 .. Len(ss)
    BY <1>1
  <2> HIDE DEF Joins
  <2> QED
    BY <2>1, <2>2
<1>3. ASSUME NEW k \in 0 .. Len(ss) - 1, k \in able PROVE k + 1 \in able
  <2>1. PICK f : Joins(f, k)
    BY <1>3
  <2>a. DOMAIN f = 1 .. k /\ \A i \in 1 .. k : f[i] = IF i = 1 THEN ss[i] ELSE f[i - 1] \o ss[i]
    BY <2>1
  <2> DEFINE next == IF k = 0 THEN ss[1] ELSE f[k] \o ss[k + 1]
             g == [i \in 1 .. k + 1 |-> IF i <= k THEN f[i] ELSE next]
  <2>2. Joins(g, k + 1)
    <3>1. DOMAIN g = 1 .. k + 1
      OBVIOUS
    <3>2. ASSUME NEW i \in 1 .. k + 1
          PROVE  g[i] = IF i = 1 THEN ss[i] ELSE g[i - 1] \o ss[i]
      <4>1. CASE i <= k
        <5>1. i \in 1 .. k /\ (i # 1 => i - 1 \in 1 .. k /\ i - 1 \in 1 .. k + 1 /\ i - 1 <= k)
          BY <4>1
        <5>2. g[i] = f[i] /\ (i # 1 => g[i - 1] = f[i - 1])
          BY <5>1
        <5> HIDE DEF g
        <5> QED
          BY <5>1, <5>2, <2>a
      <4>2. CASE i = k + 1 /\ k = 0
        BY <4>2
      <4>3. CASE i = k + 1 /\ k # 0
        BY <4>3
      <4> QED
        BY <4>1, <4>2, <4>3
    <3>3. g = [i \in 1 .. k + 1 |-> g[i]]
      BY Zenon
    <3>4. g = [i \in 1 .. k + 1 |-> IF i = 1 THEN ss[i] ELSE g[i - 1] \o ss[i]]
      <4> HIDE DEF g
      <4> QED
        BY <3>2, <3>3
    <3> QED
      BY <3>4
  <2>3. \E h : Joins(h, k + 1)
    BY <2>2
  <2>4. k + 1 \in 0 .. Len(ss)
    BY <1>1
  <2> HIDE DEF Joins
  <2> QED
    BY <2>3, <2>4
<1>4. Len(ss) \in able
  <2> HIDE DEF able
  <2>1. Len(ss) \in Nat /\ Len(ss) \in 0 .. Len(ss)
    BY <1>1
  <2>2. \A k \in 0 .. Len(ss) : k \in able
    BY <2>1, <1>2, <1>3, UpTo
  <2> QED
    BY <2>1, <2>2
<1>5. PICK f : Joins(f, Len(ss))
  BY <1>4
<1> DEFINE chosen == CHOOSE h : Joins(h, Len(ss))
<1>6. Joins(chosen, Len(ss))
  BY <1>5
<1>7. FlattenSeq(ss) = chosen[Len(ss)]
  BY <1>1 DEF FlattenSeq
<1>8. chosen[1] = ss[1]
  <2>1. 1 \in 1 .. Len(ss)
    BY <1>1
  <2>2. \A k \in 1 .. Len(ss) : chosen[k] = IF k = 1 THEN ss[k] ELSE chosen[k - 1] \o ss[k]
    BY <1>6
  <2> HIDE DEF chosen
  <2> QED
    BY <2>1, <2>2, Zenon
<1>9. ASSUME NEW i \in 1 .. Len(ss) - 1 PROVE chosen[i + 1] = chosen[i] \o ss[i + 1]
  <2>1. i + 1 \in 1 .. Len(ss) /\ i + 1 # 1 /\ (i + 1) - 1 = i
    BY <1>1
  <2>2. \A k \in 1 .. Len(ss) : chosen[k] = IF k = 1 THEN ss[k] ELSE chosen[k - 1] \o ss[k]
    BY <1>6
  <2> HIDE DEF chosen
  <2>3. chosen[i + 1] = IF i + 1 = 1 THEN ss[i + 1] ELSE chosen[(i + 1) - 1] \o ss[i + 1]
    BY <2>1, <2>2, Zenon
  <2> QED
    BY <2>1, <2>3
<1> HIDE DEF chosen
<1> QED
  BY <1>7, <1>8, <1>9

(* What holds of the empty sequence, and still holds when the next of the  *)
(* sequences is put behind, holds of FlattenSeq.                           *)
LEMMA FlattenReaches ==
  ASSUME NEW S, NEW ss \in Seq(Seq(S)), NEW G, <<0, <<>> >> \in G,
         \A k \in 0 .. Len(ss) - 1 : \A s \in Seq(S) :
           <<k, s>> \in G => <<k + 1, s \o ss[k + 1]>> \in G
  PROVE  FlattenSeq(ss) \in Seq(S) /\ <<Len(ss), FlattenSeq(ss)>> \in G
<1>1. CASE ss = <<>>
  <2>1. FlattenSeq(ss) = <<>> /\ Len(ss) = 0
    BY <1>1 DEF FlattenSeq
  <2> QED
    BY <2>1
<1>2. CASE ss # <<>>
  <2>1. Len(ss) \in Nat /\ Len(ss) > 0 /\ \A i \in 1 .. Len(ss) : ss[i] \in Seq(S)
    BY <1>2
  <2>2. PICK f : /\ f[1] = ss[1]
                 /\ \A i \in 1 .. Len(ss) - 1 : f[i + 1] = f[i] \o ss[i + 1]
                 /\ FlattenSeq(ss) = f[Len(ss)]
    BY <1>2, FlattenByPrefixes, Zenon
  <2> DEFINE T == {k \in Nat : k = 0 \/ (f[k] \in Seq(S) /\ <<k, f[k]>> \in G)}
  <2>3. 0 \in T
    OBVIOUS
  <2>4. ASSUME NEW k \in 0 .. Len(ss) - 1, k \in T PROVE k + 1 \in T
    <3>1. k + 1 \in 1 .. Len(ss) /\ k + 1 \in Nat /\ k + 1 # 0
      BY <2>1
    <3>2. \E s \in Seq(S) : <<k, s>> \in G /\ f[k + 1] = s \o ss[k + 1]
      <4>1. CASE k = 0
        <5>1. ss[1] \in Seq(S)
          BY <2>1
        <5>2. <<>> \o ss[1] = ss[1] /\ <<>> \in Seq(S)
          BY <5>1, ConcatEmptySeq
        <5>3. f[k + 1] = <<>> \o ss[k + 1]
          BY <2>2, <4>1, <5>2
        <5> QED
          BY <4>1, <5>2, <5>3
      <4>2. CASE k # 0
        <5>1. k \in 1 .. Len(ss) - 1
          BY <2>1, <4>2
        <5> QED
          BY <2>2, <2>4, <4>2, <5>1
      <4> QED
        BY <4>1, <4>2
    <3>3. PICK s \in Seq(S) : <<k, s>> \in G /\ f[k + 1] = s \o ss[k + 1]
      BY <3>2
    <3>4. ss[k + 1] \in Seq(S)
      BY <2>1, <3>1
    <3>5. f[k + 1] \in Seq(S)
      BY <3>3, <3>4, ConcatProperties
    <3>6. <<k + 1, f[k + 1]>> \in G
      BY <3>3
    <3> QED
      BY <3>1, <3>5, <3>6
  <2>5. \A k \in 0 .. Len(ss) : k \in T
    <3> HIDE DEF T
    <3> QED
      BY <2>1, <2>3, <2>4, UpTo
  <2>6. Len(ss) \in T /\ Len(ss) # 0
    BY <2>1, <2>5
  <2> QED
    BY <2>2, <2>6
<1> QED
  BY <1>1, <1>2

-----------------------------------------------------------------------------
(* Events taken from the front of the rows: h tells how many of each row   *)
(* are among the first m.                                                  *)
SavedEvent == [row : Rows, event : Event]

FromTheFronts(ls, E, h) ==
  /\ h \in [0 .. Len(E) -> [Rows -> Nat]]
  /\ h[0] = [r \in Rows |-> 0]
  /\ \A m \in 1 .. Len(E) :
       /\ h[m] = [h[m - 1] EXCEPT ![E[m].row] = @ + 1]
       /\ h[m][E[m].row] \in DOMAIN ls[E[m].row]
       /\ E[m].event = ls[E[m].row][h[m][E[m].row]]

(* The columns never decrease, and none is beyond c.                       *)
InFileOrder(E, c) ==
  /\ \A m \in 1 .. Len(E) : E[m].event.col <= c
  /\ \A m \in 1 .. Len(E) - 1 : E[m].event.col <= E[m + 1].event.col

(* E has the first done[r] events of each row r, in file order.            *)
SavedUpTo(ls, E, done, c) ==
  /\ E \in Seq(SavedEvent)
  /\ InFileOrder(E, c)
  /\ \E h : FromTheFronts(ls, E, h) /\ h[Len(E)] = done

(* The next event of a row, at column c, may follow.                       *)
LEMMA SavedAppend ==
  ASSUME NEW ls \in [Rows -> Seq(Event)], NEW E, NEW done, NEW c \in Nat, SavedUpTo(ls, E, done, c),
         NEW r \in Rows, done[r] + 1 \in DOMAIN ls[r], ls[r][done[r] + 1].col = c,
         NEW e, e = [row |-> r, event |-> ls[r][done[r] + 1]]
  PROVE  SavedUpTo(ls, Append(E, e), [done EXCEPT ![r] = @ + 1], c)
<1>1. PICK h : FromTheFronts(ls, E, h) /\ h[Len(E)] = done
  BY DEF SavedUpTo
<1>2. E \in Seq(SavedEvent) /\ InFileOrder(E, c) /\ Len(E) \in Nat
  BY DEF SavedUpTo
<1>3. e \in SavedEvent /\ e.row = r /\ e.event = ls[r][done[r] + 1] /\ e.event.col = c
  <2>1. ls[r][done[r] + 1] \in Event
    BY EventsOfRow
  <2> QED
    BY <2>1 DEF SavedEvent
<1>4. done \in [Rows -> Nat]
  <2>1. h \in [0 .. Len(E) -> [Rows -> Nat]] /\ Len(E) \in 0 .. Len(E)
    BY <1>1, <1>2 DEF FromTheFronts
  <2> QED
    BY <1>1, <2>1
<1> DEFINE next == [done EXCEPT ![r] = @ + 1]
           F == Append(E, e)
           g == [m \in 0 .. Len(E) + 1 |-> IF m <= Len(E) THEN h[m] ELSE next]
<1>5. /\ F \in Seq(SavedEvent) /\ Len(F) = Len(E) + 1 /\ F[Len(E) + 1] = e
      /\ \A m \in 1 .. Len(E) : F[m] = E[m]
  BY <1>2, <1>3, AppendProperties
<1>6. next \in [Rows -> Nat] /\ next[r] = done[r] + 1
  BY <1>4
<1>7. /\ g \in [0 .. Len(E) + 1 -> [Rows -> Nat]] /\ g[Len(E) + 1] = next
      /\ \A m \in 0 .. Len(E) : g[m] = h[m]
  <2>1. \A m \in 0 .. Len(E) : h[m] \in [Rows -> Nat]
    BY <1>1 DEF FromTheFronts
  <2> HIDE DEF next
  <2> QED
    BY <1>2, <1>6, <2>1
<1> HIDE DEF g, F
<1>8. FromTheFronts(ls, F, g)
  <2>1. g \in [0 .. Len(F) -> [Rows -> Nat]] /\ g[0] = [x \in Rows |-> 0]
    BY <1>1, <1>2, <1>5, <1>7 DEF FromTheFronts
  <2>2. ASSUME NEW m \in 1 .. Len(F)
        PROVE  /\ g[m] = [g[m - 1] EXCEPT ![F[m].row] = @ + 1]
               /\ g[m][F[m].row] \in DOMAIN ls[F[m].row]
               /\ F[m].event = ls[F[m].row][g[m][F[m].row]]
    <3>1. CASE m <= Len(E)
      <4>1. m \in 1 .. Len(E) /\ m \in 0 .. Len(E) /\ m - 1 \in 0 .. Len(E)
        BY <1>2, <1>5, <3>1
      <4>2. F[m] = E[m] /\ g[m] = h[m] /\ g[m - 1] = h[m - 1]
        BY <1>5, <1>7, <4>1
      <4> QED
        BY <1>1, <4>1, <4>2 DEF FromTheFronts
    <3>2. CASE ~(m <= Len(E))
      <4>1. m = Len(E) + 1 /\ m - 1 = Len(E) /\ Len(E) \in 0 .. Len(E)
        BY <1>2, <1>5, <3>2
      <4>2. F[m] = e /\ g[m] = next /\ g[m - 1] = done
        BY <1>1, <1>5, <1>7, <4>1
      <4> QED
        BY <1>3, <1>6, <4>2
    <3> QED
      BY <3>1, <3>2
  <2> QED
    BY <2>1, <2>2 DEF FromTheFronts
<1>9. InFileOrder(F, c)
  <2>1. ASSUME NEW m \in 1 .. Len(F) PROVE F[m].event.col <= c
    <3>1. m \in 1 .. Len(E) \/ m = Len(E) + 1
      BY <1>2, <1>5
    <3> QED
      BY <1>2, <1>3, <1>5, <3>1 DEF InFileOrder
  <2>2. ASSUME NEW m \in 1 .. Len(F) - 1 PROVE F[m].event.col <= F[m + 1].event.col
    <3>1. m \in 1 .. Len(E) /\ F[m] = E[m]
      BY <1>2, <1>5
    <3>2. CASE m = Len(E)
      BY <1>2, <1>3, <1>5, <3>1, <3>2 DEF InFileOrder
    <3>3. CASE m # Len(E)
      <4>1. m \in 1 .. Len(E) - 1 /\ m + 1 \in 1 .. Len(E)
        BY <1>2, <3>1, <3>3
      <4> QED
        BY <1>2, <1>5, <3>1, <4>1 DEF InFileOrder
    <3> QED
      BY <3>2, <3>3
  <2> QED
    BY <2>1, <2>2 DEF InFileOrder
<1>10. SavedUpTo(ls, F, next, c)
  <2> HIDE DEF next
  <2> QED
    BY <1>5, <1>7, <1>8, <1>9 DEF SavedUpTo
<1> QED
  BY <1>10 DEF F

LEMMA AppendBehind ==
  ASSUME NEW S, NEW s \in Seq(S), NEW t \in Seq(S), NEW x \in S
  PROVE  s \o Append(t, x) = Append(s \o t, x)
  OBVIOUS

(* Events that follow one another in a row, with their row.                *)
Stretch(ls, r, i, n) == [j \in 1 .. n |-> [row |-> r, event |-> ls[r][i + j]]]

AllAt(ls, r, i, n, c) == \A j \in 1 .. n : ls[r][i + j].col = c

(* So may the events of a row that are all at column c.                    *)
LEMMA SavedStretch ==
  ASSUME NEW ls \in [Rows -> Seq(Event)], NEW E, NEW done, NEW c \in Nat, SavedUpTo(ls, E, done, c),
         NEW r \in Rows, NEW i \in Nat, i = done[r], NEW n \in Nat, i + n <= Len(ls[r]),
         AllAt(ls, r, i, n, c)
  PROVE  SavedUpTo(ls, E \o Stretch(ls, r, i, n), [done EXCEPT ![r] = i + n], c)
<1>1. /\ E \in Seq(SavedEvent) /\ Len(E) \in Nat /\ ls[r] \in Seq(Event)
      /\ DOMAIN ls[r] = 1 .. Len(ls[r]) /\ Len(ls[r]) \in Nat
  BY DEF SavedUpTo
<1>2. done \in [Rows -> Nat]
  <2>1. PICK h : FromTheFronts(ls, E, h) /\ h[Len(E)] = done
    BY DEF SavedUpTo
  <2>2. h \in [0 .. Len(E) -> [Rows -> Nat]] /\ Len(E) \in 0 .. Len(E)
    BY <1>1, <2>1 DEF FromTheFronts
  <2> QED
    BY <2>1, <2>2
<1>3. ASSUME NEW k \in 0 .. n PROVE Stretch(ls, r, i, k) \in Seq(SavedEvent)
  <2>1. ASSUME NEW j \in 1 .. k PROVE [row |-> r, event |-> ls[r][i + j]] \in SavedEvent
    <3>1. i + j \in DOMAIN ls[r]
      BY <1>1
    <3>2. ls[r][i + j] \in Event
      BY <1>1, <3>1
    <3> QED
      BY <3>2 DEF SavedEvent
  <2> QED
    BY <2>1 DEF Stretch
<1> DEFINE T == {k \in 0 .. n : SavedUpTo(ls, E \o Stretch(ls, r, i, k), [done EXCEPT ![r] = i + k], c)}
<1>4. 0 \in T
  <2>1. Stretch(ls, r, i, 0) = <<>>
    BY DEF Stretch
  <2>2. E \o <<>> = E
    BY <1>1, ConcatEmptySeq
  <2>3. [done EXCEPT ![r] = i + 0] = done
    BY <1>2
  <2>4. SavedUpTo(ls, E \o Stretch(ls, r, i, 0), [done EXCEPT ![r] = i + 0], c)
    BY <2>1, <2>2, <2>3
  <2> QED
    BY <2>4
<1>5. ASSUME NEW k \in 0 .. n - 1, k \in T PROVE k + 1 \in T
  <2> DEFINE D == [done EXCEPT ![r] = i + k]
             e == [row |-> r, event |-> ls[r][i + k + 1]]
             st == Stretch(ls, r, i, k)
  <2>1. SavedUpTo(ls, E \o st, D, c) /\ k \in Nat /\ k + 1 \in 1 .. n /\ k \in 0 .. n /\ k + 1 \in 0 .. n
    BY <1>5
  <2>2. D[r] = i + k /\ D[r] + 1 = i + (k + 1) /\ i + k + 1 = i + (k + 1)
    BY <1>2, <2>1
  <2>3. D[r] + 1 \in DOMAIN ls[r] /\ ls[r][D[r] + 1].col = c
    <3>1. i + (k + 1) \in 1 .. Len(ls[r]) /\ ls[r][i + (k + 1)].col = c
      <4>1. PICK j \in 1 .. n : j = k + 1
        BY <2>1
      <4>2. i + j \in 1 .. Len(ls[r])
        BY <1>1
      <4> QED
        BY Zenon, <4>1, <4>2 DEF AllAt
    <3> HIDE DEF D
    <3> QED
      BY <1>1, <2>2, <3>1
  <2>4. SavedUpTo(ls, Append(E \o st, e), [D EXCEPT ![r] = @ + 1], c)
    <3>1. e = [row |-> r, event |-> ls[r][D[r] + 1]]
      BY <2>2
    <3> HIDE DEF D, e, st
    <3> QED
      BY <2>1, <2>3, <3>1, SavedAppend
  <2>5. [D EXCEPT ![r] = @ + 1] = [done EXCEPT ![r] = i + (k + 1)]
    BY <1>2, <2>2
  <2>6. st \in Seq(SavedEvent) /\ e \in SavedEvent /\ Len(st) = k
    <3>1. i + k + 1 \in DOMAIN ls[r]
      BY <1>1, <2>1
    <3>2. ls[r][i + k + 1] \in Event
      BY <1>1, <3>1
    <3>3. e \in SavedEvent
      BY <3>2 DEF SavedEvent
    <3>4. Len(st) = k
      BY <2>1 DEF Stretch
    <3> QED
      BY <1>3, <2>1, <3>3, <3>4
  <2>7. Stretch(ls, r, i, k + 1) = Append(st, e)
    <3>1. /\ Append(st, e) \in Seq(SavedEvent) /\ Len(Append(st, e)) = k + 1
          /\ \A j \in 1 .. k : Append(st, e)[j] = st[j]
          /\ Append(st, e)[k + 1] = e
      <4> HIDE DEF st, e
      <4> QED
        BY <2>6, AppendProperties
    <3>2. ASSUME NEW j \in 1 .. k + 1 PROVE Append(st, e)[j] = Stretch(ls, r, i, k + 1)[j]
      <4>1. CASE j = k + 1
        BY <2>2, <3>1, <4>1 DEF Stretch
      <4>2. CASE j # k + 1
        <5>1. j \in 1 .. k
          BY <4>2
        <5>2. st[j] = [row |-> r, event |-> ls[r][i + j]]
          BY <5>1 DEF Stretch
        <5>3. Stretch(ls, r, i, k + 1)[j] = [row |-> r, event |-> ls[r][i + j]]
          BY DEF Stretch
        <5> QED
          BY <3>1, <5>1, <5>2, <5>3
      <4> QED
        BY <4>1, <4>2
    <3>3. Stretch(ls, r, i, k + 1) \in Seq(SavedEvent) /\ Len(Stretch(ls, r, i, k + 1)) = k + 1
      <4>1. Len(Stretch(ls, r, i, k + 1)) = k + 1
        BY <2>1 DEF Stretch
      <4> QED
        BY <1>3, <2>1, <4>1
    <3> HIDE DEF st, e
    <3> QED
      BY <3>1, <3>2, <3>3, SeqEqual
  <2>8. E \o Stretch(ls, r, i, k + 1) = Append(E \o st, e)
    <3> HIDE DEF st, e, D, T
    <3>1. E \in Seq(SavedEvent) /\ st \in Seq(SavedEvent) /\ e \in SavedEvent
      BY <1>1, <2>6
    <3>2. E \o Append(st, e) = Append(E \o st, e)
      BY <3>1, AppendBehind
    <3> QED
      BY Zenon, <2>7, <3>2
  <2> QED
    BY <2>1, <2>4, <2>5, <2>8
<1>6. \A k \in 0 .. n : k \in T
  <2> HIDE DEF T
  <2> QED
    BY <1>4, <1>5, UpTo
<1>7. n \in T
  BY <1>6
<1> QED
  BY <1>7

(* The events saved for one row and column, and for one column.            *)
Cell(ls, r, c) ==
  LET run == RunAt(ls[r], c) IN [i \in DOMAIN run |-> [row |-> r, event |-> run[i]]]

AtColumn(ls, c) == FlattenSeq([r \in 1 .. Cardinality(Rows) |-> Cell(ls, r - 1, c)])

(* The writer visits the rows by their numbers.                            *)
RowsNumbered == Rows = 0 .. Cardinality(Rows) - 1

(* A cell holds what lies between two insertion points.                    *)
LEMMA CellIs ==
  ASSUME NEW ls \in [Rows -> Seq(Event)], NEW r \in Rows, InTimeOrder(ls[r]), NEW c \in Nat,
         NEW a, a = InsertionPoint(ls[r], c - 1), NEW b, b = InsertionPoint(ls[r], c)
  PROVE  /\ a \in Nat /\ b - a \in Nat /\ a + (b - a) = b /\ b <= Len(ls[r])
         /\ Cell(ls, r, c) = Stretch(ls, r, a, b - a)
         /\ Cell(ls, r, c) \in Seq(SavedEvent)
         /\ AllAt(ls, r, a, b - a, c)
<1>1. PICK l \in Seq(Event) : l = ls[r]
  OBVIOUS
<1>2. RunAt(l, c) = SubSeq(l, a + 1, b) /\ a \in 0 .. b
  BY <1>1, RunAtIs
<1>3. b \in 0 .. Len(l) /\ \A i \in DOMAIN l : i <= b <=> l[i].col <= c
  <2>1. c \in Int
    OBVIOUS
  <2> QED
    BY <1>1, <2>1, PointIs
<1>4. \A i \in DOMAIN l : i <= a <=> l[i].col <= c - 1
  <2>1. c - 1 \in Int
    OBVIOUS
  <2> QED
    BY <1>1, <2>1, PointIs
<1>5. DOMAIN l = 1 .. Len(l) /\ Len(l) \in Nat /\ \A i \in DOMAIN l : l[i] \in Event /\ l[i].col \in Nat
  BY EventsOfRow
<1>6. PICK n \in Nat : n = b - a
  BY <1>2, <1>3
<1>7. a \in Nat /\ a + n = b /\ b <= Len(l) /\ b \in Nat
  BY <1>2, <1>3, <1>6
<1>8. \A j \in 1 .. n : a + j \in DOMAIN l /\ a + 1 + j - 1 = a + j /\ ~(a + j <= a) /\ a + j <= b
  BY <1>3, <1>5, <1>7
<1>9. \A j \in 1 .. n : l[a + j].col = c
  <2> SUFFICES ASSUME NEW j \in 1 .. n PROVE l[a + j].col = c
    OBVIOUS
  <2>1. a + j \in DOMAIN l /\ l[a + j].col <= c /\ ~(l[a + j].col <= c - 1)
    BY <1>3, <1>4, <1>8
  <2> QED
    BY <1>5, <2>1
<1>10. PICK run : run = RunAt(l, c)
  OBVIOUS
<1>11. DOMAIN run = 1 .. n /\ \A j \in 1 .. n : run[j] = l[a + j] /\ run[j] \in Event
  <2>1. /\ a + 1 \in Int /\ b \in Int /\ b - (a + 1) + 1 = n
        /\ \A i \in a + 1 .. b : l[i] \in Event
    BY <1>5, <1>7
  <2>2. /\ SubSeq(l, a + 1, b) \in Seq(Event)
        /\ Len(SubSeq(l, a + 1, b)) = IF a + 1 <= b THEN b - (a + 1) + 1 ELSE 0
        /\ \A i \in 1 .. b - (a + 1) + 1 : SubSeq(l, a + 1, b)[i] = l[a + 1 + i - 1]
    <3>1. PICK x \in Int : x = a + 1
      BY <2>1
    <3>2. b \in Int /\ \A i \in x .. b : l[i] \in Event
      BY Zenon, <2>1, <3>1
    <3>3. /\ SubSeq(l, x, b) \in Seq(Event)
          /\ Len(SubSeq(l, x, b)) = IF x <= b THEN b - x + 1 ELSE 0
          /\ \A i \in 1 .. b - x + 1 : SubSeq(l, x, b)[i] = l[x + i - 1]
      BY <3>2, SubSeqProperties
    <3> QED
      BY Zenon, <3>1, <3>3
  <2>3. run \in Seq(Event) /\ Len(run) = n /\ \A i \in 1 .. n : run[i] = l[a + 1 + i - 1]
    <3>1. run = SubSeq(l, a + 1, b)
      BY <1>2, <1>10
    <3>2. (IF a + 1 <= b THEN b - (a + 1) + 1 ELSE 0) = n
      BY <1>7
    <3> QED
      BY Zenon, <2>1, <2>2, <3>1, <3>2
  <2> QED
    BY <1>8, <2>3
<1>12. Cell(ls, r, c) = Stretch(ls, r, a, n)
  <2>1. Cell(ls, r, c) = [i \in 1 .. n |-> [row |-> r, event |-> run[i]]]
    BY <1>1, <1>10, <1>11 DEF Cell
  <2>2. \A i \in 1 .. n : run[i] = ls[r][a + i]
    BY <1>1, <1>11
  <2> QED
    BY <2>1, <2>2 DEF Stretch
<1>13. Cell(ls, r, c) \in Seq(SavedEvent)
  <2>1. Cell(ls, r, c) = [i \in 1 .. n |-> [row |-> r, event |-> run[i]]]
    BY <1>1, <1>10, <1>11 DEF Cell
  <2>2. \A i \in 1 .. n : [row |-> r, event |-> run[i]] \in SavedEvent
    BY <1>11 DEF SavedEvent
  <2> QED
    BY <2>1, <2>2
<1>14. AllAt(ls, r, a, n, c)
  BY Zenon, <1>1, <1>9 DEF AllAt
<1> QED
  BY <1>1, <1>6, <1>7, <1>14, <1>12, <1>13

JoinsAssociate(s, t, u) == (s \o t) \o u = s \o (t \o u) /\ t \o u \in Seq(SavedEvent)

LEMMA SavedJoins ==
  ASSUME NEW s \in Seq(SavedEvent), NEW t \in Seq(SavedEvent), NEW u \in Seq(SavedEvent)
  PROVE  JoinsAssociate(s, t, u)
BY DEF JoinsAssociate

LEMMA ColumnTyped ==
  ASSUME RowsNumbered, NEW ls \in [Rows -> Seq(Event)], \A r \in Rows : InTimeOrder(ls[r]),
         NEW c \in Nat
  PROVE  /\ [r \in 1 .. Cardinality(Rows) |-> Cell(ls, r - 1, c)] \in Seq(Seq(SavedEvent))
         /\ Len([r \in 1 .. Cardinality(Rows) |-> Cell(ls, r - 1, c)]) = Cardinality(Rows)
         /\ AtColumn(ls, c) \in Seq(SavedEvent)
<1>1. PICK N \in Nat : N = Cardinality(Rows)
  BY GridAssumption, FS_CardinalityType
<1>2. \A r \in 1 .. N : r - 1 \in Rows
  BY <1>1 DEF RowsNumbered
<1>3. \A r \in 1 .. N : Cell(ls, r - 1, c) \in Seq(SavedEvent)
  BY <1>2, CellIs
<1>4. PICK ss : ss = [r \in 1 .. N |-> Cell(ls, r - 1, c)]
  OBVIOUS
<1>5. ss \in Seq(Seq(SavedEvent)) /\ Len(ss) = N
  BY <1>3, <1>4
<1>6. FlattenSeq(ss) \in Seq(SavedEvent)
  <2> DEFINE G == Nat \X Seq(SavedEvent)
  <2>1. <<0, <<>> >> \in G
    <3>1. 0 \in Nat /\ <<>> \in Seq(SavedEvent)
      OBVIOUS
    <3> QED
      BY <3>1, Zenon
  <2>2. ASSUME NEW k \in 0 .. Len(ss) - 1, NEW s \in Seq(SavedEvent), <<k, s>> \in G
        PROVE  <<k + 1, s \o ss[k + 1]>> \in G
    <3>1. ss[k + 1] \in Seq(SavedEvent) /\ k + 1 \in Nat
      BY <1>5
    <3> QED
      BY <3>1, ConcatProperties
  <2> HIDE DEF G
  <2> QED
    BY <1>5, <2>1, <2>2, FlattenReaches
<1> QED
  BY <1>1, <1>4, <1>5, <1>6 DEF AtColumn

(* Saving a column takes each row on to its next insertion point.          *)
LEMMA ColumnSaved ==
  ASSUME RowsNumbered, NEW ls \in [Rows -> Seq(Event)], \A r \in Rows : InTimeOrder(ls[r]),
         NEW c \in Nat, NEW E, SavedUpTo(ls, E, [r \in Rows |-> InsertionPoint(ls[r], c - 1)], c)
  PROVE  SavedUpTo(ls, E \o AtColumn(ls, c), [r \in Rows |-> InsertionPoint(ls[r], c)], c)
<1> DEFINE N == Cardinality(Rows)
           ss == [r \in 1 .. N |-> Cell(ls, r - 1, c)]
           D(k) == [x \in Rows |-> IF x < k THEN InsertionPoint(ls[x], c)
                                            ELSE InsertionPoint(ls[x], c - 1)]
           G == {p \in Nat \X Seq(SavedEvent) : SavedUpTo(ls, E \o p[2], D(p[1]), c)}
<1>1. N \in Nat
  BY GridAssumption, FS_CardinalityType
<1>2. Rows = 0 .. N - 1 /\ E \in Seq(SavedEvent)
  BY DEF RowsNumbered, SavedUpTo
<1>3. ss \in Seq(Seq(SavedEvent)) /\ Len(ss) = N
  BY ColumnTyped
<1>4. <<0, <<>> >> \in G
  <2>1. \A x \in Rows : ~(x < 0)
    BY <1>1, <1>2
  <2>2. D(0) = [r \in Rows |-> InsertionPoint(ls[r], c - 1)]
    BY <2>1
  <2>3. E \o <<>> = E /\ <<>> \in Seq(SavedEvent)
    BY <1>2, ConcatEmptySeq
  <2>4. SavedUpTo(ls, E \o <<>>, D(0), c)
    BY <2>2, <2>3
  <2> HIDE DEF D
  <2> QED
    BY <2>3, <2>4
<1>5. ASSUME NEW k \in 0 .. N - 1, NEW s \in Seq(SavedEvent), <<k, s>> \in G
      PROVE  <<k + 1, s \o ss[k + 1]>> \in G
  <2>1. SavedUpTo(ls, E \o s, D(k), c)
    BY <1>5
  <2>2. k \in Rows /\ k + 1 \in 1 .. N /\ (k + 1) - 1 = k /\ k \in Nat /\ k + 1 \in Nat
    BY <1>1, <1>2
  <2>3. PICK a : a = InsertionPoint(ls[k], c - 1)
    OBVIOUS
  <2>4. PICK b : b = InsertionPoint(ls[k], c)
    OBVIOUS
  <2>5. /\ a \in Nat /\ b - a \in Nat /\ a + (b - a) = b /\ b <= Len(ls[k])
        /\ Cell(ls, k, c) = Stretch(ls, k, a, b - a)
        /\ Cell(ls, k, c) \in Seq(SavedEvent)
        /\ AllAt(ls, k, a, b - a, c)
    <3>1. k \in Rows /\ InTimeOrder(ls[k])
      BY <2>2
    <3> QED
      BY SMT, <2>3, <2>4, <3>1, CellIs
  <2>6. D(k)[k] = a
    BY <2>2, <2>3
  <2>7. PICK n \in Nat : n = b - a
    BY <2>5
  <2>8. SavedUpTo(ls, (E \o s) \o Stretch(ls, k, a, n), [D(k) EXCEPT ![k] = a + n], c)
    <3> HIDE DEF D
    <3>1. a = D(k)[k] /\ a + n <= Len(ls[k]) /\ AllAt(ls, k, a, n, c)
      BY <2>5, <2>6, <2>7
    <3> QED
      BY <2>1, <2>2, <2>5, <3>1, SavedStretch
  <2>9. [D(k) EXCEPT ![k] = a + n] = D(k + 1)
    <3>1. a + n = InsertionPoint(ls[k], c)
      BY <2>4, <2>5, <2>7
    <3>2. \A x \in Rows : (x < k + 1 <=> x < k \/ x = k) /\ ~(k < k)
      BY <1>1, <1>2, <2>2
    <3> QED
      BY <3>1, <3>2
  <2>10. ss[k + 1] = Stretch(ls, k, a, n)
    BY <2>2, <2>5, <2>7
  <2>11. PICK st \in Seq(SavedEvent) : st = ss[k + 1]
    BY <2>5, <2>7, <2>10
  <2>12. (E \o s) \o st = E \o (s \o st) /\ s \o st \in Seq(SavedEvent)
    <3>1. E \in Seq(SavedEvent) /\ s \in Seq(SavedEvent)
      BY <1>2
    <3> HIDE DEF D, ss, G
    <3> QED
      <4>1. JoinsAssociate(E, s, st)
        BY Zenon, <2>11, <3>1, SavedJoins
      <4> QED
        BY Zenon, <4>1 DEF JoinsAssociate
  <2>13. SavedUpTo(ls, E \o (s \o st), D(k + 1), c)
    BY <2>8, <2>9, <2>10, <2>11, <2>12
  <2> HIDE DEF D, ss
  <2>14. <<k + 1, s \o st>> \in G
    BY <2>2, <2>12, <2>13
  <2> QED
    BY <2>11, <2>14
<1>6. FlattenSeq(ss) \in Seq(SavedEvent) /\ <<N, FlattenSeq(ss)>> \in G
  <2> HIDE DEF G, ss, N
  <2> QED
    BY <1>3, <1>4, <1>5, FlattenReaches
<1>7. SavedUpTo(ls, E \o FlattenSeq(ss), D(N), c)
  <2> HIDE DEF D, ss, N
  <2> QED
    BY <1>6
<1>8. D(N) = [r \in Rows |-> InsertionPoint(ls[r], c)]
  <2>1. \A x \in Rows : x < N
    BY <1>1, <1>2
  <2> HIDE DEF N
  <2> QED
    BY <2>1
<1>9. AtColumn(ls, c) = FlattenSeq(ss)
  BY DEF AtColumn
<1> QED
  BY Zenon, <1>7, <1>8, <1>9

LEMMA SavedFurther ==
  ASSUME NEW ls, NEW E, NEW done, NEW c \in Nat, SavedUpTo(ls, E, done, c)
  PROVE  SavedUpTo(ls, E, done, c + 1)
<1>1. E \in Seq(SavedEvent) /\ InFileOrder(E, c)
  BY DEF SavedUpTo
<1>2. \A m \in 1 .. Len(E) : E[m].event.col \in Nat
  <2>1. \A m \in 1 .. Len(E) : E[m] \in SavedEvent
    BY <1>1
  <2>2. \A e \in SavedEvent : e.event \in Event
    BY DEF SavedEvent
  <2>3. \A e \in Event : e.col \in Nat
    BY DEF Event
  <2> QED
    BY <2>1, <2>2, <2>3
<1>3. InFileOrder(E, c + 1)
  BY <1>1, <1>2 DEF InFileOrder
<1> QED
  BY <1>3 DEF SavedUpTo

(* SavedEvents takes each row up to the recorded number of columns.        *)
LEMMA AllSaved ==
  ASSUME RowsNumbered, NEW ls \in [Rows -> Seq(Event)], \A r \in Rows : InTimeOrder(ls[r]),
         NEW total \in Nat
  PROVE  SavedUpTo(ls, SavedEvents(ls, total), [r \in Rows |-> InsertionPoint(ls[r], total)], total + 1)
<1> DEFINE ss == [c \in 1 .. total + 1 |-> AtColumn(ls, c - 1)]
           D(k) == [r \in Rows |-> InsertionPoint(ls[r], k - 1)]
           G == {p \in Nat \X Seq(SavedEvent) : SavedUpTo(ls, p[2], D(p[1]), p[1])}
<1>1. SavedEvents(ls, total) = FlattenSeq(ss)
  <2>1. DOMAIN ls = Rows
    OBVIOUS
  <2> QED
    BY <2>1, Zenon DEF SavedEvents, AtColumn, Cell
<1>2. <<0, <<>> >> \in G
  <2>1. D(0) = [r \in Rows |-> 0]
    <3>1. ASSUME NEW r \in Rows PROVE InsertionPoint(ls[r], 0 - 1) = 0
      <4>1. {i \in DOMAIN ls[r] : ls[r][i].col <= 0 - 1} = {}
        BY EventsOfRow
      <4> QED
        BY <4>1 DEF InsertionPoint, Final
    <3> QED
      BY <3>1
  <2>2. FromTheFronts(ls, <<>>, [m \in 0 .. 0 |-> [r \in Rows |-> 0]])
    BY DEF FromTheFronts
  <2>3. InFileOrder(<<>>, 0) /\ <<>> \in Seq(SavedEvent)
    BY DEF InFileOrder
  <2>4. SavedUpTo(ls, <<>>, D(0), 0)
    BY <2>1, <2>2, <2>3 DEF SavedUpTo
  <2> HIDE DEF D
  <2> QED
    BY <2>3, <2>4
<1>3. ASSUME NEW c \in Nat, NEW s, SavedUpTo(ls, s, D(c), c)
      PROVE  SavedUpTo(ls, s \o AtColumn(ls, c), D(c + 1), c + 1)
  <2>1. SavedUpTo(ls, s \o AtColumn(ls, c), [r \in Rows |-> InsertionPoint(ls[r], c)], c)
    BY <1>3, ColumnSaved
  <2>2. (c + 1) - 1 = c
    OBVIOUS
  <2>3. SavedUpTo(ls, s \o AtColumn(ls, c), D(c + 1), c)
    BY <2>1, <2>2
  <2> HIDE DEF D
  <2> QED
    BY <2>1, <2>3, SavedFurther
<1>4. ss \in Seq(Seq(SavedEvent)) /\ Len(ss) = total + 1 /\ total + 1 \in Nat
  <2>1. ASSUME NEW c \in Nat PROVE AtColumn(ls, c) \in Seq(SavedEvent)
    BY ColumnTyped
  <2> QED
    BY <2>1
<1>5. ASSUME NEW k \in 0 .. Len(ss) - 1, NEW s \in Seq(SavedEvent), <<k, s>> \in G
      PROVE  <<k + 1, s \o ss[k + 1]>> \in G
  <2>1. k + 1 \in 1 .. total + 1 /\ (k + 1) - 1 = k /\ k \in Nat /\ k + 1 \in Nat
    BY <1>4
  <2>2. ss[k + 1] = AtColumn(ls, k)
    BY <2>1
  <2>3. SavedUpTo(ls, s, D(k), k)
    BY <1>5
  <2> HIDE DEF D
  <2>4. SavedUpTo(ls, s \o AtColumn(ls, k), D(k + 1), k + 1)
    BY <1>3, <2>1, <2>3
  <2>5. s \o AtColumn(ls, k) \in Seq(SavedEvent)
    BY <2>1, ColumnTyped, ConcatProperties
  <2>6. <<k + 1, s \o AtColumn(ls, k)>> \in G
    BY <2>1, <2>4, <2>5
  <2> HIDE DEF G, ss
  <2> QED
    BY <2>2, <2>6
<1>6. <<Len(ss), FlattenSeq(ss)>> \in G
  <2> HIDE DEF G, ss
  <2> QED
    BY <1>2, <1>4, <1>5, FlattenReaches
<1>7. SavedUpTo(ls, FlattenSeq(ss), D(total + 1), total + 1)
  <2> HIDE DEF D, ss
  <2> QED
    BY <1>4, <1>6
<1>8. (total + 1) - 1 = total
  OBVIOUS
<1> QED
  BY <1>1, <1>7, <1>8

-----------------------------------------------------------------------------
(* Columns and their times.                                                *)
LEMMA WholeColumns ==
  ASSUME NEW t \in Nat \ {0}, NEW a \in Nat
  PROVE  a * t \in Nat /\ (a * t) \div t = a
  OBVIOUS

LEMMA TimeOfColumns ==
  ASSUME NEW t \in Nat, NEW a \in 0 .. 510
  PROVE  a * t \in Nat /\ a * t <= 510 * t
  OBVIOUS

(* Where the bytes of each event start.                                    *)
LaidAt(ss, k, t, off) ==
  /\ off \in [0 .. k -> Nat]
  /\ off[0] = 0 /\ off[k] = Len(t)
  /\ \A i \in 1 .. k :
       /\ off[i] = off[i - 1] + Len(ss[i]) /\ off[i] <= Len(t)
       /\ \A j \in 1 .. Len(ss[i]) : t[off[i - 1] + j] = ss[i][j]

LEMMA ConcatPositions ==
  ASSUME NEW S, NEW s \in Seq(S), NEW t \in Seq(S)
  PROVE  /\ s \o t \in Seq(S) /\ Len(s \o t) = Len(s) + Len(t)
         /\ Len(s) \in Nat /\ Len(t) \in Nat
         /\ \A p \in 1 .. Len(s) : (s \o t)[p] = s[p]
         /\ \A p \in 1 .. Len(t) : (s \o t)[Len(s) + p] = t[p]
  OBVIOUS

LEMMA LaidNext ==
  ASSUME NEW S, NEW ss \in Seq(Seq(S)), NEW k \in 0 .. Len(ss) - 1, NEW t \in Seq(S),
         NEW off, LaidAt(ss, k, t, off)
  PROVE  LaidAt(ss, k + 1, t \o ss[k + 1], [i \in 0 .. k + 1 |-> IF i <= k THEN off[i] ELSE Len(t) + Len(ss[k + 1])])
<1>1. k \in Nat /\ k + 1 \in 1 .. Len(ss) /\ ss[k + 1] \in Seq(S)
  OBVIOUS
<1>2. PICK u \in Seq(S) : u = ss[k + 1]
  BY <1>1
<1> DEFINE v == t \o u
           next == [i \in 0 .. k + 1 |-> IF i <= k THEN off[i] ELSE Len(t) + Len(u)]
<1>3. /\ v \in Seq(S) /\ Len(v) = Len(t) + Len(u) /\ Len(t) \in Nat /\ Len(u) \in Nat
      /\ \A p \in 1 .. Len(t) : v[p] = t[p]
      /\ \A p \in 1 .. Len(u) : v[Len(t) + p] = u[p]
  BY ConcatPositions
<1>4. off \in [0 .. k -> Nat] /\ off[0] = 0 /\ off[k] = Len(t)
  BY DEF LaidAt
<1>5. /\ next \in [0 .. k + 1 -> Nat] /\ next[k + 1] = Len(v)
      /\ \A i \in 0 .. k : next[i] = off[i]
  BY <1>1, <1>3, <1>4
<1> HIDE DEF v, next
<1>6. ASSUME NEW i \in 1 .. k + 1
      PROVE  /\ next[i] = next[i - 1] + Len(ss[i]) /\ next[i] <= Len(v)
             /\ \A j \in 1 .. Len(ss[i]) : v[next[i - 1] + j] = ss[i][j]
  <2>1. CASE i = k + 1
    <3>1. next[i - 1] = Len(t) /\ ss[i] = u
      BY <1>1, <1>2, <1>4, <1>5, <2>1
    <3>2. next[i] = Len(v)
      BY <1>5, <2>1
    <3>3. \A j \in 1 .. Len(u) : v[Len(t) + j] = u[j]
      BY <1>3
    <3> QED
      BY <1>3, <3>1, <3>2, <3>3
  <2>2. CASE i # k + 1
    <3>1. i \in 1 .. k /\ i - 1 \in 0 .. k /\ i \in 0 .. k
      BY <1>1, <2>2
    <3>2. next[i] = off[i] /\ next[i - 1] = off[i - 1] /\ off[i] \in Nat /\ off[i - 1] \in Nat
      BY <1>4, <1>5, <3>1
    <3>3. /\ off[i] = off[i - 1] + Len(ss[i]) /\ off[i] <= Len(t)
          /\ \A j \in 1 .. Len(ss[i]) : t[off[i - 1] + j] = ss[i][j]
      BY <3>1 DEF LaidAt
    <3>4. Len(ss[i]) \in Nat
      <4>1. ss[i] \in Seq(S)
        BY <1>1, <3>1
      <4> QED
        BY <4>1
    <3>5. \A j \in 1 .. Len(ss[i]) : off[i - 1] + j \in 1 .. Len(t)
      <4>1. PICK n \in Nat : n = Len(ss[i])
        BY <3>4
      <4>2. PICK a \in Nat : a = off[i - 1]
        BY <3>2
      <4>3. PICK m \in Nat : m = Len(t)
        BY <1>3
      <4>4. a + n <= m
        BY <3>3, <4>1, <4>2, <4>3
      <4>5. \A j \in 1 .. n : a + j \in 1 .. m
        BY <4>4
      <4> QED
        BY Zenon, <4>1, <4>2, <4>3, <4>5
    <3>6. \A j \in 1 .. Len(ss[i]) : v[off[i - 1] + j] = ss[i][j]
      BY <1>3, <3>3, <3>5
    <3> QED
      BY <1>3, <3>2, <3>3, <3>6
  <2> QED
    BY <2>1, <2>2
<1>7. next[0] = 0
  BY <1>1, <1>4, <1>5
<1>8. LaidAt(ss, k + 1, v, next)
  BY <1>5, <1>6, <1>7 DEF LaidAt
<1> QED
  BY <1>2, <1>8 DEF v, next

(* FlattenSeq lays its sequences one behind the other.                     *)
LEMMA FlattenIsLaid ==
  ASSUME NEW S, NEW ss \in Seq(Seq(S))
  PROVE  FlattenSeq(ss) \in Seq(S) /\ \E off : LaidAt(ss, Len(ss), FlattenSeq(ss), off)
<1> DEFINE G == {p \in Nat \X Seq(S) : \E off : LaidAt(ss, p[1], p[2], off)}
<1>1. <<0, <<>> >> \in G
  <2>1. LaidAt(ss, 0, <<>>, [i \in 0 .. 0 |-> 0])
    BY DEF LaidAt
  <2>2. 0 \in Nat /\ <<>> \in Seq(S)
    OBVIOUS
  <2> QED
    BY <2>1, <2>2
<1>2. ASSUME NEW k \in 0 .. Len(ss) - 1, NEW t \in Seq(S), <<k, t>> \in G
      PROVE  <<k + 1, t \o ss[k + 1]>> \in G
  <2>1. PICK off : LaidAt(ss, k, t, off)
    BY <1>2
  <2>2. \E new : LaidAt(ss, k + 1, t \o ss[k + 1], new)
    BY <2>1, LaidNext
  <2>3. ss[k + 1] \in Seq(S) /\ k + 1 \in Nat
    OBVIOUS
  <2>4. t \o ss[k + 1] \in Seq(S)
    BY <2>3, ConcatProperties
  <2> QED
    BY <2>2, <2>3, <2>4
<1> HIDE DEF G
<1>3. FlattenSeq(ss) \in Seq(S) /\ <<Len(ss), FlattenSeq(ss)>> \in G
  BY <1>1, <1>2, FlattenReaches
<1> QED
  BY <1>3 DEF G

LEMMA LaidIsLong ==
  ASSUME NEW ss, NEW n \in Nat, NEW t, NEW off, LaidAt(ss, n, t, off),
         \A i \in 1 .. n : Len(ss[i]) \in Nat /\ Len(ss[i]) >= 1
  PROVE  n <= Len(t)
<1> DEFINE T == {k \in 0 .. n : k <= off[k]}
<1>1. 0 \in T
  BY DEF LaidAt
<1>2. ASSUME NEW k \in 0 .. n - 1, k \in T PROVE k + 1 \in T
  <2>1. k + 1 \in 1 .. n /\ (k + 1) - 1 = k /\ k + 1 \in 0 .. n /\ k \in 0 .. n
    OBVIOUS
  <2>2. off[k + 1] = off[k] + Len(ss[k + 1]) /\ off[k] \in Nat /\ k <= off[k]
    BY <1>2, <2>1 DEF LaidAt
  <2>3. Len(ss[k + 1]) \in Nat /\ Len(ss[k + 1]) >= 1
    BY <2>1
  <2> QED
    BY <2>1, <2>2, <2>3
<1>3. \A k \in 0 .. n : k \in T
  <2> HIDE DEF T
  <2> QED
    BY <1>1, <1>2, UpTo
<1>4. n \in T
  BY <1>3
<1> QED
  BY <1>4 DEF LaidAt

-----------------------------------------------------------------------------
(* The reader, event by event.                                             *)
Start(rows) == [at |-> 1, column |-> 0, grid |-> Empty(rows)]

(* R is the reader after each of n turns of the loop.                      *)
Reads(bytes, rows, n, R) ==
  R = [k \in 0 .. n |-> IF k = 0 THEN Start(rows) ELSE ReadEvent(bytes, R[k - 1])]

LEMMA ReadsExist ==
  ASSUME NEW bytes, NEW rows, NEW n \in Nat
  PROVE  \E R : Reads(bytes, rows, n, R)
<1> DEFINE T == {k \in 0 .. n : \E R : Reads(bytes, rows, k, R)}
<1>1. 0 \in T
  <2>1. Reads(bytes, rows, 0, [k \in 0 .. 0 |-> Start(rows)])
    BY DEF Reads
  <2> QED
    BY <2>1
<1>2. ASSUME NEW k \in 0 .. n - 1, k \in T PROVE k + 1 \in T
  <2>1. PICK R : Reads(bytes, rows, k, R)
    BY <1>2
  <2> DEFINE next == ReadEvent(bytes, R[k])
             Q == [i \in 0 .. k + 1 |-> IF i <= k THEN R[i] ELSE next]
  <2>2. \A i \in 0 .. k : R[i] = IF i = 0 THEN Start(rows) ELSE ReadEvent(bytes, R[i - 1])
    BY <2>1, Zenon DEF Reads
  <2>3. ASSUME NEW i \in 0 .. k + 1
        PROVE  Q[i] = IF i = 0 THEN Start(rows) ELSE ReadEvent(bytes, Q[i - 1])
    <3>1. CASE i = 0
      <4>1. i \in 0 .. k /\ i <= k
        BY <3>1
      <4> QED
        BY <2>2, <3>1, <4>1
    <3>2. CASE i = k + 1
      <4>1. i # 0 /\ ~(i <= k) /\ i - 1 = k /\ k <= k /\ k \in 0 .. k + 1
        BY <3>2
      <4>2. Q[i] = next /\ Q[i - 1] = R[k]
        BY <4>1
      <4> QED
        BY <4>1, <4>2
    <3>3. CASE i # 0 /\ i # k + 1
      <4>1. i \in 0 .. k /\ i <= k /\ i - 1 <= k /\ i - 1 \in 0 .. k + 1 /\ i - 1 \in 0 .. k
        BY <3>3
      <4>2. Q[i] = R[i] /\ Q[i - 1] = R[i - 1]
        BY <4>1
      <4> HIDE DEF Q
      <4> QED
        BY <2>2, <3>3, <4>1, <4>2
    <3> QED
      BY <3>1, <3>2, <3>3
  <2>4. Q = [i \in 0 .. k + 1 |-> Q[i]]
    OBVIOUS
  <2> HIDE DEF Q
  <2>5. Reads(bytes, rows, k + 1, Q)
    BY <2>3, <2>4, Zenon DEF Reads
  <2> QED
    BY <2>5
<1>3. \A k \in 0 .. n : k \in T
  <2> HIDE DEF T
  <2> QED
    BY <1>1, <1>2, UpTo
<1>4. n \in T
  BY <1>3
<1> QED
  BY <1>4

LEMMA LoadIs ==
  ASSUME NEW bytes, Len(bytes) \in Nat, NEW rows
  PROVE  \E R : /\ R[0] = Start(rows)
                /\ \A k \in 0 .. Len(bytes) - 1 : R[k + 1] = ReadEvent(bytes, R[k])
                /\ ReadTrack(bytes, rows) = R[Len(bytes)].grid
<1>1. PICK n \in Nat : n = Len(bytes)
  OBVIOUS
<1> DEFINE chosen == CHOOSE R : Reads(bytes, rows, n, R)
<1>2. Reads(bytes, rows, n, chosen)
  BY ReadsExist, Zenon
<1>3. ReadTrack(bytes, rows) = chosen[n].grid
  BY <1>1, Zenon DEF ReadTrack, Reads, Start
<1>4. \A k \in 0 .. n : chosen[k] = IF k = 0 THEN Start(rows) ELSE ReadEvent(bytes, chosen[k - 1])
  <2> HIDE DEF chosen
  <2> QED
    BY <1>2, Zenon DEF Reads
<1> HIDE DEF chosen
<1>5. chosen[0] = Start(rows)
  BY <1>4
<1>6. ASSUME NEW k \in 0 .. n - 1 PROVE chosen[k + 1] = ReadEvent(bytes, chosen[k])
  <2>1. k + 1 \in 0 .. n /\ k + 1 # 0 /\ (k + 1) - 1 = k
    OBVIOUS
  <2> QED
    BY <1>4, <2>1
<1> QED
  BY <1>1, <1>3, <1>5, <1>6

(* The turns one by one.                                                   *)
Runs(bytes, n, R) == \A k \in 0 .. n - 1 : R[k + 1] = ReadEvent(bytes, R[k])

(* The loop is over when the grid has ended.                               *)
LEMMA EndedStays ==
  ASSUME NEW bytes, NEW n \in Nat, NEW R, Runs(bytes, n, R),
         NEW e \in 0 .. n, Ended(R[e].grid)
  PROVE  R[n] = R[e]
<1> DEFINE T == {k \in Nat : e + k <= n => R[e + k] = R[e]}
<1>1. 0 \in T
  <2>1. e + 0 = e
    OBVIOUS
  <2> QED
    BY <2>1
<1>2. ASSUME NEW k \in 0 .. n - e - 1, k \in T PROVE k + 1 \in T
  <2>1. e + k \in 0 .. n - 1 /\ (e + k) + 1 = e + (k + 1) /\ k + 1 \in Nat /\ e + k <= n
    OBVIOUS
  <2>2. R[e + k] = R[e]
    BY <1>2, <2>1
  <2>3. R[e + (k + 1)] = ReadEvent(bytes, R[e + k])
    BY <2>1 DEF Runs
  <2>4. ReadEvent(bytes, R[e]) = R[e]
    BY DEF ReadEvent
  <2> QED
    BY <2>1, <2>2, <2>3, <2>4
<1>3. \A k \in 0 .. n - e : k \in T
  <2>1. n - e \in Nat
    OBVIOUS
  <2> HIDE DEF T
  <2> QED
    BY <1>1, <1>2, <2>1, UpTo
<1>4. n - e \in 0 .. n - e /\ e + (n - e) = n
  OBVIOUS
<1> QED
  BY <1>3, <1>4

(* The bytes of an event: its time, the status, the row and the velocity.  *)
LEMMA EventBytesAre ==
  ASSUME NEW E, NEW i, DeltaTime(E, i) \in Times, NEW k, k = VarLenBytes(DeltaTime(E, i)),
         NEW S, Nat \subseteq S, E[i].row \in S, E[i].event.vel \in S
  PROVE  /\ EventBytes(E, i) \in Seq(S) /\ Len(EventBytes(E, i)) = k + 3
         /\ \A j \in 1 .. k : EventBytes(E, i)[j] = VarLen(DeltaTime(E, i))[j]
         /\ EventBytes(E, i)[k + 1] = IF E[i].event.on THEN NoteOn ELSE NoteOff
         /\ EventBytes(E, i)[k + 2] = E[i].row
         /\ EventBytes(E, i)[k + 3] = E[i].event.vel
<1>1. PICK d \in Times : d = DeltaTime(E, i)
  OBVIOUS
<1>2. k \in 1 .. 4 /\ VarLen(d) \in [1 .. k -> Nat]
  BY SMT, <1>1, VarLenIs
<1>3. VarLen(d) \in Seq(S) /\ Len(VarLen(d)) = k
  BY SMT, <1>2
<1>4. PICK a \in Seq(S) : a = VarLen(d)
  BY Zenon, <1>3
<1>5. PICK status : status = IF E[i].event.on THEN NoteOn ELSE NoteOff
  OBVIOUS
<1>6. status \in S
  BY <1>5 DEF NoteOn, NoteOff
<1>7. \E b \in Seq(S) : /\ b = <<status, E[i].row, E[i].event.vel>> /\ Len(b) = 3
                        /\ b[1] = status /\ b[2] = E[i].row /\ b[3] = E[i].event.vel
  <2>1. PICK row \in S, vel \in S : row = E[i].row /\ vel = E[i].event.vel
    OBVIOUS
  <2>2. <<status, row, vel>> \in Seq(S) /\ Len(<<status, row, vel>>) = 3
    BY <1>6
  <2> QED
    BY <2>1, <2>2
<1>8. PICK b \in Seq(S) : /\ b = <<status, E[i].row, E[i].event.vel>> /\ Len(b) = 3
                         /\ b[1] = status /\ b[2] = E[i].row /\ b[3] = E[i].event.vel
  BY <1>7
<1>9. EventBytes(E, i) = a \o b
  BY Zenon, <1>1, <1>4, <1>5, <1>8 DEF EventBytes
<1>10. Len(a) = k
  BY Zenon, <1>3, <1>4
<1>11. /\ a \o b \in Seq(S) /\ Len(a \o b) = k + 3
       /\ \A p \in 1 .. k : (a \o b)[p] = a[p]
       /\ \A p \in 1 .. 3 : (a \o b)[k + p] = b[p]
  <2>1. /\ a \o b \in Seq(S) /\ Len(a \o b) = Len(a) + Len(b)
        /\ \A p \in 1 .. Len(a) : (a \o b)[p] = a[p]
        /\ \A p \in 1 .. Len(b) : (a \o b)[Len(a) + p] = b[p]
    BY ConcatPositions
  <2>2. Len(a) = k /\ Len(b) = 3
    BY <1>8, <1>10
  <2> QED
    BY Zenon, <2>1, <2>2
<1>12. (a \o b)[k + 1] = status /\ (a \o b)[k + 2] = E[i].row /\ (a \o b)[k + 3] = E[i].event.vel
  <2>1. 1 \in 1 .. 3 /\ 2 \in 1 .. 3 /\ 3 \in 1 .. 3
    OBVIOUS
  <2> QED
    BY Zenon, <1>8, <1>11, <2>1
<1> QED
  BY Zenon, <1>1, <1>4, <1>5, <1>9, <1>11, <1>12

(* The column the reader has reached after m events.                       *)
ColumnAfter(E, m) == IF m = 0 THEN 0 ELSE E[m].event.col

(* E has events of the rows that the reader can tell apart and enter:      *)
(* their times fit, add up to their columns, and the duplicate check reads *)
(* empty rows.                                                             *)
Rereadable(ls, E, h) ==
  /\ ls \in [Rows -> Seq(Event)] /\ E \in Seq(SavedEvent) /\ FromTheFronts(ls, E, h)
  /\ \A m \in 1 .. Len(E) :
       /\ E[m].event.col \in Rows /\ ls[E[m].event.col] = <<>>
       /\ DeltaTime(E, m) \in Times
       /\ ColumnAfter(E, m - 1) + DeltaTime(E, m) \div TicksPerColumn = E[m].event.col

(* The bytes of event i lie behind off[i - 1], and the end of the track    *)
(* behind all of them.                                                     *)
WrittenAt(E, off, bytes) ==
  /\ off \in [0 .. Len(E) -> Nat] /\ off[0] = 0
  /\ Len(bytes) = off[Len(E)] + 4 /\ Len(E) + 1 <= Len(bytes)
  /\ \A j \in 1 .. 4 : bytes[off[Len(E)] + j] = EndOfTrack[j]
  /\ \A i \in 1 .. Len(E) :
       /\ off[i] = off[i - 1] + Len(EventBytes(E, i)) /\ off[i] <= Len(bytes)
       /\ \A j \in 1 .. Len(EventBytes(E, i)) : bytes[off[i - 1] + j] = EventBytes(E, i)[j]

(* The reader after m events: it has the first of each row.                *)
ReaderAfter(ls, E, h, off, m) ==
  [at     |-> off[m] + 1,
   column |-> ColumnAfter(E, m),
   grid   |-> [lists |-> [r \in Rows |-> SubSeq(ls[r], 1, h[m][r])], total |-> 0, fault |-> ""]]

(* The reader steps over as many bytes as were written.                    *)
Reread(E, i) == DeltaTimeNumBytes(DeltaTime(E, i)) = VarLenBytes(DeltaTime(E, i))

(* It never steps over too many, and never over none.                      *)
LEMMA Miscounts ==
  ASSUME NEW n \in Times
  PROVE  \/ DeltaTimeNumBytes(n) = VarLenBytes(n)
         \/ DeltaTimeNumBytes(n) = VarLenBytes(n) - 1 /\ VarLenBytes(n) > 1
<1>1. n \in Nat
  BY SMT, TimesAre
<1> QED
  BY SMT, <1>1, VarLenBytesIs, NumBytesIs

LEMMA FrontGrows ==
  ASSUME NEW S, NEW l \in Seq(S), NEW i \in Nat, i + 1 <= Len(l)
  PROVE  Append(SubSeq(l, 1, i), l[i + 1]) = SubSeq(l, 1, i + 1)
<1>1. \A j \in 1 .. Len(l) : l[j] \in S
  OBVIOUS
<1>2. SubSeq(l, 1, i) \in Seq(S) /\ Len(SubSeq(l, 1, i)) = i /\ \A j \in 1 .. i : SubSeq(l, 1, i)[j] = l[j]
  OBVIOUS
<1>3. SubSeq(l, 1, i + 1) \in Seq(S) /\ Len(SubSeq(l, 1, i + 1)) = i + 1
      /\ \A j \in 1 .. i + 1 : SubSeq(l, 1, i + 1)[j] = l[j]
  OBVIOUS
<1>4. l[i + 1] \in S
  OBVIOUS
<1> QED
  BY <1>2, <1>3, <1>4

LEMMA WithinRows ==
  ASSUME NEW ls \in [Rows -> Seq(Event)], NEW E \in Seq(SavedEvent), NEW h, FromTheFronts(ls, E, h),
         NEW r \in Rows, NEW m \in 0 .. Len(E)
  PROVE  h[m][r] \in 0 .. Len(ls[r])
<1> DEFINE T == {k \in 0 .. Len(E) : h[k][r] \in 0 .. Len(ls[r])}
<1>1. Len(E) \in Nat /\ Len(ls[r]) \in Nat /\ ls[r] \in Seq(Event)
  OBVIOUS
<1>2. 0 \in T
  BY <1>1 DEF FromTheFronts
<1>3. ASSUME NEW k \in 0 .. Len(E) - 1, k \in T PROVE k + 1 \in T
  <2>1. k + 1 \in 1 .. Len(E) /\ (k + 1) - 1 = k /\ k + 1 \in 0 .. Len(E) /\ k \in 0 .. Len(E)
    BY <1>1
  <2>2. /\ h[k + 1] = [h[k] EXCEPT ![E[k + 1].row] = @ + 1]
        /\ h[k + 1][E[k + 1].row] \in DOMAIN ls[E[k + 1].row] /\ h[k] \in [Rows -> Nat]
    BY <2>1 DEF FromTheFronts
  <2>3. CASE r = E[k + 1].row
    BY <1>1, <2>1, <2>2, <2>3
  <2>4. CASE r # E[k + 1].row
    BY <1>3, <2>1, <2>2, <2>4
  <2> QED
    BY <2>3, <2>4
<1>4. \A k \in 0 .. Len(E) : k \in T
  <2> HIDE DEF T
  <2> QED
    BY <1>1, <1>2, <1>3, UpTo
<1> QED
  BY <1>4

(* A grid that is still being read.                                        *)
OpenGrid(ls) == [lists |-> ls, total |-> 0, fault |-> ""]
Put(ls, row, e) == [ls EXCEPT ![row] = Append(@, e)]

LEMMA EventAdded ==
  ASSUME NEW ls, NEW row, NEW e, ls[e.col] = <<>>
  PROVE  AddEvent(OpenGrid(ls), row, e) = OpenGrid(Put(ls, row, e))
<1>1. PICK grid : grid = OpenGrid(ls)
  OBVIOUS
<1>2. grid.lists = ls /\ grid.total = 0
  BY <1>1 DEF OpenGrid
<1>3. DOMAIN grid.lists[e.col] = {}
  <2>1. DOMAIN <<>> = {}
    OBVIOUS
  <2> QED
    BY Zenon, <1>2, <2>1
<1>4. AddEvent(grid, row, e) = [lists |-> [grid.lists EXCEPT ![row] = Append(@, e)], total |-> grid.total, fault |-> ""]
  <2>1. {i \in DOMAIN grid.lists[e.col] :
           /\ grid.lists[e.col][i].on = e.on /\ grid.lists[e.col][i].col = row
           /\ \A j \in 1 .. i - 1 : grid.lists[e.col][j].col <= row} = {}
    BY Zenon, <1>3
  <2> QED
    BY Zenon, <2>1 DEF AddEvent
<1> QED
  BY Zenon, <1>1, <1>2, <1>4 DEF OpenGrid, Put

(* One turn of the loop reads one event, or stops at the last byte of a    *)
(* delta time it miscounted, which is no status byte.                      *)
LEMMA EventRead ==
  ASSUME NEW ls, NEW E, NEW h, Rereadable(ls, E, h), NEW off, NEW bytes, WrittenAt(E, off, bytes),
         NEW m \in 1 .. Len(E), NEW reader, reader = ReaderAfter(ls, E, h, off, m - 1)
  PROVE  ReadEvent(bytes, reader) = IF Reread(E, m) THEN ReaderAfter(ls, E, h, off, m)
                                    ELSE [reader EXCEPT !.grid.fault = "corrupt"]
<1>1. PICK d \in Times : d = DeltaTime(E, m)
  BY DEF Rereadable
<1>2. PICK k : k = VarLenBytes(d)
  OBVIOUS
<1>3. k \in 1 .. 4
  BY SMT, <1>2, VarLenIs
<1>4. PICK e \in SavedEvent : e = E[m]
  BY DEF Rereadable
<1>5. PICK b : b = EventBytes(E, m)
  OBVIOUS
<1>6. /\ Len(b) = k + 3
      /\ \A j \in 1 .. k : b[j] = VarLen(d)[j]
      /\ b[k + 1] = IF e.event.on THEN NoteOn ELSE NoteOff
      /\ b[k + 2] = e.row /\ b[k + 3] = e.event.vel
  <2> DEFINE S == Nat \cup {E[m].row, E[m].event.vel}
  <2>1. Nat \subseteq S /\ E[m].row \in S /\ E[m].event.vel \in S
    OBVIOUS
  <2>2. DeltaTime(E, m) \in Times /\ k = VarLenBytes(DeltaTime(E, m))
    BY <1>1, <1>2
  <2> HIDE DEF S
  <2>3. /\ Len(EventBytes(E, m)) = k + 3
        /\ \A j \in 1 .. k : EventBytes(E, m)[j] = VarLen(DeltaTime(E, m))[j]
        /\ EventBytes(E, m)[k + 1] = IF E[m].event.on THEN NoteOn ELSE NoteOff
        /\ EventBytes(E, m)[k + 2] = E[m].row
        /\ EventBytes(E, m)[k + 3] = E[m].event.vel
    BY <2>1, <2>2, EventBytesAre
  <2> QED
    BY Zenon, <1>1, <1>4, <1>5, <2>3
<1>7. m - 1 \in 0 .. Len(E) /\ m \in 0 .. Len(E) /\ Len(E) \in Nat
  BY DEF Rereadable
<1>8. PICK p \in Nat \ {0} : p = off[m - 1] + 1
  <2>1. off[m - 1] \in Nat
    BY <1>7 DEF WrittenAt
  <2> QED
    BY <2>1
<1>9. /\ off[m] = p + k + 2 /\ p + k + 2 <= Len(bytes) /\ Len(bytes) \in Nat
      /\ \A j \in 1 .. k + 3 : bytes[off[m - 1] + j] = b[j]
  <2>1. /\ off[m] = off[m - 1] + Len(b) /\ off[m] <= Len(bytes)
        /\ \A j \in 1 .. Len(b) : bytes[off[m - 1] + j] = b[j]
    BY <1>5 DEF WrittenAt
  <2>2. off[m - 1] \in Nat /\ off[Len(E)] \in Nat /\ Len(bytes) = off[Len(E)] + 4
    <3>1. off \in [0 .. Len(E) -> Nat] /\ Len(bytes) = off[Len(E)] + 4
      BY Zenon DEF WrittenAt
    <3>2. Len(E) \in 0 .. Len(E)
      BY <1>7
    <3> QED
      BY <1>7, <3>1, <3>2
  <2>3. Len(b) = k + 3
    BY <1>6
  <2>4. \A j \in 1 .. k + 3 : bytes[off[m - 1] + j] = b[j]
    BY Zenon, <2>1, <2>3
  <2>5. off[m] = p + k + 2
    <3>1. PICK a \in Nat : a = off[m - 1]
      BY <2>2
    <3>2. off[m] = a + (k + 3) /\ p = a + 1
      BY Zenon, <1>8, <2>1, <2>3, <3>1
    <3> QED
      BY <1>3, <3>2
  <2>6. p + k + 2 <= Len(bytes) /\ Len(bytes) \in Nat
    BY <2>1, <2>2, <2>5
  <2> QED
    BY <2>4, <2>5, <2>6
<1>10. \A j \in 1 .. k + 3 : bytes[p + j - 1] = b[j]
  <2>1. off[m - 1] \in Nat
    BY <1>7 DEF WrittenAt
  <2>2. \A j \in 1 .. k + 3 : off[m - 1] + j = p + j - 1
    BY <1>3, <1>8, <2>1
  <2> QED
    BY <1>9, <2>2
<1>11. DeltaTimeAt(bytes, p) = d
  <2>1. p + VarLenBytes(d) - 1 <= Len(bytes)
    BY <1>2, <1>3, <1>8, <1>9
  <2>2. \A i \in 1 .. VarLenBytes(d) : bytes[p + i - 1] = VarLen(d)[i]
    <3>1. \A i \in 1 .. k : i \in 1 .. k + 3
      BY <1>3
    <3> QED
      BY Zenon, <1>2, <1>6, <1>10, <3>1
  <2> QED
    BY SMT, <1>9, <2>1, <2>2, DeltaTimeIs
<1>12. PICK n : n = DeltaTimeNumBytes(d)
  OBVIOUS
<1>13. (n = k \/ (n = k - 1 /\ k > 1)) /\ (Reread(E, m) <=> n = k)
  BY <1>1, <1>2, <1>12, Miscounts DEF Reread
<1>14. reader.at = p /\ reader.column = ColumnAfter(E, m - 1) /\ ~Ended(reader.grid)
  BY <1>8 DEF ReaderAfter, Ended
<1>15. PICK q : q = p + n
  OBVIOUS
<1>16. PICK column : column = reader.column + d \div TicksPerColumn
  OBVIOUS
<1>17. column = e.event.col
  BY <1>1, <1>4, <1>14, <1>16 DEF Rereadable
<1> DEFINE event == IF bytes[q] = NoteOn THEN On(column, bytes[q + 2])
                    ELSE [Off(column) EXCEPT !.vel = bytes[q + 2]]
<1>18. ReadEvent(bytes, reader) =
         IF bytes[q] = MetaMsg THEN [reader EXCEPT !.grid.total = column + 1]
         ELSE IF bytes[q] \in {NoteOn, NoteOff}
           THEN [at |-> q + 3, column |-> column, grid |-> AddEvent(reader.grid, bytes[q + 1], event)]
         ELSE [reader EXCEPT !.grid.fault = "corrupt"]
  <2>1. MetaMsg \notin {NoteOn, NoteOff}
    BY DEF MetaMsg, NoteOn, NoteOff
  <2> QED
    BY <1>11, <1>12, <1>14, <1>15, <1>16, <2>1 DEF ReadEvent
<1>19. CASE n = k - 1 /\ k > 1
  <2>1. bytes[q] = b[k]
    <3>1. k \in 1 .. k + 3 /\ p + k - 1 = q
      BY <1>3, <1>15, <1>19
    <3> QED
      BY <1>10, <3>1
  <2>2. b[k] = d % 128
    <3>1. b[k] = VarLen(d)[k] 
      BY <1>3, <1>6
    <3>2. VarLen(d)[k] = d % 128
      BY SMT, <1>2, VarLenIs
    <3> QED
      BY Zenon, <3>1, <3>2
  <2>3. bytes[q] < 128 /\ bytes[q] \in Nat
    <3>1. d \in Nat
      BY SMT, TimesAre
    <3> QED
      BY <2>1, <2>2, <3>1
  <2>4. bytes[q] # MetaMsg /\ bytes[q] \notin {NoteOn, NoteOff}
    BY <2>3 DEF MetaMsg, NoteOn, NoteOff
  <2>5. ~Reread(E, m)
    BY <1>3, <1>13, <1>19
  <2> QED
    BY Zenon, <1>18, <2>4, <2>5
<1>20. CASE n = k
  <2>1. bytes[q] = b[k + 1] /\ bytes[q + 1] = b[k + 2] /\ bytes[q + 2] = b[k + 3]
    <3>1. /\ k + 1 \in 1 .. k + 3 /\ p + (k + 1) - 1 = q
          /\ k + 2 \in 1 .. k + 3 /\ p + (k + 2) - 1 = q + 1
          /\ k + 3 \in 1 .. k + 3 /\ p + (k + 3) - 1 = q + 2
      BY <1>3, <1>15, <1>20
    <3> QED
      BY <1>10, <3>1
  <2>2. bytes[q] = (IF e.event.on THEN NoteOn ELSE NoteOff) /\ bytes[q + 1] = e.row /\ bytes[q + 2] = e.event.vel
    BY <1>6, <2>1
  <2>3. /\ bytes[q] # MetaMsg /\ bytes[q] \in {NoteOn, NoteOff}
        /\ (bytes[q] = NoteOn <=> e.event.on)
    BY <2>2 DEF MetaMsg, NoteOn, NoteOff
  <2>4. e.row \in Rows /\ e.event \in Event
    BY DEF SavedEvent
  <2>5. event = e.event
    <3>1. event = [on |-> e.event.on, col |-> e.event.col, vel |-> e.event.vel]
      <4>1. e.event.on \in BOOLEAN
        BY <2>4 DEF Event
      <4>2. CASE e.event.on
        <5>1. event = On(e.event.col, e.event.vel)
          BY <1>17, <2>2, <2>3, <4>2
        <5> QED
          BY <4>1, <4>2, <5>1 DEF On
      <4>3. CASE ~e.event.on
        <5>1. event = [Off(e.event.col) EXCEPT !.vel = e.event.vel]
          BY <1>17, <2>2, <2>3, <4>3
        <5> QED
          BY <4>1, <4>3, <5>1 DEF Off
      <4> QED
        BY <4>2, <4>3
    <3> HIDE DEF event
    <3> QED
      BY <2>4, <3>1 DEF Event
  <2>6. ReadEvent(bytes, reader) = [at |-> q + 3, column |-> e.event.col, grid |-> AddEvent(reader.grid, e.row, e.event)]
    BY Zenon, <1>17, <1>18, <2>2, <2>3, <2>5
  <2>7. q + 3 = off[m] + 1
    BY <1>3, <1>8, <1>9, <1>15, <1>20
  <2> DEFINE have(j) == [r \in Rows |-> SubSeq(ls[r], 1, h[j][r])]
  <2>8. reader.grid = [lists |-> have(m - 1), total |-> 0, fault |-> ""]
    BY DEF ReaderAfter
  <2>9. have(m - 1)[e.event.col] = <<>>
    <3>1. e.event.col \in Rows /\ ls[e.event.col] = <<>>
      BY <1>4 DEF Rereadable
    <3>2. h[m - 1][e.event.col] = 0
      <4>1. h[m - 1][e.event.col] \in 0 .. Len(ls[e.event.col])
        BY <1>7, <3>1, WithinRows DEF Rereadable
      <4> QED
        BY <3>1, <4>1
    <3>3. SubSeq(<<>>, 1, 0) = <<>>
      OBVIOUS
    <3> QED
      BY <3>1, <3>2, <3>3
  <2>10. AddEvent(reader.grid, e.row, e.event) = [lists |-> [have(m - 1) EXCEPT ![e.row] = Append(@, e.event)], total |-> 0, fault |-> ""]
    <3>1. PICK ls0 : ls0 = have(m - 1)
      OBVIOUS
    <3> HIDE DEF have
    <3>2. ls0[e.event.col] = <<>>
      BY <2>9, <3>1
    <3>3. AddEvent(OpenGrid(ls0), e.row, e.event) = OpenGrid(Put(ls0, e.row, e.event))
      BY Zenon, <3>2, EventAdded
    <3> QED
      BY Zenon, <2>8, <3>1, <3>3 DEF OpenGrid, Put
  <2>11. [have(m - 1) EXCEPT ![e.row] = Append(@, e.event)] = have(m)
    <3>1. /\ h \in [0 .. Len(E) -> [Rows -> Nat]] /\ ls \in [Rows -> Seq(Event)]
          /\ h[m] = [h[m - 1] EXCEPT ![e.row] = @ + 1]
          /\ h[m][e.row] \in DOMAIN ls[e.row]
          /\ e.event = ls[e.row][h[m][e.row]]
      BY <1>4 DEF Rereadable, FromTheFronts
    <3>2. PICK i \in Nat : i = h[m - 1][e.row]
      BY <1>7, <2>4, <3>1
    <3>3. h[m][e.row] = i + 1 /\ \A r \in Rows : r # e.row => h[m][r] = h[m - 1][r]
      BY <1>7, <2>4, <3>1, <3>2
    <3>4. PICK l \in Seq(Event) : l = ls[e.row]
      BY <2>4, <3>1
    <3>5. Append(SubSeq(l, 1, i), l[i + 1]) = SubSeq(l, 1, i + 1)
      <4>1. i + 1 \in 1 .. Len(l)
        BY <3>1, <3>3, <3>4
      <4> QED
        BY <4>1, FrontGrows
    <3>6. ASSUME NEW r \in Rows
          PROVE  [have(m - 1) EXCEPT ![e.row] = Append(@, e.event)][r] = SubSeq(ls[r], 1, h[m][r])
      <4>1. CASE r = e.row
        BY <3>1, <3>2, <3>3, <3>4, <3>5, <4>1
      <4>2. CASE r # e.row
        BY <3>3, <4>2
      <4> QED
        BY <4>1, <4>2
    <3> QED
      BY <3>6
  <2>12. m # 0
    OBVIOUS
  <2>13. ReadEvent(bytes, reader) = ReaderAfter(ls, E, h, off, m)
    BY <1>4, <2>6, <2>7, <2>10, <2>11, <2>12 DEF ReaderAfter, ColumnAfter
  <2> QED
    BY <1>13, <1>20, <2>13
<1> QED
  BY <1>13, <1>19, <1>20

(* The readers that have come to an end.                                   *)
Totalled(r, x) == [r EXCEPT !.grid.total = x]
Corrupted(r) == [r EXCEPT !.grid.fault = "corrupt"]
FrontsOf(ls, h, m) == [x \in Rows |-> SubSeq(ls[x], 1, h[m][x])]

HasGrid(r, ls, total, broken) == r.grid.lists = ls /\ r.grid.total = total /\ r.grid.fault = broken
Reader(a, c, ls) == [at |-> a, column |-> c, grid |-> OpenGrid(ls)]

LEMMA ClosedGrids ==
  ASSUME NEW a, NEW c, NEW ls, NEW x
  PROVE  /\ HasGrid(Totalled(Reader(a, c, ls), x), ls, x, "")
         /\ HasGrid(Corrupted(Reader(a, c, ls)), ls, 0, "corrupt")
<1>1. PICK g : g = [lists |-> ls, total |-> 0, fault |-> ""]
  OBVIOUS
<1>2. PICK r : r = [at |-> a, column |-> c, grid |-> g]
  OBVIOUS
<1>3. r = Reader(a, c, ls)
  BY Zenon, <1>1, <1>2 DEF OpenGrid, Reader
<1>4. r.grid = g /\ r = [at |-> r.at, column |-> r.column, grid |-> r.grid]
  BY <1>2
<1>5. [r EXCEPT !.grid.total = x].grid = [g EXCEPT !.total = x]
  BY Zenon, <1>4
<1>6. [r EXCEPT !.grid.fault = "corrupt"].grid = [g EXCEPT !.fault = "corrupt"]
  BY Zenon, <1>4
<1>7. [g EXCEPT !.total = x].lists = ls /\ [g EXCEPT !.total = x].total = x /\ [g EXCEPT !.total = x].fault = ""
  BY Zenon, <1>1
<1>8. /\ [g EXCEPT !.fault = "corrupt"].lists = ls /\ [g EXCEPT !.fault = "corrupt"].total = 0
      /\ [g EXCEPT !.fault = "corrupt"].fault = "corrupt"
  BY Zenon, <1>1
<1> QED
  BY Zenon, <1>3, <1>5, <1>6, <1>7, <1>8 DEF Totalled, Corrupted, HasGrid

LEMMA ReaderIs ==
  ASSUME NEW a, NEW c, NEW ls
  PROVE  /\ Reader(a, c, ls).at = a /\ Reader(a, c, ls).column = c
         /\ ~Ended(Reader(a, c, ls).grid)
<1>1. Reader(a, c, ls).at = a /\ Reader(a, c, ls).column = c /\ Reader(a, c, ls).grid = OpenGrid(ls)
  BY DEF Reader
<1>2. OpenGrid(ls).total = 0 /\ OpenGrid(ls).fault = ""
  BY Zenon DEF OpenGrid
<1> QED
  BY Zenon, <1>1, <1>2 DEF Ended

LEMMA ReaderAfterIs ==
  ASSUME NEW ls, NEW E, NEW h, NEW off, NEW m
  PROVE  ReaderAfter(ls, E, h, off, m) = Reader(off[m] + 1, ColumnAfter(E, m), FrontsOf(ls, h, m))
BY Zenon DEF ReaderAfter, OpenGrid, FrontsOf, Reader

ReadToTheEnd(reader, rows) ==
  Ended(reader.grid) /\ reader.grid.fault = "" /\ reader.grid.lists = rows

(* The end of the track ends the reading.                                  *)
LEMMA EndRead ==
  ASSUME TicksPerColumn \in Nat \ {0}, Rows \subseteq Nat,
         NEW ls, NEW E, NEW h, Rereadable(ls, E, h), NEW off, NEW bytes, WrittenAt(E, off, bytes),
         NEW n, n = Len(E)
  PROVE  ReadToTheEnd(ReadEvent(bytes, ReaderAfter(ls, E, h, off, n)), FrontsOf(ls, h, n))
<1>1. Len(E) \in Nat /\ Len(E) \in 0 .. Len(E)
  BY DEF Rereadable
<1>2. PICK p \in Nat \ {0} : p = off[Len(E)] + 1
  <2>1. off[Len(E)] \in Nat
    BY <1>1 DEF WrittenAt
  <2> QED
    BY <2>1
<1>3. Len(bytes) = p + 3 /\ bytes[p] = 0 /\ bytes[p + 1] = 255
  <2>1. off[Len(E)] \in Nat /\ 1 \in 1 .. 4 /\ 2 \in 1 .. 4
    BY <1>1 DEF WrittenAt
  <2>2. off[Len(E)] + 1 = p /\ off[Len(E)] + 2 = p + 1 /\ off[Len(E)] + 4 = p + 3
    BY <1>2, <2>1
  <2>3. bytes[off[Len(E)] + 1] = EndOfTrack[1] /\ bytes[off[Len(E)] + 2] = EndOfTrack[2]
    BY <2>1 DEF WrittenAt
  <2>4. EndOfTrack[1] = 0 /\ EndOfTrack[2] = 255
    BY DEF EndOfTrack
  <2>5. Len(bytes) = off[Len(E)] + 4
    BY DEF WrittenAt
  <2> QED
    BY Zenon, <2>2, <2>3, <2>4, <2>5
<1>4. 0 \in Times /\ VarLenBytes(0) = 1 /\ VarLen(0)[1] = 0 /\ DeltaTimeNumBytes(0) = 1
  <2>1. 0 \in Times
    BY SMT, TimesAre
  <2>2. VarLenBytes(0) = 1 /\ DeltaTimeNumBytes(0) = 1
    BY SMT, <2>1, VarLenBytesIs, NumBytesIs
  <2>3. VarLen(0)[1] = 0 % 128
    BY SMT, <2>1, <2>2, VarLenIs
  <2>4. 0 % 128 = 0
    BY SMT
  <2> QED
    BY Zenon, <2>1, <2>2, <2>3, <2>4
<1>5. DeltaTimeAt(bytes, p) = 0
  <2>1. p + VarLenBytes(0) - 1 <= Len(bytes) /\ Len(bytes) \in Nat
    BY <1>3, <1>4
  <2>2. \A i \in 1 .. VarLenBytes(0) : bytes[p + i - 1] = VarLen(0)[i]
    <3>1. 1 .. VarLenBytes(0) = {1} /\ p + 1 - 1 = p
      BY <1>4
    <3> QED
      BY <1>3, <1>4, <3>1
  <2> QED
    BY SMT, <1>4, <2>1, <2>2, DeltaTimeIs
<1>6. 0 \div TicksPerColumn = 0
  <2>1. 0 * TicksPerColumn = 0
    OBVIOUS
  <2> QED
    BY <2>1, WholeColumns
<1>7. PICK reader : reader = ReaderAfter(ls, E, h, off, n)
  OBVIOUS
<1>8. /\ reader = Reader(p, ColumnAfter(E, n), FrontsOf(ls, h, n))
      /\ reader.at = p /\ reader.column = ColumnAfter(E, n) /\ ~Ended(reader.grid)
  <2>1. reader = Reader(off[n] + 1, ColumnAfter(E, n), FrontsOf(ls, h, n)) /\ p = off[n] + 1
    BY Zenon, <1>2, <1>7, ReaderAfterIs
  <2>2. reader = Reader(p, ColumnAfter(E, n), FrontsOf(ls, h, n))
    BY Zenon, <2>1
  <2>3. /\ Reader(p, ColumnAfter(E, n), FrontsOf(ls, h, n)).at = p
        /\ Reader(p, ColumnAfter(E, n), FrontsOf(ls, h, n)).column = ColumnAfter(E, n)
        /\ ~Ended(Reader(p, ColumnAfter(E, n), FrontsOf(ls, h, n)).grid)
    BY ReaderIs
  <2> QED
    BY Zenon, <2>2, <2>3
<1>9. ReadEvent(bytes, reader) = [reader EXCEPT !.grid.total = reader.column + 0 + 1]
  <2>1. bytes[p + 1] = MetaMsg /\ MetaMsg \notin {NoteOn, NoteOff}
    BY <1>3 DEF MetaMsg, NoteOn, NoteOff
  <2>2. ReadEvent(bytes, reader) = [reader EXCEPT !.grid.total = reader.column + 0 \div TicksPerColumn + 1]
    BY <1>4, <1>5, <1>8, <2>1 DEF ReadEvent
  <2> QED
    BY Zenon, <1>6, <2>2
<1>10. PICK t : t = reader.column + 0 + 1
  OBVIOUS
<1>11. t # 0
  <2>1. reader.column \in Nat
    <3>1. CASE Len(E) = 0
      BY <1>7, <1>8, <3>1 DEF ColumnAfter
    <3>2. CASE Len(E) # 0
      <4>1. Len(E) \in 1 .. Len(E)
        BY <1>1, <3>2
      <4>2. E[Len(E)].event.col \in Rows
        BY <4>1 DEF Rereadable
      <4> QED
        BY <1>7, <1>8, <3>2, <4>2 DEF ColumnAfter
    <3> QED
      BY <3>1, <3>2
  <2> QED
    BY <1>10, <2>1
<1>12. PICK next : next = ReadEvent(bytes, reader)
  OBVIOUS
<1>13. next.grid.lists = FrontsOf(ls, h, n) /\ next.grid.total = t /\ next.grid.fault = ""
  <2>1. next = Totalled(reader, t)
    BY Zenon, <1>9, <1>10, <1>12 DEF Totalled
  <2>2. reader = Reader(p, ColumnAfter(E, n), FrontsOf(ls, h, n))
    BY <1>8
  <2>3. HasGrid(next, FrontsOf(ls, h, n), t, "")
    BY <2>1, <2>2, ClosedGrids
  <2> QED
    BY Zenon, <2>3 DEF HasGrid
<1> QED
  BY Zenon, <1>7, <1>11, <1>12, <1>13 DEF Ended, ReadToTheEnd

(* A miscounted delta time ends it too.                                    *)
LEMMA CorruptRead ==
  ASSUME NEW ls, NEW E, NEW h, Rereadable(ls, E, h), NEW off, NEW bytes, WrittenAt(E, off, bytes),
         NEW m \in 1 .. Len(E), ~Reread(E, m)
  PROVE  ReadEvent(bytes, ReaderAfter(ls, E, h, off, m - 1)).grid.fault = "corrupt"
<1>1. PICK reader : reader = ReaderAfter(ls, E, h, off, m - 1)
  OBVIOUS
<1>2. ReadEvent(bytes, reader) = Corrupted(reader)
  BY <1>1, EventRead DEF Corrupted
<1>3. reader = Reader(off[m - 1] + 1, ColumnAfter(E, m - 1), FrontsOf(ls, h, m - 1))
  BY Zenon, <1>1, ReaderAfterIs
<1>4. HasGrid(Corrupted(reader), FrontsOf(ls, h, m - 1), 0, "corrupt")
  BY <1>3, ClosedGrids
<1>5. Corrupted(reader).grid.fault = "corrupt"
  BY Zenon, <1>4 DEF HasGrid
<1> QED
  BY Zenon, <1>1, <1>2, <1>5

LEMMA StartIs ==
  ASSUME NEW ls, NEW E, NEW h, Rereadable(ls, E, h), NEW off, NEW bytes, WrittenAt(E, off, bytes)
  PROVE  Start(Rows) = ReaderAfter(ls, E, h, off, 0)
<1>1. off[0] = 0 /\ h[0] = [r \in Rows |-> 0] /\ ls \in [Rows -> Seq(Event)]
  BY DEF WrittenAt, Rereadable, FromTheFronts
<1>2. \A r \in Rows : SubSeq(ls[r], 1, h[0][r]) = <<>>
  BY <1>1
<1>3. [r \in Rows |-> SubSeq(ls[r], 1, h[0][r])] = [r \in Rows |-> <<>>]
  BY <1>2
<1>4. off[0] + 1 = 1
  BY <1>1
<1> QED
  BY Zenon, <1>3, <1>4 DEF Start, Empty, ReaderAfter, ColumnAfter

ReadAs(grid, ls, E, h) ==
  IF \E i \in 1 .. Len(E) : ~Reread(E, i) THEN grid.fault = "corrupt"
  ELSE grid.fault = "" /\ grid.lists = FrontsOf(ls, h, Len(E))

(* A written file is read back event by event to its end, or to the first  *)
(* delta time the reader miscounts.                                        *)
LEMMA LoadedIs ==
  ASSUME TicksPerColumn \in Nat \ {0}, Rows \subseteq Nat,
         NEW ls, NEW E, NEW h, Rereadable(ls, E, h), NEW off, NEW bytes, WrittenAt(E, off, bytes)
  PROVE  ReadAs(ReadTrack(bytes, Rows), ls, E, h)
<1>1. PICK n \in Nat : n = Len(E)
  BY DEF Rereadable
<1>2. PICK len \in Nat : len = Len(bytes) /\ n + 1 <= len
  <2>1. off[n] \in Nat /\ Len(bytes) = off[n] + 4 /\ n + 1 <= Len(bytes)
    BY <1>1 DEF WrittenAt
  <2> QED
    BY <2>1
<1>3. PICK R : /\ R[0] = Start(Rows)
               /\ \A k \in 0 .. len - 1 : R[k + 1] = ReadEvent(bytes, R[k])
               /\ ReadTrack(bytes, Rows) = R[len].grid
  BY <1>2, LoadIs
<1> DEFINE T == {k \in 0 .. n : (\A i \in 1 .. k : Reread(E, i)) => R[k] = ReaderAfter(ls, E, h, off, k)}
<1>4. 0 \in T
  BY <1>3, StartIs
<1>5. ASSUME NEW k \in 0 .. n - 1, k \in T PROVE k + 1 \in T
  <2> SUFFICES ASSUME \A i \in 1 .. k + 1 : Reread(E, i) PROVE R[k + 1] = ReaderAfter(ls, E, h, off, k + 1)
    OBVIOUS
  <2>1. /\ k + 1 \in 1 .. Len(E) /\ (k + 1) - 1 = k /\ k + 1 \in 1 .. k + 1 /\ k \in 0 .. len - 1
        /\ \A i \in 1 .. k : i \in 1 .. k + 1
    BY <1>1, <1>2
  <2>2. R[k] = ReaderAfter(ls, E, h, off, k) /\ R[k + 1] = ReadEvent(bytes, R[k]) /\ Reread(E, k + 1)
    BY <1>3, <1>5, <2>1
  <2> QED
    BY <2>1, <2>2, EventRead
<1>6. \A k \in 0 .. n : k \in T
  <2> HIDE DEF T
  <2> QED
    BY <1>4, <1>5, UpTo
<1>7. CASE \A i \in 1 .. n : Reread(E, i)
  <2>1. R[n] = ReaderAfter(ls, E, h, off, n)
    BY <1>6, <1>7
  <2>2. n \in 0 .. len - 1 /\ n + 1 \in 0 .. len
    BY <1>2
  <2>3. R[n + 1] = ReadEvent(bytes, R[n])
    BY <1>3, <2>2
  <2>4. /\ Ended(R[n + 1].grid) /\ R[n + 1].grid.fault = ""
        /\ R[n + 1].grid.lists = FrontsOf(ls, h, n)
    <3>1. ReadToTheEnd(ReadEvent(bytes, ReaderAfter(ls, E, h, off, n)), FrontsOf(ls, h, n))
      <4> HIDE DEF T
      <4> QED
        BY Zenon, <1>1, EndRead
    <3>2. ReadToTheEnd(R[n + 1], FrontsOf(ls, h, n))
      BY Zenon, <2>1, <2>3, <3>1
    <3> QED
      BY Zenon, <3>2 DEF ReadToTheEnd
  <2>5. R[len] = R[n + 1]
    <3>1. Runs(bytes, len, R)
      BY <1>3 DEF Runs
    <3>2. PICK e : e = n + 1
      OBVIOUS
    <3>3. e \in 0 .. len /\ Ended(R[e].grid)
      BY Zenon, <2>2, <2>4, <3>2
    <3>4. R[len] = R[e]
      <4> HIDE DEF T
      <4> QED
        BY <1>2, <3>1, <3>3, EndedStays
    <3> QED
      BY Zenon, <3>2, <3>4
  <2> QED
    BY Zenon, <1>1, <1>3, <1>7, <2>4, <2>5 DEF ReadAs
<1>8. CASE \E i \in 1 .. n : ~Reread(E, i)
  <2> DEFINE B == {i \in 1 .. n : ~Reread(E, i)}
  <2>1. B # {} /\ B \subseteq Nat
    BY <1>8
  <2>2. PICK m \in B : \A i \in B : m <= i
    <3> HIDE DEF B
    <3> QED
      BY <2>1, LeastNatural
  <2>3. m \in 1 .. n /\ m - 1 \in 0 .. n /\ (m - 1) + 1 = m /\ m \in 0 .. len /\ m - 1 \in 0 .. len - 1
    BY <1>2
  <2>4. \A i \in 1 .. m - 1 : Reread(E, i)
    BY <2>2, <2>3
  <2>5. R[m - 1] = ReaderAfter(ls, E, h, off, m - 1)
    BY <1>6, <2>3, <2>4
  <2>6. R[m] = ReadEvent(bytes, R[m - 1])
    BY <1>3, <2>3
  <2>7. R[m].grid.fault = "corrupt"
    <3>1. m \in 1 .. Len(E) /\ ~Reread(E, m)
      BY <1>1, <2>2, <2>3
    <3>2. ReadEvent(bytes, ReaderAfter(ls, E, h, off, m - 1)).grid.fault = "corrupt"
      <4> HIDE DEF B
      <4> QED
        BY Zenon, <3>1, CorruptRead
    <3> QED
      BY Zenon, <2>5, <2>6, <3>2
  <2>8. Ended(R[m].grid)
    BY <2>7 DEF Ended
  <2>9. R[len] = R[m]
    <3>1. Runs(bytes, len, R)
      BY <1>3 DEF Runs
    <3>2. PICK e : e = m
      OBVIOUS
    <3>3. e \in 0 .. len /\ Ended(R[e].grid)
      BY <2>3, <2>8, <3>2
    <3>4. R[len] = R[e]
      <4> HIDE DEF B, T
      <4> QED
        BY <1>2, <3>1, <3>3, EndedStays
    <3> QED
      BY Zenon, <3>2, <3>4
  <2> QED
    BY Zenon, <1>1, <1>3, <1>8, <2>7, <2>9 DEF ReadAs
<1> QED
  BY <1>7, <1>8

-----------------------------------------------------------------------------
(* An event's column is the column of its note, or the note's end; its     *)
(* number is a row nobody uses.                                            *)
LEMMA EventColumns ==
  ASSUME FileConditions, GridInv, NEW r \in Rows, NEW i \in DOMAIN lists[r]
  PROVE  /\ lists[r][i].col \in 0 .. 510 /\ lists[r][i].col \in Rows
         /\ lists[lists[r][i].col] = <<>>
<1>1. PICK l \in Seq(Event) : l = lists[r]
  BY ListTypes
<1>2. RowOfNotes(l) /\ DOMAIN l = 1 .. Len(l) /\ Len(l) \in Nat /\ i \in DOMAIN l /\ i \in Int
      /\ \A j \in DOMAIN l : l[j].col \in Nat
  BY <1>1, ListTypes, EventsOfRow
<1>3. \A c \in Columns : c \in Rows \ UsedRows
  BY GridAssumption
<1>4. CASE i % 2 = 1
  <2>1. l[i].col \in Columns
    BY <1>2, <1>4 DEF RowOfNotes
  <2>2. l[i].col \in 0 .. 510 /\ l[i].col \in Rows \ UsedRows
    <3>1. PICK c \in Columns : c = l[i].col
      BY <2>1
    <3>2. c \in Nat /\ c <= 255 /\ c \in Rows \ UsedRows
      BY Zenon, <1>3, Bytes
    <3>3. c \in 0 .. 510
      BY <3>2
    <3> QED
      BY Zenon, <3>1, <3>2, <3>3
  <2> QED
    BY Zenon, <1>1, <2>2 DEF GridInv
<1>5. CASE i % 2 # 1
  <2>1. i # 1
    <3>1. 1 % 2 = 1
      OBVIOUS
    <3> QED
      BY <1>5, <3>1
  <2>2. i - 1 \in DOMAIN l /\ (i - 1) + 1 = i
    BY <1>2, <2>1
  <2>3. (i - 1) % 2 = 1
    <3>1. i \in Int /\ i % 2 = 0
      BY <1>2, <1>5, Parity
    <3>2. (i - 1) % 2 = 1 - (i % 2)
      BY <3>1, Parity
    <3> QED
      BY <3>1, <3>2
  <2>4. l[i - 1].col \in Columns /\ l[i].col - l[i - 1].col \in Durations
    BY <1>2, <2>2, <2>3 DEF RowOfNotes
  <2>5. PICK c \in Columns : c = l[i - 1].col
    BY <2>4
  <2>6. PICK d \in Durations : d = l[i].col - c
    BY <2>4, <2>5
  <2>7. l[i].col = c + d /\ l[i].col \in 0 .. 510
    <3>1. PICK x \in Nat : x = l[i].col
      BY <1>2
    <3>2. d = x - c /\ c \in Nat /\ c <= 255 /\ d \in Nat /\ d <= 255
      BY <2>6, <3>1, Bytes
    <3>3. x = c + d /\ x \in 0 .. 510
      BY <3>2
    <3> QED
      BY <3>1, <3>3
  <2>8. c + d \in Rows \ UsedRows
    BY DEF FileConditions
  <2>9. lists[r][i].col \in 0 .. 510
    BY <1>1, <2>7
  <2>10. lists[r][i].col = c + d
    BY <1>1, <2>7
  <2>11. lists[r][i].col \in Rows /\ lists[lists[r][i].col] = <<>>
    BY Zenon, <2>8, <2>10 DEF GridInv
  <2> QED
    BY Zenon, <2>9, <2>11
<1> QED
  BY <1>4, <1>5

LEMMA RowsNatural ==
  ASSUME FileConditions
  PROVE  Rows \subseteq Nat
<1>1. PICK n \in Nat : n = Cardinality(Rows)
  BY GridAssumption, FS_CardinalityType
<1>2. Rows = 0 .. n - 1
  BY Zenon, <1>1 DEF FileConditions
<1> QED
  BY <1>2

LEMMA TimesFit ==
  ASSUME FileConditions, NEW a \in 0 .. 510
  PROVE  a * TicksPerColumn \in Times /\ (a * TicksPerColumn) \div TicksPerColumn = a
<1>1. PICK t \in Nat \ {0} : t = TicksPerColumn
  BY DEF FileConditions
<1>2. a * t \in Nat /\ a * t <= 510 * t /\ (a * t) \div t = a
  BY TimeOfColumns, WholeColumns
<1>3. 510 * t < 128 ^ 4 /\ 510 * t \in Nat
  BY <1>1 DEF FileConditions
<1>4. 510 * t < 268435456
  <2>1. 128 ^ 4 = 268435456
    BY SMT
  <2> QED
    BY SMT, <1>3, <2>1
<1>5. a * t < 268435456
  BY SMT, <1>2, <1>3, <1>4
<1>6. a * t \in Times
  BY SMT, <1>2, <1>5, TimesAre
<1>7. (a * t) \div t = a
  BY <1>2
<1> QED
  BY ONLY Zenon, <1>1, <1>6, <1>7

(* The file of a grid without overlaps.                                    *)
LEMMA FileIsRereadable ==
  ASSUME FileConditions, GridInv, NEW E, E = SavedEvents(lists, totalGridColumns)
  PROVE  \E h : /\ Rereadable(lists, E, h)
                /\ h[Len(E)] = [r \in Rows |-> InsertionPoint(lists[r], totalGridColumns)]
<1>1. /\ lists \in [Rows -> Seq(Event)] /\ totalGridColumns \in Nat
      /\ \A r \in Rows : InTimeOrder(lists[r])
  BY ListTypes, TidyMonotone DEF InTimeOrder
<1>2. RowsNumbered
  BY DEF RowsNumbered, FileConditions
<1>3. SavedUpTo(lists, E, [r \in Rows |-> InsertionPoint(lists[r], totalGridColumns)], totalGridColumns + 1)
  BY <1>1, <1>2, AllSaved
<1>4. PICK h : /\ FromTheFronts(lists, E, h)
               /\ h[Len(E)] = [r \in Rows |-> InsertionPoint(lists[r], totalGridColumns)]
  BY <1>3 DEF SavedUpTo
<1>5. E \in Seq(SavedEvent) /\ InFileOrder(E, totalGridColumns + 1) /\ Len(E) \in Nat
  BY <1>3 DEF SavedUpTo
<1>6. ASSUME NEW m \in 1 .. Len(E)
      PROVE  E[m].event.col \in 0 .. 510 /\ E[m].event.col \in Rows /\ lists[E[m].event.col] = <<>>
  <2>1. E[m] \in SavedEvent
    BY <1>5
  <2>2. PICK r \in Rows : r = E[m].row
    BY <2>1 DEF SavedEvent
  <2>3. PICK i \in DOMAIN lists[r] : E[m].event = lists[r][i]
    BY <1>4, <2>2 DEF FromTheFronts
  <2> QED
    <3>1. /\ lists[r][i].col \in 0 .. 510 /\ lists[r][i].col \in Rows
          /\ lists[lists[r][i].col] = <<>>
      BY EventColumns
    <3> QED
      BY Zenon, <2>3, <3>1
<1>7. ASSUME NEW m \in 1 .. Len(E)
      PROVE  /\ DeltaTime(E, m) \in Times
             /\ ColumnAfter(E, m - 1) + DeltaTime(E, m) \div TicksPerColumn = E[m].event.col
  <2>1. ColumnAfter(E, m - 1) \in 0 .. 510 /\ ColumnAfter(E, m - 1) <= E[m].event.col
    <3>1. CASE m = 1
      <4>1. m - 1 = 0
        BY <3>1
      <4>2. ColumnAfter(E, m - 1) = 0
        BY Zenon, <4>1 DEF ColumnAfter
      <4> QED
        <5>1. PICK q \in 0 .. 510 : q = E[m].event.col
          BY <1>6
        <5>2. 0 \in 0 .. 510 /\ 0 <= q
          OBVIOUS
        <5> QED
          BY Zenon, <4>2, <5>1, <5>2
    <3>2. CASE m # 1
      <4>1. m - 1 \in 1 .. Len(E) - 1 /\ m - 1 \in 1 .. Len(E) /\ (m - 1) + 1 = m /\ m - 1 # 0
        BY <1>5, <3>2
      <4> QED
        <5>1. ColumnAfter(E, m - 1) = E[m - 1].event.col
          BY Zenon, <4>1 DEF ColumnAfter
        <5>2. E[m - 1].event.col <= E[m].event.col
          BY <1>5, <4>1 DEF InFileOrder
        <5>3. E[m - 1].event.col \in 0 .. 510
          BY Zenon, <1>6, <4>1
        <5>4. ColumnAfter(E, m - 1) \in 0 .. 510
          BY Zenon, <5>1, <5>3
        <5>5. ColumnAfter(E, m - 1) <= E[m].event.col
          BY Zenon, <5>1, <5>2
        <5> QED
          BY Zenon, <5>4, <5>5
    <3> QED
      BY <3>1, <3>2
  <2>2. PICK p \in 0 .. 510 : p = ColumnAfter(E, m - 1)
    BY <2>1
  <2>3. PICK q \in 0 .. 510 : q = E[m].event.col
    BY <1>6
  <2>4. p <= q
    BY <2>1, <2>2, <2>3
  <2>5. PICK a \in 0 .. 510 : q - p = a /\ p + a = q
    BY <2>4
  <2>6. DeltaTime(E, m) = a * TicksPerColumn
    <3>1. m = 1 <=> m - 1 = 0
      OBVIOUS
    <3> QED
      BY Zenon, <2>2, <2>3, <2>5, <3>1 DEF DeltaTime, ColumnAfter
  <2>7. DeltaTime(E, m) \in Times /\ DeltaTime(E, m) \div TicksPerColumn = a
    <3>1. a * TicksPerColumn \in Times /\ (a * TicksPerColumn) \div TicksPerColumn = a
      BY TimesFit
    <3> QED
      BY Zenon, <2>6, <3>1
  <2> QED
    BY Zenon, <2>2, <2>3, <2>5, <2>7
<1>8. Rereadable(lists, E, h)
  <2>1. \A m \in 1 .. Len(E) : E[m].event.col \in Rows /\ lists[E[m].event.col] = <<>>
    BY <1>6
  <2> QED
    BY Zenon, <1>1, <1>4, <1>5, <1>7, <2>1 DEF Rereadable
<1> QED
  BY <1>4, <1>8

LEMMA TrackIsWritten ==
  ASSUME Rows \subseteq Nat, NEW E \in Seq(SavedEvent), \A i \in 1 .. Len(E) : DeltaTime(E, i) \in Times,
         NEW bytes, bytes = FlattenSeq([i \in DOMAIN E |-> EventBytes(E, i)]) \o EndOfTrack
  PROVE  \E off : WrittenAt(E, off, bytes)
<1> DEFINE S == Nat \cup Velocities \cup {127}
<1>1. PICK n \in Nat : n = Len(E) /\ DOMAIN E = 1 .. n
  OBVIOUS
<1>2. PICK ss : ss = [i \in 1 .. n |-> EventBytes(E, i)]
  OBVIOUS
<1>3. ASSUME NEW i \in 1 .. n
      PROVE  EventBytes(E, i) \in Seq(S) /\ Len(EventBytes(E, i)) \in Nat /\ Len(EventBytes(E, i)) >= 1
  <2>1. PICK k : k = VarLenBytes(DeltaTime(E, i))
    OBVIOUS
  <2>2. DeltaTime(E, i) \in Times
    BY <1>1
  <2>3. k \in 1 .. 4
    BY SMT, <2>1, <2>2, VarLenIs
  <2>4. Nat \subseteq S /\ E[i].row \in S /\ E[i].event.vel \in S
    <3>1. E[i] \in SavedEvent
      BY <1>1
    <3> QED
      BY <3>1 DEF SavedEvent, Event
  <2> HIDE DEF S
  <2>5. EventBytes(E, i) \in Seq(S) /\ Len(EventBytes(E, i)) = k + 3
    BY <2>1, <2>2, <2>4, EventBytesAre
  <2> QED
    BY <2>3, <2>5
<1> HIDE DEF S
<1>4. ss \in Seq(Seq(S)) /\ Len(ss) = n /\ \A i \in 1 .. n : ss[i] = EventBytes(E, i)
  BY <1>2, <1>3
<1>5. PICK t \in Seq(S) : t = FlattenSeq(ss)
  BY <1>4, FlattenIsLaid
<1>6. PICK off : LaidAt(ss, n, t, off)
  BY <1>4, <1>5, FlattenIsLaid
<1>7. n <= Len(t)
  <2>1. \A i \in 1 .. n : Len(ss[i]) \in Nat /\ Len(ss[i]) >= 1
    BY <1>3, <1>4
  <2> QED
    BY <1>6, <2>1, LaidIsLong
<1>8. PICK u \in Seq(S) : u = EndOfTrack /\ Len(u) = 4
  <2>1. <<0, 255, 47, 0>> \in Seq(S) /\ Len(<<0, 255, 47, 0>>) = 4
    <3>1. 0 \in S /\ 255 \in S /\ 47 \in S
      BY DEF S
    <3> QED
      BY <3>1
  <2> QED
    BY Zenon, <2>1 DEF EndOfTrack
<1>9. bytes = t \o u
  BY Zenon, <1>1, <1>2, <1>5, <1>8
<1>10. /\ Len(bytes) = Len(t) + 4 /\ Len(t) \in Nat
       /\ \A p \in 1 .. Len(t) : bytes[p] = t[p]
       /\ \A p \in 1 .. 4 : bytes[Len(t) + p] = u[p]
  <2>1. /\ Len(t \o u) = Len(t) + Len(u) /\ Len(t) \in Nat
        /\ \A p \in 1 .. Len(t) : (t \o u)[p] = t[p]
        /\ \A p \in 1 .. Len(u) : (t \o u)[Len(t) + p] = u[p]
    BY ConcatPositions
  <2> QED
    BY Zenon, <1>8, <1>9, <2>1
<1>11. off \in [0 .. n -> Nat] /\ off[0] = 0 /\ off[n] = Len(t)
  BY <1>6 DEF LaidAt
<1>12. ASSUME NEW i \in 1 .. n
       PROVE  /\ off[i] = off[i - 1] + Len(EventBytes(E, i)) /\ off[i] <= Len(bytes)
              /\ \A j \in 1 .. Len(EventBytes(E, i)) : bytes[off[i - 1] + j] = EventBytes(E, i)[j]
  <2>1. PICK b : b = EventBytes(E, i)
    OBVIOUS
  <2>2. /\ off[i] = off[i - 1] + Len(b) /\ off[i] <= Len(t)
        /\ \A j \in 1 .. Len(b) : t[off[i - 1] + j] = b[j]
    BY <1>4, <1>6, <2>1 DEF LaidAt
  <2>3. PICK a \in Nat : a = off[i - 1]
    BY <1>11
  <2>4. PICK k \in Nat : k = Len(b)
    BY <1>3, <2>1
  <2>5. a + k <= Len(t) /\ off[i] <= Len(bytes)
    BY <1>10, <2>2, <2>3, <2>4
  <2>6. \A j \in 1 .. k : a + j \in 1 .. Len(t)
    BY <1>10, <2>5
  <2>7. \A j \in 1 .. k : bytes[a + j] = b[j]
    BY <1>10, <2>2, <2>3, <2>4, <2>6
  <2> QED
    BY Zenon, <2>1, <2>2, <2>3, <2>4, <2>5, <2>7
<1>13. \A j \in 1 .. 4 : bytes[off[n] + j] = EndOfTrack[j]
  BY Zenon, <1>8, <1>10, <1>11
<1>14. Len(bytes) = off[n] + 4 /\ n + 1 <= Len(bytes)
  BY <1>7, <1>10, <1>11
<1>15. WrittenAt(E, off, bytes)
  BY Zenon, <1>1, <1>11, <1>12, <1>13, <1>14 DEF WrittenAt
<1> QED
  BY Zenon, <1>15

(* The track a grid of notes that do not overlap is saved as, read by the  *)
(* loop of gridManager_midiFileToGrid from the reset state, gives back     *)
(* every row up to the recorded number of columns if the loop comes to the *)
(* end of the track, which only a miscounted delta time prevents           *)
(* (gridManager_gridDataToMidiFile, gridManager.c:623-749). The function   *)
(* itself does not reach its loop: see LoadRestoresGrid.                   *)
THEOREM SavedTracksRead ==
  ASSUME FileConditions
  PROVE  CallerSpec => []TrackRestoresGrid
<1>1. ASSUME GridInv PROVE TrackRestoresGrid
  <2>1. PICK E : E = SavedEvents(lists, totalGridColumns)
    OBVIOUS
  <2>2. PICK h : /\ Rereadable(lists, E, h)
                 /\ h[Len(E)] = [r \in Rows |-> InsertionPoint(lists[r], totalGridColumns)]
    BY <1>1, <2>1, FileIsRereadable
  <2>3. PICK bytes : bytes = Track(lists, totalGridColumns)
    OBVIOUS
  <2>4. bytes = FlattenSeq([i \in DOMAIN E |-> EventBytes(E, i)]) \o EndOfTrack
    BY Zenon, <2>1, <2>3 DEF Track
  <2>5. E \in Seq(SavedEvent) /\ \A i \in 1 .. Len(E) : DeltaTime(E, i) \in Times
    BY <2>2 DEF Rereadable
  <2>6. TicksPerColumn \in Nat \ {0} /\ Rows \subseteq Nat
    BY RowsNatural DEF FileConditions
  <2>7. PICK off : WrittenAt(E, off, bytes)
    BY <2>4, <2>5, <2>6, TrackIsWritten
  <2>8. PICK loaded : loaded = ReadTrack(bytes, Rows)
    OBVIOUS
  <2>9. IF \E i \in 1 .. Len(E) : ~Reread(E, i) THEN loaded.fault = "corrupt"
        ELSE loaded.fault = "" /\ loaded.lists = FrontsOf(lists, h, Len(E))
    <3>1. ReadAs(ReadTrack(bytes, Rows), lists, E, h)
      BY Zenon, <2>2, <2>6, <2>7, LoadedIs
    <3>2. ReadAs(loaded, lists, E, h)
      BY Zenon, <2>8, <3>1
    <3> QED
      BY Zenon, <3>2 DEF ReadAs
  <2>10. Miscounted(E) <=> \E i \in 1 .. Len(E) : ~Reread(E, i)
    <3>1. DOMAIN E = 1 .. Len(E)
      BY <2>5
    <3> QED
      BY Zenon, <3>1 DEF Miscounted, Reread
  <2>11. \A r \in Rows : FrontsOf(lists, h, Len(E))[r] = SubSeq(lists[r], 1, InsertionPoint(lists[r], totalGridColumns))
    BY Zenon, <2>2 DEF FrontsOf
  <2>12. "corrupt" # ""
    OBVIOUS
  <2>13. Miscounted(E) \/ loaded.fault = ""
    BY Zenon, <2>9, <2>10
  <2>14. loaded.fault = "" => HoldsSavedRows(loaded)
    BY Zenon, <2>9, <2>11, <2>12 DEF HoldsSavedRows
  <2> QED
    BY Zenon, <2>1, <2>3, <2>8, <2>13, <2>14 DEF TrackRestoresGrid
<1> QED
  BY <1>1, InvariantHolds, PTL

-----------------------------------------------------------------------------
(* Rows as switch presses and any menu's edits leave them: a note may have *)
(* been edited down to nothing or out over the next one, but the second    *)
(* note at a column keeps its one step, and there is never a third.        *)

PressedRow(l) ==
  /\ Loose(l)
  /\ \A i \in DOMAIN l : i % 2 = 1 =>
       /\ l[i].col \in Columns /\ l[i].vel \in Velocities
       /\ l[i + 1].col - l[i].col \in Durations \cup {0}
  /\ \A i, j \in DOMAIN l : i % 2 = 1 /\ j % 2 = 1 /\ i < j /\ l[i].col = l[j].col =>
       /\ l[j + 1].col = l[j].col + 1
       /\ \A h \in DOMAIN l : h % 2 = 1 /\ l[h].col = l[j].col => h \in {i, j}

(* A position where the scan would stop is where it stops.                 *)
LEMMA ReachIs ==
  ASSUME NEW l \in Seq(Event), NEW c \in Nat, Loose(l), NEW p \in 0 .. Len(l),
         \A i \in 1 .. p : l[i].col <= c, p < Len(l) => l[p + 1].col > c
  PROVE  Reach(l, c) = p
<1> DEFINE q == Reach(l, c)
<1>1. /\ q \in 0 .. Len(l) /\ \A i \in 1 .. q : l[i].col <= c
      /\ q < Len(l) => l[q + 1].col > c
  BY ScanIsPrefix
<1>2. Len(l) \in Nat /\ \A i \in 1 .. Len(l) : l[i].col \in Nat
  BY EventsOfRow
<1> HIDE DEF q
<1>3. ~(q < p)
  <2> SUFFICES ASSUME q < p PROVE FALSE
    OBVIOUS
  <2>1. q + 1 \in 1 .. p /\ q + 1 \in 1 .. Len(l) /\ q < Len(l)
    BY <1>1, <1>2
  <2> QED
    BY <1>1, <1>2, <2>1
<1>4. ~(p < q)
  <2> SUFFICES ASSUME p < q PROVE FALSE
    OBVIOUS
  <2>1. p + 1 \in 1 .. q /\ p + 1 \in 1 .. Len(l) /\ p < Len(l)
    BY <1>1, <1>2
  <2> QED
    BY <1>1, <1>2, <2>1
<1> QED
  BY <1>1, <1>2, <1>3, <1>4 DEF q

(* An edit works on the first note at its column.                          *)
LEMMA EditsTheFirst ==
  ASSUME NEW l \in Seq(Event), NEW c \in Nat, Loose(l), NoteOnAt(l, c) # 0,
         NEW j \in DOMAIN l, j % 2 = 1, l[j].col = c
  PROVE  NoteOnAt(l, c) <= j
<1> DEFINE S == {i \in DOMAIN l : /\ l[i].on /\ l[i].col = c
                                  /\ \A n \in 1 .. i - 1 : l[n].col <= c}
           k == NoteOnAt(l, c)
<1>1. S # {} /\ S \subseteq Nat
  BY EventsOfRow DEF NoteOnAt, First
<1>2. Min(S) \in S /\ \A x \in S : Min(S) <= x
  BY <1>1, LeastNatural
<1>3. k = Min(S)
  BY <1>1 DEF NoteOnAt, First
<1>4. l[j].on
  BY DEF Loose, Alternates
<1>5. j \in Int /\ k \in Int /\ \A n \in 1 .. k - 1 : l[n].col <= c
  <2> HIDE DEF k
  <2>1. k \in S
    BY <1>2, <1>3
  <2> QED
    BY <2>1, EventsOfRow
<1> HIDE DEF k
<1>6. CASE j < k
  <2>1. \A n \in 1 .. j - 1 : l[n].col <= c
    BY <1>5, <1>6
  <2>2. j \in S
    BY <1>4, <2>1
  <2> QED
    BY <1>2, <1>3, <2>2 DEF k
<1> QED
  BY <1>5, <1>6 DEF k

(* There is no room for more than two notes, four events, per column.      *)
LEMMA PressedLength ==
  ASSUME NEW l \in Seq(Event), PressedRow(l), IsFiniteSet(Columns)
  PROVE  Len(l) <= 4 * Cardinality(Columns)
<1>1. DOMAIN l = 1 .. Len(l) /\ Len(l) \in Nat /\ Cardinality(Columns) \in Nat
  BY EventsOfRow, FS_CardinalityType
<1> SUFFICES ASSUME 4 * Cardinality(Columns) < Len(l) PROVE FALSE
  BY <1>1
<1> DEFINE Note(i) == IF i % 2 = 1 THEN i ELSE i - 1
           Lone(i) == \A h \in DOMAIN l : h % 2 = 1 /\ l[h].col = l[i].col => i <= h
           Slot(i) == (IF Lone(Note(i)) THEN 0 ELSE 2) + (i % 2)
           f == [i \in 1 .. Len(l) |-> <<l[Note(i)].col, Slot(i)>>]
<1>2. \A i \in 1 .. Len(l) : Note(i) \in DOMAIN l /\ Note(i) % 2 = 1 /\ Note(i) \in Int /\ i \in Int
  <2> SUFFICES ASSUME NEW i \in 1 .. Len(l)
               PROVE  Note(i) \in DOMAIN l /\ Note(i) % 2 = 1
    BY <1>1
  <2>1. CASE i % 2 = 1
    BY <1>1, <2>1
  <2>2. CASE i % 2 # 1
    <3>1. i % 2 = 0 /\ (i - 1) % 2 = 1
      BY <2>2, Parity
    <3>2. i # 1
      BY <3>1
    <3> QED
      BY <1>1, <2>2, <3>1, <3>2
  <2> QED
    BY <2>1, <2>2
<1>3. f \in [1 .. Len(l) -> Columns \X (0 .. 3)]
  <2> SUFFICES ASSUME NEW i \in 1 .. Len(l) PROVE l[Note(i)].col \in Columns /\ Slot(i) \in 0 .. 3
    OBVIOUS
  <2>1. l[Note(i)].col \in Columns
    BY <1>2 DEF PressedRow
  <2>2. i % 2 \in {0, 1}
    BY <1>2, Parity
  <2> HIDE DEF Lone
  <2> QED
    BY <2>1, <2>2
<1>4. /\ IsFiniteSet(1 .. Len(l)) /\ Cardinality(1 .. Len(l)) = Len(l)
      /\ IsFiniteSet(0 .. 3) /\ Cardinality(0 .. 3) = 4
  <2>1. \A n \in Nat : /\ IsFiniteSet(1 .. n) /\ IsFiniteSet(0 .. n)
                       /\ Cardinality(1 .. n) = IF 1 > n THEN 0 ELSE n - 1 + 1
                       /\ Cardinality(0 .. n) = IF 0 > n THEN 0 ELSE n - 0 + 1
    <3> SUFFICES ASSUME NEW n \in Nat
                 PROVE  /\ IsFiniteSet(1 .. n) /\ IsFiniteSet(0 .. n)
                        /\ Cardinality(1 .. n) = IF 1 > n THEN 0 ELSE n - 1 + 1
                        /\ Cardinality(0 .. n) = IF 0 > n THEN 0 ELSE n - 0 + 1
      OBVIOUS
    <3>1. n \in Int /\ 1 \in Int /\ 0 \in Int
      OBVIOUS
    <3> QED
      BY <3>1, FS_Interval, Zenon
  <2>2. \A n \in Nat : /\ (IF 1 > n THEN 0 ELSE n - 1 + 1) = n
                       /\ (IF 0 > n THEN 0 ELSE n - 0 + 1) = n + 1
    OBVIOUS
  <2>3. 3 \in Nat /\ 3 + 1 = 4
    OBVIOUS
  <2> QED
    BY <1>1, <2>1, <2>2, <2>3
<1>5. IsFiniteSet(Columns \X (0 .. 3)) /\ Cardinality(Columns \X (0 .. 3)) < Cardinality(1 .. Len(l))
  <2>1. /\ IsFiniteSet(Columns \X (0 .. 3))
        /\ Cardinality(Columns \X (0 .. 3)) = Cardinality(Columns) * Cardinality(0 .. 3)
    BY <1>4, FS_Product
  <2> QED
    BY <1>1, <1>4, <2>1
<1> HIDE DEF f
<1>6. PICK i \in 1 .. Len(l), j \in 1 .. Len(l) : i # j /\ f[i] = f[j]
  <2> DEFINE S == 1 .. Len(l)
             T == Columns \X (0 .. 3)
  <2>1. IsFiniteSet(S) /\ IsFiniteSet(T) /\ Cardinality(T) < Cardinality(S) /\ f \in [S -> T]
    BY <1>3, <1>4, <1>5
  <2> HIDE DEF S, T
  <2>2. \E x, y \in S : x # y /\ f[x] = f[y]
    BY <2>1, FS_PigeonHole
  <2> QED
    BY <2>2 DEF S
<1>7. l[Note(i)].col = l[Note(j)].col /\ Slot(i) = Slot(j)
  BY <1>6 DEF f
<1> DEFINE a == Note(i)
           b == Note(j)
<1>8. a \in DOMAIN l /\ b \in DOMAIN l /\ a % 2 = 1 /\ b % 2 = 1 /\ a \in Int /\ b \in Int
  BY <1>2
<1>9. i % 2 = j % 2 /\ (Lone(a) <=> Lone(b))
  <2>1. i % 2 \in {0, 1} /\ j % 2 \in {0, 1}
    BY <1>2, Parity
  <2>2. (IF Lone(a) THEN 0 ELSE 2) + (i % 2) = (IF Lone(b) THEN 0 ELSE 2) + (j % 2)
    BY <1>7
  <2> HIDE DEF Lone, a, b
  <2> DEFINE x == i % 2
             y == j % 2
  <2>3. x \in {0, 1} /\ y \in {0, 1}
    BY <2>1
  <2>4. (IF Lone(a) THEN 0 ELSE 2) + x = (IF Lone(b) THEN 0 ELSE 2) + y
    BY <2>2
  <2> HIDE DEF x, y
  <2>5. x = y /\ (Lone(a) <=> Lone(b))
    BY <2>3, <2>4
  <2> QED
    BY <2>5 DEF x, y
<1>10. a # b
  BY <1>2, <1>6, <1>9
<1> HIDE DEF a, b, Slot
<1>11. l[a].col = l[b].col
  BY <1>7 DEF a, b
<1>12. ~Lone(a) /\ ~Lone(b)
  BY <1>8, <1>9, <1>10, <1>11
<1>13. ASSUME NEW x \in DOMAIN l, NEW y \in DOMAIN l, x % 2 = 1, y % 2 = 1, x < y,
              l[x].col = l[y].col, ~Lone(x)
       PROVE  FALSE
  <2>1. PICK h \in DOMAIN l : h % 2 = 1 /\ l[h].col = l[x].col /\ ~(x <= h)
    BY <1>13
  <2>2. h \in {x, y}
    BY <1>13, <2>1 DEF PressedRow
  <2> HIDE DEF Lone
  <2> QED
    BY <1>1, <1>13, <2>1, <2>2
<1>14. a < b \/ b < a
  BY <1>8, <1>10
<1> HIDE DEF Lone
<1> QED
  BY <1>8, <1>11, <1>12, <1>13, <1>14

(* What a query answers for such a row, when the columns end at b.         *)
LEMMA PressedQuery ==
  ASSUME NEW l \in Seq(Event), PressedRow(l), NEW c \in Nat, NEW b \in 0 .. 255,
         Columns \subseteq 0 .. b, Durations \cup {0} \subseteq 0 .. b
  PROVE  /\ ~QueryFault(l, c)
         /\ NoteAt(l, c).found => /\ NoteAt(l, c).col \in Columns
                                  /\ NoteAt(l, c).vel \in Velocities
                                  /\ NoteAt(l, c).dur \in Durations \cup {0}
         /\ NoteAt(l, c).steps \in 0 .. b
<1> DEFINE p == Reach(l, c)
<1>1. Loose(l) /\ Alternates(l)
  BY DEF PressedRow, Loose
<1>2. /\ DOMAIN l = 1 .. Len(l) /\ Len(l) \in Nat /\ p \in 0 .. Len(l)
      /\ \A i \in DOMAIN l : l[i].col \in Nat
      /\ p < Len(l) => l[p + 1].col > c
  BY <1>1, EventsOfRow, ScanIsPrefix
<1>3. \A i \in DOMAIN l : i % 2 = 1 =>
        /\ l[i].col \in Columns /\ l[i].vel \in Velocities
        /\ l[i + 1].col - l[i].col \in Durations \cup {0}
  BY DEF PressedRow
<1>4. ~QueryFault(l, c)
  BY <1>1, QueryIs
<1>5. CASE p % 2 = 1
  <2>1. p \in DOMAIN l
    BY <1>2, <1>5
  <2> DEFINE x == l[p].col
             y == l[p + 1].col
             z == l[p + 2].col
  <2>2. NoteAt(l, c) = [found |-> TRUE, col |-> x, vel |-> l[p].vel, dur |-> (y - x) % 256,
                        steps |-> IF p + 2 <= Len(l) THEN (z - x) % 256 ELSE 0]
    BY <1>1, <1>5, NoteAtIs
  <2>3. x \in Columns /\ l[p].vel \in Velocities /\ y - x \in Durations \cup {0}
    BY <1>3, <1>5, <2>1
  <2>4. (y - x) % 256 = y - x
    <3> DEFINE w == y - x
    <3>1. w \in 0 .. b
      BY <2>3
    <3> HIDE DEF w
    <3>2. w % 256 = w
      BY <3>1
    <3> QED
      BY <3>2 DEF w
  <2>5. p + 2 <= Len(l) => (z - x) % 256 \in 0 .. b
    <3> SUFFICES ASSUME p + 2 <= Len(l) PROVE (z - x) % 256 \in 0 .. b
      OBVIOUS
    <3>1. p + 2 \in DOMAIN l /\ p \in Int /\ p <= p + 2
      BY <1>2, <2>1
    <3>2. (p + 2) % 2 = 1
      BY <1>5, <3>1, Parity
    <3>3. z \in 0 .. b /\ x \in 0 .. b
      BY <1>3, <2>3, <3>1, <3>2
    <3>4. x <= z
      BY <1>1, <1>5, <2>1, <3>1 DEF Loose
    <3> HIDE DEF x, z
    <3>5. z - x \in 0 .. b /\ (z - x) % 256 = z - x
      BY <3>3, <3>4
    <3> QED
      BY <3>5
  <2> HIDE DEF x, y, z
  <2> QED
    BY <1>4, <2>2, <2>3, <2>4, <2>5
<1>6. CASE p % 2 # 1
  <2> DEFINE z == l[p + 1].col
  <2>1. NoteAt(l, c) = [found |-> FALSE, col |-> 0, dur |-> 0, vel |-> 0,
                        steps |-> IF p < Len(l) THEN (z - c) % 256 ELSE 0]
    BY <1>1, <1>6, NoteAtIs
  <2>2. p < Len(l) => (z - c) % 256 \in 0 .. b
    <3> SUFFICES ASSUME p < Len(l) PROVE (z - c) % 256 \in 0 .. b
      OBVIOUS
    <3>1. p + 1 \in DOMAIN l /\ (p + 1) % 2 = 1
      <4>1. p % 2 = 0 /\ p \in Int
        BY <1>2, <1>6, Parity
      <4>2. p + 1 \in DOMAIN l
        BY <1>2
      <4> HIDE DEF p
      <4>3. (p + 1) % 2 = 1
        BY <4>1, Parity
      <4> QED
        BY <4>2, <4>3
    <3>2. z \in 0 .. b /\ z > c
      BY <1>2, <1>3, <3>1
    <3> HIDE DEF z
    <3>3. z - c \in 0 .. b /\ (z - c) % 256 = z - c
      BY <3>2
    <3> QED
      BY <3>3
  <2> HIDE DEF z
  <2> QED
    BY <1>4, <2>1, <2>2
<1> QED
  BY <1>5, <1>6

(* A press on an empty step: the new note is entered, and is found there.  *)
LEMMA PressedAdd ==
  ASSUME NEW l \in Seq(Event), PressedRow(l), NEW c \in Columns, NEW v \in Velocities,
         1 \in Durations, ~NoteAt(l, c).found
  PROVE  LET m == InsertPair(l, AddPoint(l, c), On(c, v), Off(c + 1))
         IN /\ m \in Seq(Event) /\ Len(m) = Len(l) + 2 /\ PressedRow(m)
            /\ NoteAt(m, c) = [found |-> TRUE, col |-> c, vel |-> v, dur |-> 1,
                               steps |-> NoteAt(l, c).steps]
<1> DEFINE k == AddPoint(l, c)
           m == InsertPair(l, k, On(c, v), Off(c + 1))
<1>1. Loose(l) /\ Alternates(l) /\ c \in Nat /\ DOMAIN l = 1 .. Len(l) /\ Len(l) \in Nat
  BY Bytes, EventsOfRow DEF PressedRow, Loose
<1>2. Reach(l, c) % 2 # 1
  BY <1>1, QueryIs
<1>3. k = Reach(l, c) /\ OnBeat(l, k, c) /\ (k < Len(l) => l[k + 1].col > c)
  BY <1>1, <1>2, AddPointIs, ScanIsPrefix
<1>4. /\ k \in 0 .. Len(l) /\ k \in Int /\ k % 2 = 0
      /\ (\A i \in 1 .. k : l[i].col <= c) /\ (\A i \in k + 1 .. Len(l) : l[i].col > c)
  BY <1>1, <1>3 DEF OnBeat
<1>5. m \in Seq(Event) /\ Added(l, m, k, c, 1, v)
  <2>1. k \in 0 .. Len(l) /\ 1 \in Nat
    BY <1>4
  <2> HIDE DEF k
  <2> QED
    BY <1>1, <2>1, AddIsSplice
<1> HIDE DEF k, m
<1>6. /\ Spliced(l, m, k) /\ Len(m) = Len(l) + 2 /\ DOMAIN m = 1 .. Len(l) + 2
      /\ m[k + 1].col = c /\ m[k + 1].vel = v /\ m[k + 2].col = c + 1
  BY <1>1, <1>5, EventsOfRow DEF Added, Spliced
<1>7. Loose(m)
  <2>1. m[k + 2].col >= c
    BY <1>1, <1>6
  <2> QED
    BY <1>1, <1>3, <1>5, <1>6, <2>1, LooseSpliced
<1>8. ASSUME NEW i \in DOMAIN m, i % 2 = 1
      PROVE  \/ i \in 1 .. k - 1 /\ i \in DOMAIN l /\ m[i] = l[i] /\ m[i + 1] = l[i + 1] /\ l[i + 1].col <= c
             \/ i = k + 1
             \/ i > k + 2 /\ i - 2 \in DOMAIN l /\ (i - 2) % 2 = 1 /\ m[i] = l[i - 2]
                  /\ m[i + 1] = l[(i - 2) + 1] /\ l[i - 2].col > c
  <2>1. i + 1 \in DOMAIN m /\ i \in Int /\ (i + 1) % 2 = 0 /\ (i - 2) % 2 = 1
    <3>1. i + 1 \in DOMAIN m
      BY <1>5, <1>7, <1>8, PairOf DEF Loose
    <3>2. i \in Int
      BY <1>6
    <3> QED
      BY <1>8, <3>1, <3>2, Parity
  <2>2. i # k + 2 /\ i # k
    BY <1>4, <1>8, Parity
  <2>3. CASE i < k
    <3>1. i \in 1 .. k /\ i + 1 \in 1 .. k /\ i \in 1 .. k - 1 /\ i \in DOMAIN l
      BY <1>1, <1>4, <1>6, <2>1, <2>3, SMTT(30)
    <3>2. m[i] = l[i] /\ m[i + 1] = l[i + 1] /\ l[i + 1].col <= c
      BY <1>4, <1>6, <3>1 DEF Spliced
    <3> QED
      BY <3>1, <3>2
  <2>4. CASE i > k + 2
    <3>1. /\ i - 2 \in k + 1 .. Len(l) /\ (i + 1) - 2 \in k + 1 .. Len(l)
          /\ (i - 2) + 2 = i /\ ((i + 1) - 2) + 2 = i + 1 /\ (i + 1) - 2 = (i - 2) + 1
          /\ i - 2 \in DOMAIN l
      <4> DEFINE n == Len(l)
      <4>1. i \in Int /\ k \in Int /\ n \in Int /\ i > k + 2 /\ i + 1 \in 1 .. n + 2 /\ k >= 0
        BY <1>1, <1>4, <1>6, <2>1, <2>4
      <4> HIDE DEF n
      <4>2. /\ i - 2 \in k + 1 .. n /\ (i + 1) - 2 \in k + 1 .. n /\ i - 2 \in 1 .. n
            /\ (i - 2) + 2 = i /\ ((i + 1) - 2) + 2 = i + 1 /\ (i + 1) - 2 = (i - 2) + 1
        BY ONLY <4>1
      <4> QED
        BY <1>1, <4>2 DEF n
    <3>2. m[(i - 2) + 2] = l[i - 2] /\ m[((i + 1) - 2) + 2] = l[(i + 1) - 2] /\ l[i - 2].col > c
      BY <1>4, <1>6, <3>1 DEF Spliced
    <3> QED
      BY <2>1, <2>4, <3>1, <3>2
  <2> QED
    BY <1>4, <2>1, <2>2, <2>3, <2>4
<1>9. \A i \in DOMAIN l : i % 2 = 1 =>
        /\ l[i].col \in Columns /\ l[i].vel \in Velocities /\ l[i].col \in Nat
        /\ l[i + 1].col - l[i].col \in Durations \cup {0}
  BY Bytes DEF PressedRow
<1>10. ASSUME NEW i \in DOMAIN m, i % 2 = 1
       PROVE  /\ m[i].col \in Columns /\ m[i].vel \in Velocities
              /\ m[i + 1].col - m[i].col \in Durations \cup {0}
  <2>1. CASE i = k + 1
    <3>1. m[i].col = c /\ m[i].vel = v /\ m[i + 1].col = c + 1
      <4>1. i + 1 = k + 2
        BY <1>4, <2>1
      <4> QED
        BY <1>6, <2>1, <4>1
    <3>2. (c + 1) - c = 1
      BY <1>1
    <3> QED
      BY <3>1, <3>2
  <2>2. CASE /\ i \in 1 .. k - 1 /\ i \in DOMAIN l /\ m[i] = l[i] /\ m[i + 1] = l[i + 1]
    BY <1>9, <1>10, <2>2
  <2>3. CASE /\ i > k + 2 /\ i - 2 \in DOMAIN l /\ (i - 2) % 2 = 1 /\ m[i] = l[i - 2]
             /\ m[i + 1] = l[(i - 2) + 1]
    BY <1>9, <2>3
  <2> QED
    BY <1>8, <1>10, <2>1, <2>2, <2>3
<1>11. \A i, j \in DOMAIN l : i % 2 = 1 /\ j % 2 = 1 /\ i < j /\ l[i].col = l[j].col =>
       /\ l[j + 1].col = l[j].col + 1
       /\ \A h \in DOMAIN l : h % 2 = 1 /\ l[h].col = l[j].col => h \in {i, j}
  BY DEF PressedRow
<1> DEFINE Before(i) == i \in 1 .. k - 1 /\ i \in DOMAIN l /\ m[i] = l[i] /\ m[i + 1] = l[i + 1]
                          /\ l[i + 1].col <= c /\ l[i].col <= c /\ l[i].col \in Nat
           After(i) == i > k + 2 /\ i - 2 \in DOMAIN l /\ (i - 2) % 2 = 1 /\ m[i] = l[i - 2]
                          /\ m[i + 1] = l[(i - 2) + 1] /\ l[i - 2].col > c /\ l[i - 2].col \in Nat
<1>12. ASSUME NEW i \in DOMAIN m, i % 2 = 1
       PROVE  (Before(i) \/ i = k + 1 \/ After(i)) /\ i \in Int
  <2>1. i \in Int
    BY <1>6
  <2>2. CASE /\ i \in 1 .. k - 1 /\ i \in DOMAIN l /\ m[i] = l[i] /\ m[i + 1] = l[i + 1]
             /\ l[i + 1].col <= c
    <3>1. i \in 1 .. k
      BY <1>4, <2>1, <2>2
    <3> QED
      BY <1>4, <1>9, <1>12, <2>1, <2>2, <3>1
  <2>3. CASE /\ i > k + 2 /\ i - 2 \in DOMAIN l /\ (i - 2) % 2 = 1 /\ m[i] = l[i - 2]
             /\ m[i + 1] = l[(i - 2) + 1] /\ l[i - 2].col > c
    BY <1>9, <2>1, <2>3
  <2> QED
    BY <1>8, <1>12, <2>1, <2>2, <2>3
<1>13. \A i : i % 2 = 1 /\ Before(i) => m[i].col = l[i].col /\ m[i].col <= c
  OBVIOUS
<1>14. \A i : After(i) => m[i].col > c
  OBVIOUS
<1>15. ASSUME NEW i \in DOMAIN m, NEW j \in DOMAIN m, i % 2 = 1, j % 2 = 1, i < j,
              m[i].col = m[j].col
       PROVE  /\ m[j + 1].col = m[j].col + 1
              /\ \A h \in DOMAIN m : h % 2 = 1 /\ m[h].col = m[j].col => h \in {i, j}
  <2>0. i \in Int /\ j \in Int /\ c \in Nat /\ k \in Int
    <3>1. i \in Int /\ j \in Int
      BY <1>12, <1>15
    <3> QED
      BY <1>1, <1>4, <3>1
  <2>1. CASE Before(i) /\ Before(j)
    <3>1. l[j + 1].col = l[j].col + 1 /\ l[j + 1].col <= c /\ l[j].col \in Nat
      BY <1>11, <1>15, <2>1
    <3>2. m[j].col < c /\ m[j].col # c /\ m[k + 1].col = c
      <4>1. m[k + 1].col = c
        BY <1>6
      <4>2. m[j].col = l[j].col
        BY <2>1
      <4> HIDE DEF Before, After
      <4> QED
        BY <2>0, <3>1, <4>1, <4>2
    <3>3. ASSUME NEW h \in DOMAIN m, h % 2 = 1, m[h].col = m[j].col PROVE h \in {i, j}
      <4>1. Before(h)
        <5>1. h # k + 1
          BY <3>2, <3>3
        <5>2. ~After(h)
          BY <2>0, <2>1, <3>2, <3>3, SMTT(30)
        <5> QED
          BY <1>12, <3>3, <5>1, <5>2
      <4> QED
        BY <1>11, <1>15, <2>1, <3>3, <4>1
    <3> QED
      BY <2>1, <3>1, <3>3
  <2>2. CASE Before(i) /\ j = k + 1
    <3>1. m[j + 1].col = c + 1 /\ m[j].col = c
      <4>1. j + 1 = k + 2
        BY <2>0, <2>2
      <4> QED
        BY <1>6, <2>2, <4>1
    <3>2. ASSUME NEW h \in DOMAIN m, h % 2 = 1, m[h].col = c, h # j PROVE h = i
      <4>1. Before(h)
        <5>1. ~After(h)
          BY <2>0, <3>2
        <5> QED
          BY <1>12, <2>2, <3>2, <5>1
      <4>2. l[h].col = c /\ l[i].col = c /\ l[h + 1].col <= c /\ l[i + 1].col <= c
        BY <1>15, <2>2, <3>1, <3>2, <4>1
      <4>3. ~(h < i) /\ ~(i < h)
        <5>1. i < h => l[h + 1].col = l[h].col + 1
          BY <1>11, <1>15, <2>2, <3>2, <4>1, <4>2
        <5>2. h < i => l[i + 1].col = l[i].col + 1
          BY <1>11, <1>15, <2>2, <3>2, <4>1, <4>2
        <5> QED
          BY <2>0, <4>2, <5>1, <5>2
      <4> QED
        BY <1>12, <2>0, <3>2, <4>3
    <3> QED
      BY <3>1, <3>2
  <2>3. CASE After(i) /\ After(j)
    <3>1. (i - 2) < (j - 2) /\ l[i - 2].col = l[j - 2].col
      BY <1>15, <2>0, <2>3
    <3>2. /\ l[(j - 2) + 1].col = l[j - 2].col + 1
          /\ \A h \in DOMAIN l : h % 2 = 1 /\ l[h].col = l[j - 2].col => h \in {i - 2, j - 2}
      BY <1>11, <2>3, <3>1
    <3>4. m[j].col > c /\ m[j].col # c /\ m[j].col \in Nat /\ m[k + 1].col = c
      <4>1. m[k + 1].col = c
        BY <1>6
      <4>2. m[j].col = l[j - 2].col /\ l[j - 2].col > c /\ l[j - 2].col \in Nat
        BY <2>3
      <4> HIDE DEF Before, After
      <4> QED
        BY <2>0, <4>1, <4>2
    <3>3. ASSUME NEW h \in DOMAIN m, h % 2 = 1, m[h].col = m[j].col PROVE h \in {i, j}
      <4>1. After(h)
        <5>1. h # k + 1
          BY <3>3, <3>4
        <5>2. ~Before(h)
          <6>1. Before(h) => m[h].col <= c
            OBVIOUS
          <6> HIDE DEF Before
          <6> QED
            BY <2>0, <3>3, <3>4, <6>1
        <5> QED
          BY <1>12, <3>3, <5>1, <5>2
      <4>2. h - 2 \in {i - 2, j - 2} /\ h \in Int
        BY <1>12, <2>3, <3>2, <3>3, <4>1
      <4> QED
        BY <2>0, <4>2
    <3> QED
      BY <2>3, <3>2, <3>3
  <2>4. ~(Before(i) /\ After(j)) /\ ~(i = k + 1 /\ After(j))
    <3>1. m[k + 1].col = c
      BY <1>6
    <3>2. Before(i) => m[i].col <= c /\ m[i].col \in Nat
      OBVIOUS
    <3>3. After(j) => m[j].col > c /\ m[j].col \in Nat
      OBVIOUS
    <3> HIDE DEF Before, After
    <3> QED
      BY <1>15, <2>0, <3>1, <3>2, <3>3
  <2>5. ~(After(i) /\ (j = k + 1 \/ Before(j))) /\ ~(i = k + 1 /\ (j = k + 1 \/ Before(j)))
    BY <1>15, <2>0
  <2> HIDE DEF Before, After
  <2> QED
    BY <1>12, <1>15, <2>1, <2>2, <2>3, <2>4, <2>5
<1>16. PressedRow(m)
  BY <1>7, <1>10, <1>15 DEF PressedRow
<1>17. NoteAt(m, c) = [found |-> TRUE, col |-> c, vel |-> v, dur |-> 1, steps |-> NoteAt(l, c).steps]
  <2>1. Reach(m, c) = k + 1
    <3>1. k + 1 \in 0 .. Len(m) /\ (k + 1 < Len(m) => m[(k + 1) + 1].col > c)
      <4>1. k + 1 \in 0 .. Len(m) /\ (k + 1) + 1 = k + 2
        <5> DEFINE n == Len(l)
        <5>1. k \in 0 .. n /\ n \in Nat /\ Len(m) = n + 2
          BY <1>1, <1>4, <1>6
        <5> HIDE DEF n
        <5>2. k + 1 \in 0 .. n + 2 /\ (k + 1) + 1 = k + 2
          BY ONLY <5>1
        <5> QED
          BY <5>1, <5>2
      <4> QED
        BY <1>1, <1>6, <4>1
    <3>2. ASSUME NEW i \in 1 .. k + 1 PROVE m[i].col <= c
      <4>1. CASE i = k + 1
        BY <1>1, <1>6, <4>1
      <4>2. CASE i # k + 1
        <5>1. i \in 1 .. k
          BY <1>4, <4>2
        <5> QED
          BY <1>4, <1>6, <5>1 DEF Spliced
      <4> QED
        BY <4>1, <4>2
    <3> QED
      BY <1>1, <1>5, <1>7, <3>1, <3>2, ReachIs
  <2>2. (k + 1) % 2 = 1 /\ (k + 1) + 1 = k + 2 /\ (k + 1) + 2 = k + 3
    BY <1>4, Parity
  <2>3. NoteAt(m, c) = [found |-> TRUE, col |-> c, vel |-> v,
                        dur |-> ((c + 1) - c) % 256,
                        steps |-> IF k + 3 <= Len(m) THEN (m[k + 3].col - c) % 256 ELSE 0]
    <3> DEFINE p == Reach(m, c)
    <3>1. NoteAt(m, c) = [found |-> TRUE, col |-> m[p].col, vel |-> m[p].vel,
                          dur |-> (m[p + 1].col - m[p].col) % 256,
                          steps |-> IF p + 2 <= Len(m) THEN (m[p + 2].col - m[p].col) % 256 ELSE 0]
      BY <1>1, <1>5, <1>7, <2>1, <2>2, NoteAtIs
    <3> HIDE DEF p
    <3>2. p = k + 1 /\ p + 1 = k + 2 /\ p + 2 = k + 3
      BY <2>1, <2>2 DEF p
    <3>3. m[p].col = c /\ m[p].vel = v /\ m[p + 1].col = c + 1
      BY <1>6, <3>2
    <3>4. m[p + 2] = m[k + 3]
      BY <3>2
    <3> DEFINE t == IF p + 2 <= Len(m) THEN (m[p + 2].col - m[p].col) % 256 ELSE 0
               u == IF k + 3 <= Len(m) THEN (m[k + 3].col - c) % 256 ELSE 0
    <3>5. t = u
      BY <3>2, <3>3, <3>4
    <3> HIDE DEF t, u
    <3>6. NoteAt(m, c) = [found |-> TRUE, col |-> m[p].col, vel |-> m[p].vel,
                          dur |-> (m[p + 1].col - m[p].col) % 256, steps |-> t]
      BY <3>1 DEF t
    <3> QED
      BY <3>3, <3>5, <3>6 DEF u
  <2>4. NoteAt(l, c).steps = IF k < Len(l) THEN (l[k + 1].col - c) % 256 ELSE 0
    BY <1>1, <1>2, <1>3, NoteAtIs
  <2>5. k < Len(l) => m[k + 3] = l[k + 1]
    <3> SUFFICES ASSUME k < Len(l) PROVE m[k + 3] = l[k + 1]
      OBVIOUS
    <3>1. k + 1 \in k + 1 .. Len(l) /\ (k + 1) + 2 = k + 3
      BY <1>1, <1>4
    <3> QED
      BY <1>6, <3>1 DEF Spliced
  <2>6. (k + 3 <= Len(m) <=> k < Len(l)) /\ ((c + 1) - c) % 256 = 1
    BY <1>1, <1>4, <1>6
  <2> QED
    BY <2>3, <2>4, <2>5, <2>6, ZenonT(30)
<1> QED
  BY <1>5, <1>6, <1>16, <1>17 DEF m, k

(* An edit, of the first note at its column, to any length there may be.   *)
LEMMA PressedUpdate ==
  ASSUME NEW l \in Seq(Event), PressedRow(l), NEW c \in Columns, NEW d \in Durations \cup {0},
         NEW v \in Velocities, NoteOnAt(l, c) # 0
  PROVE  LET m == UpdatePair(l, NoteOnAt(l, c), d, v)
         IN /\ m \in Seq(Event) /\ Len(m) = Len(l) /\ PressedRow(m)
            /\ NoteOffOf(l, NoteOnAt(l, c)) # 0
<1> DEFINE k == NoteOnAt(l, c)
           m == UpdatePair(l, k, d, v)
<1>1. Loose(l) /\ Alternates(l) /\ c \in Nat /\ d \in Nat /\ DOMAIN l = 1 .. Len(l) /\ Len(l) \in Nat
  BY Bytes, EventsOfRow DEF PressedRow, Loose
<1>2. k \in 1 .. Len(l) - 1 /\ k % 2 = 1 /\ l[k].col = c /\ NoteOffOf(l, k) = k + 1
  BY <1>1, NoteOnAtIs
<1>3. \A j \in DOMAIN l : j % 2 = 1 /\ l[j].col = c => k <= j
  BY <1>1, EditsTheFirst
<1>4. m \in Seq(Event) /\ Updated(l, m, k, d, v)
  <2>1. k \in 1 .. Len(l) - 1
    BY <1>2
  <2> HIDE DEF k
  <2> QED
    BY <1>1, <2>1, UpdatePairIs
<1> HIDE DEF k, m
<1>5. /\ Edited(l, m, k) /\ Len(m) = Len(l) /\ DOMAIN m = DOMAIN l
      /\ m[k].vel = v /\ m[k + 1].col = l[k].col + d
  BY <1>1, <1>4, EventsOfRow DEF Updated, Edited
<1>6. k \in Int /\ k + 1 \in DOMAIN l /\ (k + 1) % 2 = 0 /\ k \in DOMAIN l /\ k + 1 # 0
  <2>1. k \in Int /\ k + 1 \in DOMAIN l /\ k \in DOMAIN l /\ k + 1 # 0
    BY <1>1, <1>2
  <2> QED
    BY <1>2, <2>1, Parity
<1>7. Loose(m)
  <2>1. m[k + 1].col >= l[k].col
    BY <1>1, <1>2, <1>5
  <2>2. k \in 1 .. Len(l) - 1
    BY <1>2
  <2> QED
    BY <1>1, <1>2, <1>4, <1>5, <2>1, <2>2, LooseEdited
<1>8. ASSUME NEW i \in DOMAIN l, i % 2 = 1
      PROVE  /\ m[i].col = l[i].col
             /\ i # k => m[i] = l[i] /\ m[i + 1].col = l[i + 1].col
  <2>1. i + 1 \in DOMAIN l /\ i \in Int /\ i # k + 1
    <3>1. i + 1 \in DOMAIN l
      BY <1>1, <1>8, PairOf
    <3> QED
      BY <1>1, <1>6, <1>8, <3>1
  <2>2. m[i].col = l[i].col
    BY <1>5, <2>1 DEF Edited
  <2>3. ASSUME i # k PROVE m[i] = l[i] /\ m[i + 1].col = l[i + 1].col
    <3>1. i + 1 # k + 1
      BY <1>6, <2>1, <2>3
    <3> QED
      BY <1>5, <2>1, <2>3, <3>1 DEF Edited
  <2> QED
    BY <2>2, <2>3
<1>9. ASSUME NEW i \in DOMAIN m, i % 2 = 1
      PROVE  /\ m[i].col \in Columns /\ m[i].vel \in Velocities
             /\ m[i + 1].col - m[i].col \in Durations \cup {0}
  <2>1. i \in DOMAIN l
    BY <1>5
  <2>2. CASE i # k
    BY <1>8, <1>9, <2>1, <2>2 DEF PressedRow
  <2>3. CASE i = k
    <3>1. m[i].col = c /\ m[i].vel = v /\ m[i + 1].col = c + d
      BY <1>2, <1>5, <1>8, <1>9, <2>1, <2>3
    <3>2. (c + d) - c = d
      BY <1>1
    <3> QED
      BY <3>1, <3>2
  <2> QED
    BY <2>2, <2>3
<1>10. ASSUME NEW i \in DOMAIN m, NEW j \in DOMAIN m, i % 2 = 1, j % 2 = 1, i < j,
              m[i].col = m[j].col
       PROVE  /\ m[j + 1].col = m[j].col + 1
              /\ \A h \in DOMAIN m : h % 2 = 1 /\ m[h].col = m[j].col => h \in {i, j}
  <2>1. i \in DOMAIN l /\ j \in DOMAIN l /\ l[i].col = l[j].col /\ m[j].col = l[j].col
    BY <1>5, <1>8, <1>10
  <2>2. /\ l[j + 1].col = l[j].col + 1
        /\ \A h \in DOMAIN l : h % 2 = 1 /\ l[h].col = l[j].col => h \in {i, j}
    BY <1>10, <2>1 DEF PressedRow
  <2>3. j # k
    <3>1. j = k => k <= i
      BY <1>2, <1>3, <1>10, <2>1
    <3>2. i \in Int /\ j \in Int
      BY <1>1, <2>1
    <3> QED
      BY <1>10, <3>1, <3>2
  <2>4. m[j + 1].col = l[j + 1].col
    BY <1>8, <1>10, <2>1, <2>3
  <2>5. ASSUME NEW h \in DOMAIN m, h % 2 = 1, m[h].col = m[j].col PROVE h \in {i, j}
    BY <1>5, <1>8, <2>1, <2>2, <2>5
  <2> QED
    BY <2>1, <2>2, <2>4, <2>5
<1>11. PressedRow(m)
  BY <1>7, <1>9, <1>10 DEF PressedRow
<1> QED
  BY <1>2, <1>4, <1>5, <1>6, <1>11 DEF k, m

-----------------------------------------------------------------------------
(* In a row of notes, what a query finds is what a query at its column     *)
(* finds, and follows an edit of it.                                       *)

LEMMA TidyQuery ==
  ASSUME NEW l \in Seq(Event), Tidy(l), NEW p \in DOMAIN l, p % 2 = 1
  PROVE  Reach(l, l[p].col) = p
<1>1. Loose(l) /\ Alternates(l) /\ p + 1 \in DOMAIN l /\ p \in 1 .. Len(l) - 1
  BY TidyIsLoose, PairOf DEF Tidy
<1>2. /\ l[p].col \in Nat /\ l[p + 1].col \in Nat /\ p \in Int /\ Len(l) \in Nat
      /\ DOMAIN l = 1 .. Len(l)
  BY <1>1, EventsOfRow
<1>3. l[p].col < l[p + 1].col
  BY <1>1, <1>2 DEF Tidy, NotesApart
<1>4. \A i \in 1 .. p : l[i].col <= l[p].col
  <2> SUFFICES ASSUME NEW i \in 1 .. p PROVE l[i].col <= l[p].col
    OBVIOUS
  <2>1. i \in DOMAIN l /\ i <= p
    BY <1>1, <1>2
  <2> QED
    BY <2>1, TidyMonotone
<1>5. p \in 0 .. Len(l) /\ (p < Len(l) => l[p + 1].col > l[p].col)
  BY <1>1, <1>2, <1>3
<1> QED
  BY <1>1, <1>2, <1>4, <1>5, ReachIs

LEMMA AskedAgain ==
  ASSUME NEW l \in Seq(Event), RowOfNotes(l), NEW c \in Nat, NoteAt(l, c).found
  PROVE  NoteAt(l, NoteAt(l, c).col) = NoteAt(l, c)
<1> DEFINE p == Reach(l, c)
<1>1. Tidy(l) /\ Loose(l)
  BY TidyIsLoose DEF RowOfNotes
<1>2. p % 2 = 1 /\ p < Len(l) /\ p \in 0 .. Len(l)
  BY <1>1, QueryIs, ScanIsPrefix
<1>3. p \in DOMAIN l
  <2>1. p # 0 /\ DOMAIN l = 1 .. Len(l) /\ Len(l) \in Nat
    BY <1>2, EventsOfRow
  <2> QED
    BY <1>2, <2>1
<1>4. l[p].col \in Nat /\ Reach(l, l[p].col) = p
  <2> HIDE DEF p
  <2> QED
    BY <1>1, <1>2, <1>3, TidyQuery, EventsOfRow
<1>5. NoteAt(l, c).col = l[p].col
  BY <1>1, <1>2, NoteAtIs
<1>6. NoteAt(l, l[p].col) = NoteAt(l, c)
  <2>1. NoteAt(l, c) =
          [found |-> TRUE, col |-> l[p].col, vel |-> l[p].vel,
           dur   |-> (l[p + 1].col - l[p].col) % 256,
           steps |-> IF p + 2 <= Len(l) THEN (l[p + 2].col - l[p].col) % 256 ELSE 0]
    BY <1>1, <1>2, NoteAtIs
  <2> DEFINE b == l[p].col
  <2>2. b \in Nat /\ Reach(l, b) = p
    BY <1>4
  <2> HIDE DEF b, p
  <2>3. NoteAt(l, b) =
          [found |-> TRUE, col |-> l[p].col, vel |-> l[p].vel,
           dur   |-> (l[p + 1].col - l[p].col) % 256,
           steps |-> IF p + 2 <= Len(l) THEN (l[p + 2].col - l[p].col) % 256 ELSE 0]
    BY <1>1, <1>2, <2>2, NoteAtIs, ZenonT(30)
  <2> QED
    BY <2>1, <2>3 DEF b, p
<1> QED
  BY <1>5, <1>6

(* An edit of the note a query shows, to a length that leaves the next     *)
(* note clear.                                                             *)
LEMMA ShownUpdate ==
  ASSUME NEW l \in Seq(Event), RowOfNotes(l), NEW c \in Columns, NEW d \in Durations,
         NEW v \in Velocities, NoteAt(l, c).found, NoteAt(l, c).col = c,
         Fits(d, NoteAt(l, c).steps)
  PROVE  LET k == NoteOnAt(l, c)
             m == UpdatePair(l, k, d, v)
         IN /\ k # 0 /\ NoteOffOf(l, k) # 0
            /\ m \in Seq(Event) /\ Len(m) = Len(l) /\ RowOfNotes(m)
            /\ NoteAt(m, c) = [found |-> TRUE, col |-> c, vel |-> v, dur |-> d,
                               steps |-> NoteAt(l, c).steps]
<1> DEFINE k == NoteOnAt(l, c)
           m == UpdatePair(l, k, d, v)
<1>1. /\ Tidy(l) /\ Loose(l) /\ Alternates(l) /\ c \in Nat /\ d \in Nat /\ 1 <= d /\ d <= 255
      /\ DOMAIN l = 1 .. Len(l) /\ Len(l) \in Nat
  BY TidyIsLoose, Bytes, EventsOfRow DEF RowOfNotes, Tidy
<1>2. /\ k \in DOMAIN l /\ k % 2 = 1 /\ l[k].col = c /\ k # 0 /\ NoteOffOf(l, k) # 0
      /\ k + 2 <= Len(l) => NoteAt(l, c).steps = l[k + 2].col - c /\ NoteAt(l, c).steps # 0
  BY ShownIsFound
<1> HIDE DEF k
<1>3. k + 2 <= Len(l) => l[k].col + d <= l[k + 2].col
  <2> SUFFICES ASSUME k + 2 <= Len(l) PROVE l[k].col + d <= l[k + 2].col
    OBVIOUS
  <2>1. d <= l[k + 2].col - c
    BY <1>2 DEF Fits
  <2>2. k + 2 \in DOMAIN l
    BY <1>1, <1>2
  <2>3. l[k + 2].col \in Nat
    BY <2>2, EventsOfRow
  <2> QED
    BY <1>1, <1>2, <2>1, <2>3
<1>4. PICK r : r \in Rows
  BY GridAssumption
<1>5. m \in Seq(Event) /\ Len(m) = Len(l) /\ RowOfNotes(m)
  BY <1>2, <1>3, <1>4, RowUpdate
<1>6. Updated(l, m, k, d, v)
  <2>1. k \in 1 .. Len(l) - 1
    BY <1>1, <1>2, PairOf
  <2> QED
    BY <1>1, <2>1, UpdatePairIs
<1>7. /\ m[k].col = c /\ m[k].vel = v /\ m[k + 1].col = c + d
      /\ k + 2 <= Len(l) => m[k + 2].col = l[k + 2].col
  <2>1. k # k + 1 /\ k + 2 # k + 1 /\ k + 2 # k
    BY <1>1, <1>2
  <2>2. k + 2 <= Len(l) => k + 2 \in DOMAIN l
    BY <1>1, <1>2
  <2> QED
    BY <1>2, <1>6, <2>1, <2>2 DEF Updated, Edited
<1>8. Tidy(m) /\ Loose(m) /\ k \in DOMAIN m
  BY <1>1, <1>2, <1>5, TidyIsLoose, EventsOfRow DEF RowOfNotes
<1>9. Reach(m, c) = k /\ Reach(l, c) = k
  <2>1. Reach(m, m[k].col) = k
    BY <1>2, <1>5, <1>8, TidyQuery
  <2>2. Reach(l, l[k].col) = k
    BY <1>1, <1>2, TidyQuery
  <2> QED
    BY <1>2, <1>7, <2>1, <2>2
<1> HIDE DEF m
<1>10. NoteAt(m, c) = [found |-> TRUE, col |-> m[k].col, vel |-> m[k].vel,
                       dur |-> (m[k + 1].col - m[k].col) % 256,
                       steps |-> IF k + 2 <= Len(m) THEN (m[k + 2].col - m[k].col) % 256 ELSE 0]
  BY <1>1, <1>2, <1>5, <1>8, <1>9, NoteAtIs
<1>11. NoteAt(l, c).steps = IF k + 2 <= Len(l) THEN (l[k + 2].col - l[k].col) % 256 ELSE 0
  BY <1>1, <1>2, <1>9, NoteAtIs
<1>12. (m[k + 1].col - m[k].col) % 256 = d
  <2>1. ((c + d) - c) % 256 = d
    BY <1>1
  <2> QED
    BY <1>7, <2>1
<1>13. (IF k + 2 <= Len(m) THEN (m[k + 2].col - m[k].col) % 256 ELSE 0) = NoteAt(l, c).steps
  BY <1>2, <1>5, <1>7, <1>11
<1>14. NoteAt(m, c) = [found |-> TRUE, col |-> c, vel |-> v, dur |-> d,
                       steps |-> NoteAt(l, c).steps]
  BY <1>7, <1>10, <1>12, <1>13
<1> QED
  BY <1>2, <1>5, <1>14 DEF k, m

(* What a press on an empty step and an edit do to a grid with one such    *)
(* row, in which the switches' row is no column.                           *)
LEMMA PressStep ==
  ASSUME TypeOK, NEW r \in Rows, NEW c \in Columns, NEW v \in Velocities, 1 \in Durations,
         lists[c] = <<>>, PressedRow(lists[r]), ~NoteAt(lists[r], c).found,
         nodes + 2 < PoolSize, AddNote(r, c, 1, v)
  PROVE  /\ lists' = [lists EXCEPT ![r] = InsertPair(lists[r], AddPoint(lists[r], c),
                                                     On(c, v), Off(c + 1))]
         /\ nodes' = nodes + 2 /\ fault' = fault /\ totalGridColumns' \in Nat
<1>1. /\ lists[r] \in Seq(Event) /\ Loose(lists[r]) /\ c \in Nat
      /\ nodes \in Nat /\ totalGridColumns \in Nat /\ PoolSize \in Nat
  BY Bytes DEF TypeOK, PressedRow
<1>2. ~QueryFault(lists[r], c)
  BY <1>1, QueryIs
<1>3. NoteOnAt(lists[c], r) = 0
  BY DEF NoteOnAt, First
<1>4. ~(nodes >= PoolSize - 1) /\ ~(nodes + 1 >= PoolSize - 1)
  BY <1>1
<1>5. AddFault(r, c) = ""
  BY <1>2, <1>3, <1>4 DEF AddFault
<1>6. /\ lists' = [lists EXCEPT ![r] = InsertPair(lists[r], AddPoint(lists[r], c),
                                                  On(c, v), Off(c + 1))]
      /\ nodes' = nodes + 2 /\ fault' = fault
      /\ totalGridColumns' = IF Inserts(lists[r], c)
                               THEN totalGridColumns
                               ELSE Max({totalGridColumns, c, c + 1})
  BY <1>5 DEF AddNote, AddPoint
<1>7. c + 1 \in Nat
  BY <1>1
<1>8. Max({totalGridColumns, c, c + 1}) \in Nat
  BY <1>1, <1>7, MaxOfThree
<1> QED
  BY <1>1, <1>6, <1>8

LEMMA EditStep ==
  ASSUME NEW r \in Rows, NEW c, NEW d, NEW v, UpdateNote(r, c, d, v)
  PROVE  LET k == NoteOnAt(lists[r], c)
         IN /\ fault = ""
            /\ UNCHANGED <<nodes, totalGridColumns>>
            /\ \/ /\ k = 0 \/ NoteOffOf(lists[r], k) = 0
                  /\ fault' = "noEvent" /\ lists' = lists
               \/ /\ k # 0 /\ NoteOffOf(lists[r], k) # 0
                  /\ fault' = "" /\ lists' = [lists EXCEPT ![r] = UpdatePair(lists[r], k, d, v)]
BY DEF UpdateNote, FailAssertion

(* The note a query shows has one of the durations, and ends before the    *)
(* next one begins.                                                        *)
LEMMA ShownFits ==
  ASSUME NEW l \in Seq(Event), RowOfNotes(l), NEW c \in Nat, NoteAt(l, c).found
  PROVE  /\ NoteAt(l, c).dur \in Durations /\ Fits(NoteAt(l, c).dur, NoteAt(l, c).steps)
         /\ NoteAt(l, c) = [found |-> TRUE, col |-> NoteAt(l, c).col, vel |-> NoteAt(l, c).vel,
                            dur |-> NoteAt(l, c).dur, steps |-> NoteAt(l, c).steps]
<1> DEFINE p == Reach(l, c)
<1>1. Tidy(l) /\ Loose(l) /\ Alternates(l)
  BY TidyIsLoose DEF RowOfNotes, Tidy
<1>2. p % 2 = 1 /\ p < Len(l) /\ p \in 0 .. Len(l)
  BY <1>1, QueryIs, ScanIsPrefix
<1>3. p \in DOMAIN l /\ p \in Int /\ DOMAIN l = 1 .. Len(l) /\ Len(l) \in Nat
  <2>1. p # 0 /\ DOMAIN l = 1 .. Len(l) /\ Len(l) \in Nat
    BY <1>2, EventsOfRow
  <2> QED
    BY <1>2, <2>1
<1>4. NoteAt(l, c) =
        [found |-> TRUE, col |-> l[p].col, vel |-> l[p].vel,
         dur   |-> (l[p + 1].col - l[p].col) % 256,
         steps |-> IF p + 2 <= Len(l) THEN (l[p + 2].col - l[p].col) % 256 ELSE 0]
  BY <1>1, <1>2, NoteAtIs
<1> HIDE DEF p
<1> DEFINE a == l[p].col
           b == l[p + 1].col
           e == l[p + 2].col
<1>5. a \in Nat /\ b \in Nat /\ b - a \in Durations /\ p + 1 \in DOMAIN l
  <2>1. p + 1 \in DOMAIN l
    BY <1>2, <1>3
  <2> QED
    BY <1>2, <1>3, <2>1, EventsOfRow DEF RowOfNotes
<1>6. (b - a) % 256 = b - a
  <2> DEFINE d == b - a
  <2>1. d \in Durations
    BY <1>5
  <2> HIDE DEF d
  <2>2. d \in Nat /\ d <= 255
    BY <2>1, Bytes
  <2>3. d % 256 = d
    BY <2>2
  <2> QED
    BY <2>3 DEF d
<1>7. NoteAt(l, c).dur = b - a
  BY <1>4, <1>6
<1>8. NoteAt(l, c).steps = IF p + 2 <= Len(l) THEN (e - a) % 256 ELSE 0
  BY <1>4
<1>9. ASSUME p + 2 <= Len(l) PROVE b - a <= (e - a) % 256
  <2>1. p + 2 \in DOMAIN l
    BY <1>3, <1>9
  <2>2. (p + 2) % 2 = 1
    BY <1>2, <1>3, Parity
  <2>3. e \in Nat /\ e <= 255
    BY <2>1, <2>2, Bytes DEF RowOfNotes
  <2>4. a < b /\ b <= e
    BY <1>1, <1>2, <1>3, <1>5, <2>1 DEF RowOfNotes, Tidy, NotesApart
  <2> HIDE DEF a, b, e
  <2>5. e > a
    BY <1>5, <2>3, <2>4
  <2>6. (e - a) % 256 = e - a
    BY <1>5, <2>3, <2>5, ByteDifference
  <2> QED
    BY <1>5, <2>3, <2>4, <2>6
<1> HIDE DEF a, b, e
<1>10. Fits(NoteAt(l, c).dur, NoteAt(l, c).steps)
  BY <1>7, <1>8, <1>9 DEF Fits
<1> QED
  BY <1>4, <1>5, <1>7, <1>10
=============================================================================
