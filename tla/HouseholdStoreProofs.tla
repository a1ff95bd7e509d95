------------------------ MODULE HouseholdStoreProofs ------------------------
(***************************************************************************)
(* The household store, proved of any number of processes, threads and     *)
(* things to buy: a list is never half written, no write drops what        *)
(* another has written, every operation does what its name says to every   *)
(* list the store can come to, and the whole implements ShoppingList.      *)
(*                                                                         *)
(* The operations fold over a list, and what a fold computes is shown by   *)
(* induction on how far it has come.  The induction is first-order: a set  *)
(* of naturals has a least element, so the set of the places a formula     *)
(* fails at is empty.                                                      *)
(***************************************************************************)
EXTENDS HouseholdStore, FiniteSetTheorems, WellFoundedInduction, TLAPS

\* A set of naturals that is not empty has a least element.
LEMMA LeastOf ==
  ASSUME NEW S, S \subseteq Nat, S # {}
  PROVE  \E x \in S : \A y \in S : x <= y
<1> DEFINE T == {0 .. x : x \in S}
<1>1. T \subseteq FiniteSubsetsOf(Nat) /\ T # {}
  <2>1. ASSUME NEW x \in S PROVE 0 .. x \in FiniteSubsetsOf(Nat)
    BY FS_Interval DEF FiniteSubsetsOf
  <2>. QED BY <2>1
<1> HIDE DEF T
<1>2. PICK t \in T : \A u \in T : <<u, t>> \notin StrictSubsetOrdering(Nat)
  BY <1>1, WFMin, FS_StrictSubsetOrderingWellFounded
<1>3. PICK x \in S : t = 0 .. x
  BY DEF T
<1>4. ASSUME NEW y \in S, y < x PROVE FALSE
  <2>1. 0 .. y \in T
    BY DEF T
  <2>2. x \in 0 .. x /\ x \notin 0 .. y
    BY <1>4
  <2>3. 0 .. y \subseteq 0 .. x /\ 0 .. x \subseteq Nat
    BY <1>4
  <2>. QED BY <1>2, <1>3, <2>1, <2>2, <2>3 DEF StrictSubsetOrdering
<1>. QED BY <1>4

\* Induction up to n, for the set of the numbers a formula holds of.
LEMMA UpTo ==
  ASSUME NEW n \in Nat, NEW S, 0 \in S, \A m \in 1 .. n : m - 1 \in S => m \in S
  PROVE  \A m \in 0 .. n : m \in S
<1> DEFINE T == {m \in 0 .. n : m \notin S}
<1>1. SUFFICES ASSUME T # {} PROVE FALSE
  OBVIOUS
<1>2. PICK m \in T : \A k \in T : m <= k
  <2>1. T \subseteq Nat
    OBVIOUS
  <2> HIDE DEF T
  <2>. QED BY <1>1, <2>1, LeastOf
<1>3. m \in 1 .. n /\ m - 1 \in 0 .. n /\ ~(m <= m - 1)
  OBVIOUS
<1>. QED BY <1>2, <1>3

-----------------------------------------------------------------------------
(* Folding from the left.                                                  *)

\* The recursion that FoldLeft unfolds to, for a step given as a function.
IsFold(h, base, step, s) ==
  h = [I \in SUBSET DOMAIN s |->
         IF I = {} THEN base ELSE step[h[I \ {Max(I)}]][s[Max(I)]]]

LEMMA MaxOf ==
  ASSUME NEW n \in Nat, NEW I \in SUBSET (1 .. n), n \in I
  PROVE  Max(I) = n
<1>1. \A y \in I : n >= y
  OBVIOUS
<1>2. \A x \in I : (\A y \in I : x >= y) => x = n
  OBVIOUS
<1>. QED BY <1>1, <1>2 DEF Max

LEMMA MaxIn ==
  ASSUME NEW n \in Nat, NEW I \in SUBSET (1 .. n), I # {}
  PROVE  Max(I) \in I
<1> DEFINE below == {n - x : x \in I}
<1>1. below \subseteq Nat /\ below # {}
  <2>1. \A x \in I : x \in 1 .. n /\ n - x \in Nat
    OBVIOUS
  <2>. QED BY <2>1
<1>2. PICK b \in below : \A c \in below : b <= c
  <2> HIDE DEF below
  <2>. QED BY <1>1, LeastOf
<1>3. PICK x \in I : b = n - x
  OBVIOUS
<1>4. \A y \in I : x >= y
  <2>1. \A y \in I : b <= n - y
    BY <1>2
  <2>. QED BY <1>3, <2>1
<1>. QED BY <1>4 DEF Max

LEMMA WithoutLast ==
  ASSUME NEW m \in Nat, m # 0
  PROVE  1 .. m # {} /\ (1 .. m) \ {m} = 1 .. m - 1
<1>1. m \in 1 .. m
  OBVIOUS
<1>2. \A x : x \in 1 .. m /\ x # m <=> x \in 1 .. m - 1
  OBVIOUS
<1>. QED BY <1>1, <1>2

LEMMA FoldExists ==
  ASSUME NEW X, NEW Y, NEW base \in X, NEW step \in [X -> [Y -> X]], NEW s \in Seq(Y)
  PROVE  \E h \in [SUBSET DOMAIN s -> X] : IsFold(h, base, step, s)
<1> DEFINE Right(h, n) == \A I \in SUBSET (1 .. n) :
              h[I] = IF I = {} THEN base ELSE step[h[I \ {Max(I)}]][s[Max(I)]]
           S == {n \in Nat : \E h \in [SUBSET (1 .. n) -> X] : Right(h, n)}
<1>1. 0 \in S
  <2> DEFINE h == [I \in SUBSET (1 .. 0) |-> base]
  <2>1. \A I \in SUBSET (1 .. 0) : I = {}
    OBVIOUS
  <2>2. h \in [SUBSET (1 .. 0) -> X] /\ Right(h, 0)
    BY <2>1
  <2>. QED BY <2>2
<1>2. ASSUME NEW n \in 1 .. Len(s), n - 1 \in S PROVE n \in S
  <2>1. PICK h \in [SUBSET (1 .. n - 1) -> X] : Right(h, n - 1)
    BY <1>2
  <2> DEFINE g == [I \in SUBSET (1 .. n) |->
                     IF n \in I THEN step[h[I \ {n}]][s[n]] ELSE h[I]]
  <2>2. \A I \in SUBSET (1 .. n) : I \ {n} \in SUBSET (1 .. n - 1) /\ I \ {n} \in SUBSET (1 .. n)
    OBVIOUS
  <2>3. s[n] \in Y
    OBVIOUS
  <2>4. ASSUME NEW I \in SUBSET (1 .. n) PROVE g[I] \in X
    <3>1. I \ {n} \in SUBSET (1 .. n - 1) /\ h[I \ {n}] \in X
      BY <2>2
    <3>2. n \notin I => h[I] \in X
      BY <3>1
    <3>3. \A v \in X, y \in Y : step[v][y] \in X
      OBVIOUS
    <3>4. step[h[I \ {n}]][s[n]] \in X
      BY <2>3, <3>1, <3>3
    <3>. QED BY <3>2, <3>4
  <2>5. \A I \in SUBSET (1 .. n) : n \notin I => I \ {n} = I
    OBVIOUS
  <2>6. ASSUME NEW I \in SUBSET (1 .. n)
        PROVE  g[I] = IF I = {} THEN base ELSE step[g[I \ {Max(I)}]][s[Max(I)]]
    <3>1. CASE n \in I
      <4>1. Max(I) = n
        BY <3>1, MaxOf
      <4>2. g[I \ {n}] = h[I \ {n}]
        BY <2>2
      <4>. QED BY <3>1, <4>1, <4>2
    <3>2. CASE n \notin I
      <4>1. I \in SUBSET (1 .. n - 1) /\ I \ {Max(I)} \in SUBSET (1 .. n - 1)
        BY <2>2, <2>5, <3>2
      <4>2. g[I] = h[I] /\ g[I \ {Max(I)}] = h[I \ {Max(I)}]
        BY <3>2, <4>1, <2>2
      <4>3. h[I] = IF I = {} THEN base ELSE step[h[I \ {Max(I)}]][s[Max(I)]]
        BY <2>1, <4>1
      <4>. QED BY <4>2, <4>3
    <3>. QED BY <3>1, <3>2
  <2> HIDE DEF g
  <2>7. g \in [SUBSET (1 .. n) -> X]
    BY <2>4 DEF g
  <2>8. n \in Nat
    OBVIOUS
  <2>9. Right(g, n)
    BY <2>6
  <2>. QED BY <2>7, <2>8, <2>9
<1> HIDE DEF S
<1>3. Len(s) \in S
  <2>1. Len(s) \in Nat /\ Len(s) \in 0 .. Len(s)
    OBVIOUS
  <2>2. \A m \in 0 .. Len(s) : m \in S
    BY <1>1, <1>2, <2>1, UpTo
  <2>. QED BY <2>1, <2>2
<1>4. PICK h \in [SUBSET (1 .. Len(s)) -> X] : Right(h, Len(s))
  BY <1>3 DEF S
<1>5. DOMAIN s = 1 .. Len(s)
  OBVIOUS
<1>6. h = [I \in SUBSET DOMAIN s |->
             IF I = {} THEN base ELSE step[h[I \ {Max(I)}]][s[Max(I)]]]
  BY <1>4, <1>5
<1>. QED BY <1>4, <1>5, <1>6 DEF IsFold

\* One entry after another: what add and a filter do at each.
AddOne(l, k) == IF k \in Keys(l) THEN WithMark(l, {k}, Open)
                ELSE Append(l, [key |-> k, mark |-> Open])
KeepOne(l, e, S) == IF e \in S THEN Append(l, e) ELSE l

LEMMA AddOneTypes ==
  ASSUME NEW l \in Seq(Entry), NEW k \in Item
  PROVE  AddOne(l, k) \in Seq(Entry)
<1>1. [key |-> k, mark |-> Open] \in Entry
  BY DEF Entry
<1>2. \A n \in DOMAIN l : l[n] \in Entry /\ [l[n] EXCEPT !.mark = Open] \in Entry
  <2>1. \A n \in DOMAIN l : l[n] \in Entry
    OBVIOUS
  <2>2. \A e \in Entry : [e EXCEPT !.mark = Open] \in Entry
    BY DEF Entry
  <2>. QED BY <2>1, <2>2
<1>3. WithMark(l, {k}, Open) \in Seq(Entry)
  <2>1. DOMAIN l = 1 .. Len(l) /\ Len(l) \in Nat
    OBVIOUS
  <2>2. WithMark(l, {k}, Open) \in [1 .. Len(l) -> Entry]
    BY <1>2, <2>1 DEF WithMark
  <2>3. \A n \in Nat : [1 .. n -> Entry] \subseteq Seq(Entry)
    OBVIOUS
  <2>. QED BY <2>1, <2>2, <2>3
<1>. QED BY <1>1, <1>3 DEF AddOne

\* add goes through the keys one by one.
LEMMA AddedRuns ==
  ASSUME NEW list \in Seq(Entry), NEW keys \in Seq(Item)
  PROVE  \E g \in [0 .. Len(keys) -> Seq(Entry)] :
           /\ g[0] = list /\ Added(list, keys) = g[Len(keys)]
           /\ \A m \in 1 .. Len(keys) : g[m] = AddOne(g[m - 1], keys[m])
<1> DEFINE IsIter(h) == h = [I \in SUBSET DOMAIN keys |->
                              IF I = {} THEN list ELSE AddOne(h[I \ {Max(I)}], keys[Max(I)])]
           H == CHOOSE h : IsIter(h)
<1>1. Added(list, keys) = H[DOMAIN keys]
  BY DEF Added, FoldLeft, MapThenFoldSet, AddOne
<1>2. \E h : IsIter(h)
  <2> DEFINE step == [l \in Seq(Entry) |-> [k \in Item |-> AddOne(l, k)]]
  <2>1. step \in [Seq(Entry) -> [Item -> Seq(Entry)]]
    BY AddOneTypes
  <2>2. \A l \in Seq(Entry), k \in Item : step[l][k] = AddOne(l, k)
    OBVIOUS
  <2> HIDE DEF step
  <2>3. PICK h \in [SUBSET DOMAIN keys -> Seq(Entry)] : IsFold(h, list, step, keys)
    BY <2>1, FoldExists
  <2>4. ASSUME NEW I \in SUBSET DOMAIN keys, I # {} PROVE Max(I) \in DOMAIN keys
    <3>1. DOMAIN keys = 1 .. Len(keys) /\ Len(keys) \in Nat
      OBVIOUS
    <3>2. Max(I) \in I
      BY <2>4, <3>1, MaxIn
    <3>. QED BY <3>2
  <2>5. \A I \in SUBSET DOMAIN keys : I # {} => keys[Max(I)] \in Item /\ h[I \ {Max(I)}] \in Seq(Entry)
    BY <2>4
  <2>6. IsIter(h)
    BY <2>2, <2>3, <2>5 DEF IsFold
  <2>. QED BY <2>6
<1>3. IsIter(H)
  BY <1>2
<1> HIDE DEF H
<1> DEFINE g == [m \in 0 .. Len(keys) |-> H[1 .. m]]
<1>4. DOMAIN keys = 1 .. Len(keys) /\ Len(keys) \in Nat
  OBVIOUS
<1>5. g[0] = list /\ Added(list, keys) = g[Len(keys)]
  <2>1. 1 .. 0 = {} /\ {} \in SUBSET DOMAIN keys
    OBVIOUS
  <2>. QED BY <1>1, <1>3, <1>4, <2>1
<1>6. ASSUME NEW m \in 1 .. Len(keys) PROVE g[m] = AddOne(g[m - 1], keys[m])
  <2>1. Max(1 .. m) = m
    BY MaxOf
  <2>2. 1 .. m # {} /\ (1 .. m) \ {m} = 1 .. m - 1
    <3>1. m \in Nat /\ m # 0
      OBVIOUS
    <3>. QED BY <3>1, WithoutLast
  <2>3. 1 .. m \in SUBSET DOMAIN keys
    BY <1>4
  <2>4. H[1 .. m] = AddOne(H[1 .. m - 1], keys[m])
    BY <1>3, <2>1, <2>2, <2>3
  <2>. QED BY <2>4
<1>7. \A m \in 0 .. Len(keys) : g[m] \in Seq(Entry)
  <2> DEFINE S == {m \in 0 .. Len(keys) : g[m] \in Seq(Entry)}
  <2>1. 0 \in S
    BY <1>4, <1>5
  <2>2. ASSUME NEW m \in 1 .. Len(keys), m - 1 \in S PROVE m \in S
    <3>1. g[m - 1] \in Seq(Entry) /\ m \in 0 .. Len(keys)
      BY <2>2
    <3>2. keys[m] \in Item
      OBVIOUS
    <3>3. g[m] \in Seq(Entry)
      BY <1>6, <3>1, <3>2, AddOneTypes
    <3>. QED BY <3>1, <3>3
  <2> HIDE DEF S
  <2>3. \A m \in 0 .. Len(keys) : m \in S
    BY <1>4, <2>1, <2>2, UpTo
  <2>. QED BY <2>3 DEF S
<1>8. g \in [0 .. Len(keys) -> Seq(Entry)]
  BY <1>7
<1> HIDE DEF g
<1>. QED BY <1>5, <1>6, <1>8

\* A filter goes through the entries one by one.
LEMMA KeptRuns ==
  ASSUME NEW list \in Seq(Entry), NEW S
  PROVE  \E g \in [0 .. Len(list) -> Seq(Entry)] :
           /\ g[0] = <<>> /\ Kept(list, S) = g[Len(list)]
           /\ \A m \in 1 .. Len(list) : g[m] = KeepOne(g[m - 1], list[m], S)
<1> DEFINE IsIter(h) == h = [I \in SUBSET DOMAIN list |->
                              IF I = {} THEN <<>> ELSE KeepOne(h[I \ {Max(I)}], list[Max(I)], S)]
           H == CHOOSE h : IsIter(h)
<1>1. Kept(list, S) = H[DOMAIN list]
  BY DEF Kept, FoldLeft, MapThenFoldSet, KeepOne
<1>t. \A l \in Seq(Entry), e \in Entry : KeepOne(l, e, S) \in Seq(Entry)
  BY DEF KeepOne
<1>2. \E h : IsIter(h)
  <2> DEFINE step == [l \in Seq(Entry) |-> [e \in Entry |-> KeepOne(l, e, S)]]
  <2>1. step \in [Seq(Entry) -> [Entry -> Seq(Entry)]]
    BY <1>t
  <2>2. \A l \in Seq(Entry), e \in Entry : step[l][e] = KeepOne(l, e, S)
    OBVIOUS
  <2> HIDE DEF step
  <2>3. PICK h \in [SUBSET DOMAIN list -> Seq(Entry)] : IsFold(h, <<>>, step, list)
    <3>1. <<>> \in Seq(Entry)
      OBVIOUS
    <3>. QED BY <2>1, <3>1, FoldExists
  <2>4. ASSUME NEW I \in SUBSET DOMAIN list, I # {} PROVE Max(I) \in DOMAIN list
    <3>1. DOMAIN list = 1 .. Len(list) /\ Len(list) \in Nat
      OBVIOUS
    <3>2. Max(I) \in I
      BY <2>4, <3>1, MaxIn
    <3>. QED BY <3>2
  <2>5. \A I \in SUBSET DOMAIN list : I # {} => list[Max(I)] \in Entry /\ h[I \ {Max(I)}] \in Seq(Entry)
    BY <2>4
  <2>6. IsIter(h)
    BY <2>2, <2>3, <2>5 DEF IsFold
  <2>. QED BY <2>6
<1>3. IsIter(H)
  BY <1>2
<1> HIDE DEF H
<1> DEFINE g == [m \in 0 .. Len(list) |-> H[1 .. m]]
<1>4. DOMAIN list = 1 .. Len(list) /\ Len(list) \in Nat
  OBVIOUS
<1>5. g[0] = <<>> /\ Kept(list, S) = g[Len(list)]
  <2>1. 1 .. 0 = {} /\ {} \in SUBSET DOMAIN list
    OBVIOUS
  <2>. QED BY <1>1, <1>3, <1>4, <2>1
<1>6. ASSUME NEW m \in 1 .. Len(list) PROVE g[m] = KeepOne(g[m - 1], list[m], S)
  <2>1. Max(1 .. m) = m
    BY MaxOf
  <2>2. 1 .. m # {} /\ (1 .. m) \ {m} = 1 .. m - 1
    <3>1. m \in Nat /\ m # 0
      OBVIOUS
    <3>. QED BY <3>1, WithoutLast
  <2>3. 1 .. m \in SUBSET DOMAIN list
    BY <1>4
  <2>4. H[1 .. m] = KeepOne(H[1 .. m - 1], list[m], S)
    BY <1>3, <2>1, <2>2, <2>3
  <2>. QED BY <2>4
<1>7. \A m \in 0 .. Len(list) : g[m] \in Seq(Entry)
  <2> DEFINE T == {m \in 0 .. Len(list) : g[m] \in Seq(Entry)}
  <2>1. 0 \in T
    <3>1. <<>> \in Seq(Entry)
      OBVIOUS
    <3>2. g[0] \in Seq(Entry)
      BY <1>5, <3>1
    <3>. QED BY <1>4, <3>2
  <2>2. ASSUME NEW m \in 1 .. Len(list), m - 1 \in T PROVE m \in T
    <3>1. g[m - 1] \in Seq(Entry) /\ m \in 0 .. Len(list)
      BY <2>2
    <3>2. list[m] \in Entry
      OBVIOUS
    <3>3. g[m] \in Seq(Entry)
      BY <1>6, <1>t, <3>1, <3>2
    <3>. QED BY <3>1, <3>3
  <2> HIDE DEF T
  <2>3. \A m \in 0 .. Len(list) : m \in T
    BY <1>4, <2>1, <2>2, UpTo
  <2>. QED BY <2>3 DEF T
<1>8. g \in [0 .. Len(list) -> Seq(Entry)]
  BY <1>7
<1> HIDE DEF g
<1>. QED BY <1>5, <1>6, <1>8

-----------------------------------------------------------------------------
(* What the operations make of a list.                                     *)

\* A list the store may hold, whatever its length.
Distinct(l) == \A m, n \in DOMAIN l : l[m].key = l[n].key => m = n
Listing == {l \in Seq(Entry) : Distinct(l)}

LEMMA EntryOf ==
  ASSUME NEW l \in Seq(Entry)
  PROVE  /\ DOMAIN l = 1 .. Len(l) /\ Len(l) \in Nat
         /\ \A n \in DOMAIN l : l[n] \in Entry /\ l[n].key \in Item /\ l[n].mark \in {Open, Bought}
<1>1. \A n \in DOMAIN l : l[n] \in Entry
  OBVIOUS
<1>. QED BY <1>1 DEF Entry

LEMMA MarkIs ==
  ASSUME NEW l \in Listing, NEW n \in DOMAIN l
  PROVE  MarkOf(l, l[n].key) = l[n].mark
<1> DEFINE i == l[n].key
<1>1. i \in Keys(l)
  BY DEF Keys
<1>2. \A m \in DOMAIN l : l[m].key = i => m = n
  BY DEF Listing, Distinct
<1>3. (CHOOSE m \in DOMAIN l : l[m].key = i) = n
  BY <1>2
<1>. QED BY <1>1, <1>3 DEF MarkOf

\* A mark is all of a listing that the operations on one thing tell apart.
LEMMA SameMark ==
  ASSUME NEW l \in Listing, NEW r \in Listing, NEW i,
         \A n \in DOMAIN l : l[n].key = i => \E m \in DOMAIN r : r[m] = l[n],
         i \in Keys(r) => i \in Keys(l)
  PROVE  MarkOf(r, i) = MarkOf(l, i)
<1>1. CASE i \in Keys(l)
  <2>1. PICK n \in DOMAIN l : l[n].key = i
    BY <1>1 DEF Keys
  <2>2. PICK m \in DOMAIN r : r[m] = l[n]
    BY <2>1
  <2>. QED BY <2>1, <2>2, MarkIs
<1>2. CASE i \notin Keys(l)
  BY <1>2 DEF MarkOf
<1>. QED BY <1>1, <1>2

LEMMA WithMarkDoes ==
  ASSUME NEW l \in Listing, NEW S, NEW mark \in {Open, Bought}
  PROVE  LET r == WithMark(l, S, mark)
         IN  /\ r \in Listing /\ Len(r) = Len(l) /\ DOMAIN r = DOMAIN l /\ Keys(r) = Keys(l)
             /\ \A n \in DOMAIN l : r[n].key = l[n].key
             /\ \A i : MarkOf(r, i) = IF i \in S /\ i \in Keys(l) THEN mark ELSE MarkOf(l, i)
<1> DEFINE r == WithMark(l, S, mark)
<1>1. l \in Seq(Entry) /\ DOMAIN l = 1 .. Len(l) /\ Len(l) \in Nat
      /\ \A n \in DOMAIN l : l[n] \in Entry
  BY EntryOf DEF Listing
<1>2. DOMAIN r = DOMAIN l
  BY DEF WithMark
<1>3. ASSUME NEW n \in DOMAIN l
      PROVE  /\ r[n] \in Entry /\ r[n].key = l[n].key
             /\ r[n].mark = IF l[n].key \in S THEN mark ELSE l[n].mark
  <2>1. r[n] = IF l[n].key \in S THEN [l[n] EXCEPT !.mark = mark] ELSE l[n]
    BY DEF WithMark
  <2>2. l[n] \in [key : Item, mark : {Open, Bought}]
    BY <1>1 DEF Entry
  <2>. QED BY <2>1, <2>2 DEF Entry
<1> HIDE DEF r
<1>4. r \in [1 .. Len(l) -> Entry]
  <2>1. r = [n \in DOMAIN l |-> r[n]]
    BY DEF r, WithMark
  <2>. QED BY <1>1, <1>2, <1>3, <2>1
<1>5. r \in Seq(Entry) /\ Len(r) = Len(l)
  BY <1>1, <1>4
<1>6. r \in Listing
  <2>1. Distinct(r)
    BY <1>2, <1>3 DEF Distinct, Listing
  <2>. QED BY <1>5, <2>1 DEF Listing
<1>7. Keys(r) = Keys(l)
  BY <1>2, <1>3 DEF Keys
<1>8. ASSUME NEW i PROVE MarkOf(r, i) = IF i \in S /\ i \in Keys(l) THEN mark ELSE MarkOf(l, i)
  <2>1. CASE i \in Keys(l)
    <3>1. PICK n \in DOMAIN l : l[n].key = i
      BY <2>1 DEF Keys
    <3>2. MarkOf(l, i) = l[n].mark /\ MarkOf(r, i) = r[n].mark
      BY <1>2, <1>3, <1>6, <3>1, MarkIs
    <3>. QED BY <1>3, <2>1, <3>1, <3>2
  <2>2. CASE i \notin Keys(l)
    BY <1>7, <2>2 DEF MarkOf
  <2>. QED BY <2>1, <2>2
<1>. QED BY <1>2, <1>3, <1>5, <1>6, <1>7, <1>8 DEF r

\* An entry of a new key goes to the end.
LEMMA AppendDoes ==
  ASSUME NEW l \in Listing, NEW e \in Entry, e.key \notin Keys(l)
  PROVE  LET r == Append(l, e)
         IN  /\ r \in Listing /\ Keys(r) = Keys(l) \cup {e.key}
             /\ \A n \in DOMAIN l : n \in DOMAIN r /\ r[n] = l[n]
             /\ \A i : MarkOf(r, i) = IF i = e.key THEN e.mark ELSE MarkOf(l, i)
<1> DEFINE r == Append(l, e)
<1>1. l \in Seq(Entry) /\ DOMAIN l = 1 .. Len(l) /\ Len(l) \in Nat
  BY EntryOf DEF Listing
<1>2. /\ r \in Seq(Entry) /\ DOMAIN r = 1 .. Len(l) + 1
      /\ r[Len(l) + 1] = e /\ \A n \in DOMAIN l : r[n] = l[n]
  BY <1>1
<1>3. \A n \in DOMAIN r : n \in DOMAIN l \/ n = Len(l) + 1
  BY <1>1, <1>2
<1>4. DOMAIN l \subseteq DOMAIN r /\ Len(l) + 1 \in DOMAIN r
  BY <1>1, <1>2
<1> HIDE DEF r
<1>5. Keys(r) = Keys(l) \cup {e.key}
  BY <1>2, <1>3, <1>4 DEF Keys
<1>6. r \in Listing
  <2>1. Distinct(l) /\ \A n \in DOMAIN l : l[n].key # e.key
    BY DEF Listing, Keys
  <2>2. Distinct(r)
    BY <1>2, <1>3, <2>1 DEF Distinct
  <2>. QED BY <1>2, <2>2 DEF Listing
<1>7. ASSUME NEW i PROVE MarkOf(r, i) = IF i = e.key THEN e.mark ELSE MarkOf(l, i)
  <2>1. CASE i = e.key
    BY <1>2, <1>4, <1>6, <2>1, MarkIs
  <2>2. CASE i # e.key
    BY <1>2, <1>4, <1>5, <1>6, <2>2, SameMark
  <2>. QED BY <2>1, <2>2
<1>. QED BY <1>2, <1>4, <1>5, <1>6, <1>7 DEF r

LEMMA AddOneDoes ==
  ASSUME NEW l \in Listing, NEW k \in Item
  PROVE  LET r == AddOne(l, k)
         IN  /\ r \in Listing /\ Keys(r) = Keys(l) \cup {k}
             /\ \A n \in DOMAIN l : n \in DOMAIN r /\ r[n].key = l[n].key
             /\ \A i : MarkOf(r, i) = IF i = k THEN Open ELSE MarkOf(l, i)
<1>1. CASE k \in Keys(l)
  <2>1. AddOne(l, k) = WithMark(l, {k}, Open)
    BY <1>1 DEF AddOne
  <2>2. Keys(l) \cup {k} = Keys(l)
    BY <1>1
  <2>. QED BY <1>1, <2>1, <2>2, WithMarkDoes
<1>2. CASE k \notin Keys(l)
  <2> DEFINE e == [key |-> k, mark |-> Open]
  <2>1. AddOne(l, k) = Append(l, e) /\ e.key = k /\ e.mark = Open /\ e \in Entry
    BY <1>2 DEF AddOne, Entry
  <2> HIDE DEF e
  <2>. QED BY <1>2, <2>1, AppendDoes
<1>. QED BY <1>1, <1>2

LEMMA AddedDoes ==
  ASSUME NEW list \in Listing, NEW keys \in Seq(Item)
  PROVE  LET r == Added(list, keys)
         IN  /\ r \in Listing /\ Keys(r) = Keys(list) \cup ToSet(keys)
             /\ \A n \in DOMAIN list : n \in DOMAIN r /\ r[n].key = list[n].key
             /\ \A i : MarkOf(r, i) = IF i \in ToSet(keys) THEN Open ELSE MarkOf(list, i)
<1>1. list \in Seq(Entry)
  BY DEF Listing
<1>2. PICK g \in [0 .. Len(keys) -> Seq(Entry)] :
           /\ g[0] = list /\ Added(list, keys) = g[Len(keys)]
           /\ \A m \in 1 .. Len(keys) : g[m] = AddOne(g[m - 1], keys[m])
  BY <1>1, AddedRuns
<1> DEFINE seen(m) == {keys[j] : j \in 1 .. m}
           Does(r, m) ==
             /\ r \in Listing /\ Keys(r) = Keys(list) \cup seen(m)
             /\ \A n \in DOMAIN list : n \in DOMAIN r /\ r[n].key = list[n].key
             /\ \A i : MarkOf(r, i) = IF i \in seen(m) THEN Open ELSE MarkOf(list, i)
           S == {m \in 0 .. Len(keys) : Does(g[m], m)}
<1>3. DOMAIN keys = 1 .. Len(keys) /\ Len(keys) \in Nat
  OBVIOUS
<1>4. 0 \in S
  <2>1. seen(0) = {}
    OBVIOUS
  <2>. QED BY <1>2, <1>3, <2>1
<1>5. ASSUME NEW m \in 1 .. Len(keys), m - 1 \in S PROVE m \in S
  <2>1. keys[m] \in Item /\ seen(m) = seen(m - 1) \cup {keys[m]}
    OBVIOUS
  <2>2. Does(g[m - 1], m - 1)
    BY <1>5
  <2>3. g[m] = AddOne(g[m - 1], keys[m])
    BY <1>2
  <2> HIDE DEF seen
  <2>4. /\ g[m] \in Listing /\ Keys(g[m]) = Keys(g[m - 1]) \cup {keys[m]}
        /\ \A n \in DOMAIN g[m - 1] : n \in DOMAIN g[m] /\ g[m][n].key = g[m - 1][n].key
        /\ \A i : MarkOf(g[m], i) = IF i = keys[m] THEN Open ELSE MarkOf(g[m - 1], i)
    BY <2>1, <2>2, <2>3, AddOneDoes
  <2>5. Keys(g[m]) = Keys(list) \cup seen(m)
    BY <2>1, <2>2, <2>4
  <2>6. \A i : MarkOf(g[m], i) = IF i \in seen(m) THEN Open ELSE MarkOf(list, i)
    BY <2>1, <2>2, <2>4
  <2>7. \A n \in DOMAIN list : n \in DOMAIN g[m] /\ g[m][n].key = list[n].key
    BY <2>2, <2>4
  <2>. QED BY <2>4, <2>5, <2>6, <2>7
<1> HIDE DEF S
<1>6. Len(keys) \in S
  <2>1. \A m \in 0 .. Len(keys) : m \in S
    BY <1>3, <1>4, <1>5, UpTo
  <2>. QED BY <1>3, <2>1
<1>7. ToSet(keys) = seen(Len(keys))
  BY <1>3 DEF ToSet
<1>. QED BY <1>2, <1>6, <1>7 DEF S

LEMMA KeptDoes ==
  ASSUME NEW list \in Listing, NEW S
  PROVE  LET r == Kept(list, S)
         IN  /\ r \in Listing /\ Len(r) <= Len(list)
             /\ \A n \in DOMAIN r : r[n] \in S /\ \E j \in DOMAIN list : r[n] = list[j]
             /\ \A j \in DOMAIN list : list[j] \in S => \E n \in DOMAIN r : r[n] = list[j]
<1>1. list \in Seq(Entry) /\ DOMAIN list = 1 .. Len(list) /\ Len(list) \in Nat
  BY EntryOf DEF Listing
<1>2. PICK g \in [0 .. Len(list) -> Seq(Entry)] :
           /\ g[0] = <<>> /\ Kept(list, S) = g[Len(list)]
           /\ \A m \in 1 .. Len(list) : g[m] = KeepOne(g[m - 1], list[m], S)
  BY <1>1, KeptRuns
<1> DEFINE Does(r, m) ==
             /\ r \in Listing /\ Len(r) <= m
             /\ \A n \in DOMAIN r : r[n] \in S /\ \E j \in 1 .. m : r[n] = list[j]
             /\ \A j \in 1 .. m : list[j] \in S => \E n \in DOMAIN r : r[n] = list[j]
           T == {m \in 0 .. Len(list) : Does(g[m], m)}
<1>3. 0 \in T
  <2>1. <<>> \in Seq(Entry) /\ Len(<<>>) = 0 /\ DOMAIN <<>> = {}
    OBVIOUS
  <2>2. <<>> \in Listing
    BY <2>1 DEF Listing, Distinct
  <2>. QED BY <1>1, <1>2, <2>1, <2>2
<1>4. ASSUME NEW m \in 1 .. Len(list), m - 1 \in T PROVE m \in T
  <2> DEFINE l == g[m - 1]
             e == list[m]
  <2>1. Does(l, m - 1) /\ g[m] = KeepOne(l, e, S)
    BY <1>2, <1>4
  <2>2. e \in Entry /\ m \in DOMAIN list /\ m \in Nat /\ 1 .. m = 1 .. m - 1 \cup {m}
    BY <1>1
  <2>3. Len(l) \in Nat
    BY <2>1, EntryOf DEF Listing
  <2>4. Does(g[m], m) => m \in T
    <3>1. m \in 0 .. Len(list)
      BY <1>1
    <3> HIDE DEF Does
    <3>. QED BY <3>1
  <2>5. CASE e \notin S
    <3>1. g[m] = l
      BY <2>1, <2>5 DEF KeepOne
    <3>2. Does(l, m)
      BY <2>1, <2>2, <2>3, <2>5
    <3> HIDE DEF Does, T
    <3>. QED BY <2>4, <3>1, <3>2
  <2>6. CASE e \in S
    <3>1. g[m] = Append(l, e)
      BY <2>1, <2>6 DEF KeepOne
    <3>2. e.key \notin Keys(l)
      <4>1. ASSUME NEW n \in DOMAIN l PROVE l[n].key # e.key
        <5>1. PICK j \in 1 .. m - 1 : l[n] = list[j]
          BY <2>1
        <5>2. j # m /\ j \in DOMAIN list
          BY <1>1
        <5>. QED BY <2>2, <5>1, <5>2 DEF Listing, Distinct
      <4>. QED BY <4>1 DEF Keys
    <3>3. Append(l, e) \in Listing
      BY <2>1, <2>2, <3>2, AppendDoes
    <3>4. l \in Seq(Entry)
      BY <2>1 DEF Listing
    <3>5. /\ Len(Append(l, e)) = Len(l) + 1 /\ DOMAIN Append(l, e) = DOMAIN l \cup {Len(l) + 1}
          /\ Append(l, e)[Len(l) + 1] = e /\ \A n \in DOMAIN l : Append(l, e)[n] = l[n]
      BY <3>4
    <3>6. Len(Append(l, e)) <= m
      BY <2>1, <2>2, <2>3, <3>5
    <3>7. \A n \in DOMAIN Append(l, e) :
            Append(l, e)[n] \in S /\ \E j \in 1 .. m : Append(l, e)[n] = list[j]
      BY <2>1, <2>2, <2>6, <3>5
    <3>8. \A j \in 1 .. m : list[j] \in S => \E n \in DOMAIN Append(l, e) : Append(l, e)[n] = list[j]
      <4>1. ASSUME NEW j \in 1 .. m - 1, list[j] \in S
            PROVE  \E n \in DOMAIN Append(l, e) : Append(l, e)[n] = list[j]
        BY <2>1, <3>5, <4>1
      <4>. QED BY <2>2, <3>5, <4>1
    <3>9. Does(Append(l, e), m)
      BY <3>3, <3>6, <3>7, <3>8
    <3> HIDE DEF Does, T
    <3>. QED BY <2>4, <3>1, <3>9
  <2>. QED BY <2>5, <2>6
<1> HIDE DEF T
<1>5. Len(list) \in T
  <2>1. \A m \in 0 .. Len(list) : m \in T
    BY <1>1, <1>3, <1>4, UpTo
  <2>. QED BY <1>1, <2>1
<1>6. Does(g[Len(list)], Len(list))
  BY <1>5 DEF T
<1>7. Kept(list, S) = g[Len(list)]
  BY <1>2
<1> HIDE DEF Does
<1>8. Does(Kept(list, S), Len(list))
  BY <1>6, <1>7
<1>. QED BY <1>1, <1>8 DEF Does

LEMMA KeptSame ==
  ASSUME NEW list \in Seq(Entry), NEW S, NEW T, \A n \in DOMAIN list : list[n] \in S <=> list[n] \in T
  PROVE  Kept(list, S) = Kept(list, T)
<1>1. DOMAIN list = 1 .. Len(list) /\ Len(list) \in Nat
  OBVIOUS
<1>2. PICK g \in [0 .. Len(list) -> Seq(Entry)] :
           /\ g[0] = <<>> /\ Kept(list, S) = g[Len(list)]
           /\ \A m \in 1 .. Len(list) : g[m] = KeepOne(g[m - 1], list[m], S)
  BY KeptRuns
<1>3. PICK h \in [0 .. Len(list) -> Seq(Entry)] :
           /\ h[0] = <<>> /\ Kept(list, T) = h[Len(list)]
           /\ \A m \in 1 .. Len(list) : h[m] = KeepOne(h[m - 1], list[m], T)
  BY KeptRuns
<1> DEFINE U == {m \in 0 .. Len(list) : g[m] = h[m]}
<1>4. 0 \in U
  BY <1>1, <1>2, <1>3
<1>5. ASSUME NEW m \in 1 .. Len(list), m - 1 \in U PROVE m \in U
  <2>1. g[m - 1] = h[m - 1] /\ m \in 0 .. Len(list)
    BY <1>1, <1>5
  <2>2. KeepOne(g[m - 1], list[m], S) = KeepOne(g[m - 1], list[m], T)
    BY <1>1 DEF KeepOne
  <2>3. g[m] = h[m]
    BY <1>2, <1>3, <2>1, <2>2
  <2>. QED BY <2>1, <2>3
<1> HIDE DEF U
<1>6. Len(list) \in U
  <2>1. \A m \in 0 .. Len(list) : m \in U
    BY <1>1, <1>4, <1>5, UpTo
  <2>. QED BY <1>1, <2>1
<1>. QED BY <1>2, <1>3, <1>6 DEF U

\* What is kept when nothing after an entry is.
LEMMA KeptPrefix ==
  ASSUME NEW list \in Seq(Entry), NEW S, NEW n \in 0 .. Len(list),
         \A m \in DOMAIN list : list[m] \in S <=> m <= n
  PROVE  LET r == Kept(list, S)
         IN  DOMAIN r = 1 .. n /\ \A m \in 1 .. n : r[m] = list[m]
<1>1. DOMAIN list = 1 .. Len(list) /\ Len(list) \in Nat
  OBVIOUS
<1>2. PICK g \in [0 .. Len(list) -> Seq(Entry)] :
           /\ g[0] = <<>> /\ Kept(list, S) = g[Len(list)]
           /\ \A m \in 1 .. Len(list) : g[m] = KeepOne(g[m - 1], list[m], S)
  BY KeptRuns
<1> DEFINE Short(m) == IF m <= n THEN m ELSE n
           Does(r, m) == Len(r) = Short(m) /\ \A j \in 1 .. Short(m) : r[j] = list[j]
           T == {m \in 0 .. Len(list) : Does(g[m], m)}
<1>3. 0 \in T
  BY <1>1, <1>2
<1>4. ASSUME NEW m \in 1 .. Len(list), m - 1 \in T PROVE m \in T
  <2> DEFINE l == g[m - 1]
  <2>1. Does(l, m - 1) /\ g[m] = KeepOne(l, list[m], S) /\ l \in Seq(Entry)
    BY <1>2, <1>4
  <2>2. CASE m <= n
    <3>1. g[m] = Append(l, list[m]) /\ Short(m - 1) = m - 1 /\ Short(m) = m
      BY <1>1, <2>1, <2>2 DEF KeepOne
    <3>2. /\ Len(Append(l, list[m])) = m /\ Append(l, list[m])[m] = list[m]
          /\ \A j \in 1 .. m - 1 : Append(l, list[m])[j] = list[j]
      BY <2>1, <3>1
    <3>3. \A j \in 1 .. m : j = m \/ j \in 1 .. m - 1
      OBVIOUS
    <3>. QED BY <3>1, <3>2, <3>3
  <2>3. CASE ~(m <= n)
    <3>1. g[m] = l /\ Short(m - 1) = n /\ Short(m) = n
      BY <1>1, <2>1, <2>3 DEF KeepOne
    <3>. QED BY <2>1, <3>1
  <2>. QED BY <2>2, <2>3
<1> HIDE DEF T
<1>5. Len(list) \in T
  <2>1. \A m \in 0 .. Len(list) : m \in T
    BY <1>1, <1>3, <1>4, UpTo
  <2>. QED BY <1>1, <2>1
<1>6. Does(g[Len(list)], Len(list)) /\ g[Len(list)] \in Seq(Entry)
  BY <1>1, <1>5 DEF T
<1>7. Short(Len(list)) = n
  <2>1. n \in Nat /\ n <= Len(list)
    BY <1>1
  <2>2. CASE Len(list) <= n
    <3>1. \A a, b \in Nat : a <= b /\ b <= a => a = b
      OBVIOUS
    <3>2. Len(list) = n
      BY <1>1, <2>1, <2>2, <3>1
    <3>. QED BY <2>2, <3>2
  <2>3. CASE ~(Len(list) <= n)
    BY <2>3
  <2>. QED BY <2>2, <2>3
<1>. QED BY <1>2, <1>6, <1>7

\* What one thing becomes when the entries outside S are dropped.
LEMMA KeptMarks ==
  ASSUME NEW list \in Listing, NEW S
  PROVE  LET r == Kept(list, S)
         IN  /\ \A n \in DOMAIN list :
                  /\ list[n].key \in Keys(r) <=> list[n] \in S
                  /\ MarkOf(r, list[n].key) = IF list[n] \in S THEN list[n].mark ELSE "absent"
             /\ Keys(r) \subseteq Keys(list)
             /\ \A i : i \notin Keys(list) => MarkOf(r, i) = "absent"
<1> DEFINE r == Kept(list, S)
<1>1. /\ r \in Listing
      /\ \A n \in DOMAIN r : r[n] \in S /\ \E j \in DOMAIN list : r[n] = list[j]
      /\ \A j \in DOMAIN list : list[j] \in S => \E n \in DOMAIN r : r[n] = list[j]
  BY KeptDoes
<1> HIDE DEF r
<1>2. Keys(r) \subseteq Keys(list)
  BY <1>1 DEF Keys
<1>3. ASSUME NEW n \in DOMAIN list
      PROVE  /\ list[n].key \in Keys(r) <=> list[n] \in S
             /\ MarkOf(r, list[n].key) = IF list[n] \in S THEN list[n].mark ELSE "absent"
  <2>1. CASE list[n] \in S
    <3>1. PICK m \in DOMAIN r : r[m] = list[n]
      BY <1>1, <2>1
    <3>2. MarkOf(r, r[m].key) = r[m].mark /\ r[m].key \in Keys(r)
      BY <1>1, MarkIs DEF Keys
    <3>. QED BY <2>1, <3>1, <3>2
  <2>2. CASE list[n] \notin S
    <3>1. ASSUME NEW m \in DOMAIN r, r[m].key = list[n].key PROVE FALSE
      <4>1. PICK j \in DOMAIN list : r[m] = list[j]
        BY <1>1
      <4>2. j = n
        BY <3>1, <4>1 DEF Listing, Distinct
      <4>. QED BY <1>1, <2>2, <4>1, <4>2
    <3>2. list[n].key \notin Keys(r)
      BY <3>1 DEF Keys
    <3>. QED BY <2>2, <3>2 DEF MarkOf
  <2>. QED BY <2>1, <2>2
<1>4. \A i : i \notin Keys(list) => MarkOf(r, i) = "absent"
  BY <1>2 DEF MarkOf
<1>. QED BY <1>2, <1>3, <1>4 DEF r

\* The order of the things that are on both of two lists.
Keyed(K) == {e \in Entry : e.key \in K}
OrderOf(l, K) == LET k == Kept(l, Keyed(K)) IN [n \in DOMAIN k |-> k[n].key]

LEMMA KeptOrder ==
  ASSUME NEW list \in Listing, NEW S
  PROVE  LET r == Kept(list, S)
             K == Keys(list) \cap Keys(r)
         IN  OrderOf(list, K) = OrderOf(r, K)
<1> DEFINE r == Kept(list, S)
           K == Keys(list) \cap Keys(r)
<1>1. list \in Seq(Entry) /\ r \in Listing /\ r \in Seq(Entry)
  BY KeptDoes DEF Listing
<1>2. \A n \in DOMAIN list : list[n] \in Keyed(K) <=> list[n] \in S
  <2>1. \A n \in DOMAIN list : list[n] \in Entry /\ list[n].key \in Keys(list)
    BY <1>1, EntryOf DEF Keys
  <2>. QED BY <2>1, KeptMarks DEF Keyed
<1>3. Kept(list, Keyed(K)) = r
  BY <1>1, <1>2, KeptSame
<1>4. Keys(r) \subseteq Keys(list)
  BY KeptMarks
<1> HIDE DEF r
<1>5. DOMAIN r = 1 .. Len(r) /\ Len(r) \in Nat /\ \A n \in DOMAIN r : r[n] \in Entry
  BY <1>1, EntryOf
<1>6. \A m \in DOMAIN r : r[m] \in Keyed(K) <=> m <= Len(r)
  <2>1. ASSUME NEW m \in DOMAIN r PROVE r[m] \in Keyed(K)
    <3>1. r[m].key \in Keys(r) /\ r[m] \in Entry
      BY <1>5 DEF Keys
    <3>. QED BY <1>4, <3>1 DEF Keyed
  <2>2. \A m \in DOMAIN r : m <= Len(r)
    BY <1>5
  <2>. QED BY <2>1, <2>2
<1>7. /\ DOMAIN Kept(r, Keyed(K)) = DOMAIN r
      /\ \A m \in DOMAIN r : Kept(r, Keyed(K))[m] = r[m]
  <2>1. Len(r) \in 0 .. Len(r)
    BY <1>5
  <2> HIDE DEF K
  <2>2. LET k == Kept(r, Keyed(K))
        IN  DOMAIN k = 1 .. Len(r) /\ \A m \in 1 .. Len(r) : k[m] = r[m]
    BY <1>1, <1>6, <2>1, KeptPrefix
  <2>. QED BY <1>5, <2>2
<1>8. OrderOf(list, K) = [n \in DOMAIN r |-> r[n].key]
  BY <1>3 DEF OrderOf
<1>9. OrderOf(r, K) = [n \in DOMAIN r |-> r[n].key]
  BY <1>7 DEF OrderOf
<1>. QED BY <1>8, <1>9 DEF r

LEMMA PrefixOrder ==
  ASSUME NEW list \in Listing, NEW r \in Listing,
         \A n \in DOMAIN list : n \in DOMAIN r /\ r[n].key = list[n].key
  PROVE  LET K == Keys(list) \cap Keys(r)
         IN  OrderOf(list, K) = OrderOf(r, K)
<1> DEFINE K == Keys(list) \cap Keys(r)
<1>1. list \in Seq(Entry) /\ r \in Seq(Entry) /\ Distinct(r)
  BY DEF Listing
<1>2. /\ DOMAIN list = 1 .. Len(list) /\ Len(list) \in Nat /\ \A n \in DOMAIN list : list[n] \in Entry
      /\ DOMAIN r = 1 .. Len(r) /\ Len(r) \in Nat /\ \A n \in DOMAIN r : r[n] \in Entry
  BY <1>1, EntryOf
<1>3. Len(list) \in 0 .. Len(r) /\ Len(list) \in 0 .. Len(list)
  <2>1. Len(list) # 0 => Len(list) \in DOMAIN r
    BY <1>2
  <2>. QED BY <1>2, <2>1
<1>4. K = Keys(list)
  BY DEF Keys
<1>5. \A m \in DOMAIN list : list[m] \in Keyed(K) <=> m <= Len(list)
  BY <1>2, <1>4 DEF Keyed, Keys
<1>6. ASSUME NEW m \in DOMAIN r PROVE r[m] \in Keyed(K) <=> m <= Len(list)
  <2>1. r[m] \in Keyed(K) <=> \E j \in DOMAIN list : list[j].key = r[m].key
    BY <1>2, <1>4 DEF Keyed, Keys
  <2>2. ASSUME NEW j \in DOMAIN list, list[j].key = r[m].key PROVE m \in DOMAIN list
    BY <1>1, <2>2 DEF Distinct
  <2>3. m \in DOMAIN list <=> m <= Len(list)
    BY <1>2
  <2>. QED BY <2>1, <2>2, <2>3
<1> HIDE DEF K
<1>7. LET k == Kept(list, Keyed(K))
      IN  DOMAIN k = 1 .. Len(list) /\ \A m \in 1 .. Len(list) : k[m] = list[m]
  BY <1>1, <1>3, <1>5, KeptPrefix
<1>8. LET k == Kept(r, Keyed(K))
      IN  DOMAIN k = 1 .. Len(list) /\ \A m \in 1 .. Len(list) : k[m] = r[m]
  BY <1>1, <1>3, <1>6, KeptPrefix
<1>9. OrderOf(list, K) = [n \in 1 .. Len(list) |-> list[n].key]
  BY <1>7 DEF OrderOf
<1>10. OrderOf(r, K) = [n \in 1 .. Len(list) |-> r[n].key]
  BY <1>8 DEF OrderOf
<1>11. \A n \in 1 .. Len(list) : r[n].key = list[n].key
  BY <1>2
<1>. QED BY <1>9, <1>10, <1>11 DEF K

\* What an operation means for each thing, the order and the length.
Means(o, list, after) ==
  /\ after \in Listing
  /\ o.do # "add" => Len(after) <= Len(list)
  /\ \A i \in Item : MarkOf(after, i) = Meaning(o, i, MarkOf(list, i))
  /\ LET K == Keys(list) \cap Keys(after) IN OrderOf(list, K) = OrderOf(after, K)

LEMMA MarkTypes ==
  ASSUME NEW list \in Listing, NEW i
  PROVE  /\ i \in Keys(list) => /\ MarkOf(list, i) \in {Open, Bought}
                                /\ \E n \in DOMAIN list : list[n].key = i /\ MarkOf(list, i) = list[n].mark
         /\ i \notin Keys(list) => MarkOf(list, i) = "absent"
<1>1. CASE i \in Keys(list)
  <2>1. PICK n \in DOMAIN list : list[n].key = i
    BY <1>1 DEF Keys
  <2>2. list[n].mark \in {Open, Bought}
    BY EntryOf DEF Listing
  <2>. QED BY <1>1, <2>1, <2>2, MarkIs
<1>2. CASE i \notin Keys(list)
  BY <1>2 DEF MarkOf
<1>. QED BY <1>1, <1>2

LEMMA OpTypes ==
  ASSUME NEW o \in Op
  PROVE  /\ o.do \in {"add", "remove", "check", "uncheck", "clear", "clear all", "read"}
         /\ o.keys \in Seq(Item) /\ ToSet(o.keys) \in SUBSET Item
<1>1. ASSUME NEW s \in Seq(Item), o.keys = s PROVE ToSet(o.keys) \in SUBSET Item
  <2>1. \A n \in DOMAIN s : s[n] \in Item
    OBVIOUS
  <2>. QED BY <1>1, <2>1 DEF ToSet
<1>2. CASE o \in [do : {"add", "remove", "check", "uncheck"}, keys : Batch]
  <2>1. o.do \in {"add", "remove", "check", "uncheck"} /\ o.keys \in Batch
    BY <1>2
  <2>. QED BY <1>1, <2>1, StoreAssumption
<1>3. CASE o \in [do : {"clear", "clear all", "read"}, keys : {<<>>}]
  <2>1. o.do \in {"clear", "clear all", "read"} /\ o.keys = <<>>
    BY <1>3
  <2>2. <<>> \in Seq(Item)
    OBVIOUS
  <2>. QED BY <1>1, <2>1, <2>2
<1>. QED BY <1>2, <1>3 DEF Op

\* Every operation does what its name says, on whatever list.
LEMMA OperationsDo ==
  ASSUME NEW list \in Listing, NEW o \in Op
  PROVE  Means(o, list, Applied(o, list))
<1> DEFINE K == ToSet(o.keys)
           after == Applied(o, list)
<1> SUFFICES Means(o, list, after)
  OBVIOUS
<1>1. /\ o.do \in {"add", "remove", "check", "uncheck", "clear", "clear all", "read"}
      /\ o.keys \in Seq(Item)
  BY OpTypes
<1>2. list \in Seq(Entry) /\ Len(list) \in Nat
  BY EntryOf DEF Listing
<1>3. CASE o.do = "add"
  <2>1. after = Added(list, o.keys)
    BY <1>3 DEF Applied
  <2>2. /\ after \in Listing
        /\ \A n \in DOMAIN list : n \in DOMAIN after /\ after[n].key = list[n].key
        /\ \A i : MarkOf(after, i) = IF i \in K THEN Open ELSE MarkOf(list, i)
    <3>1. LET r == Added(list, o.keys)
          IN  /\ r \in Listing
              /\ \A n \in DOMAIN list : n \in DOMAIN r /\ r[n].key = list[n].key
              /\ \A i : MarkOf(r, i) = IF i \in ToSet(o.keys) THEN Open ELSE MarkOf(list, i)
      BY <1>1, AddedDoes
    <3> HIDE DEF after
    <3>. QED BY <2>1, <3>1
  <2>3. \A i : Meaning(o, i, MarkOf(list, i)) = IF i \in K THEN Open ELSE MarkOf(list, i)
    BY <1>3 DEF Meaning
  <2> HIDE DEF after
  <2>. QED BY <1>3, <2>2, <2>3, PrefixOrder DEF Means
<1>4. ASSUME NEW mark \in {Open, Bought}, after = WithMark(list, K, mark), o.do # "add",
             \A i : Meaning(o, i, MarkOf(list, i)) =
                      IF i \in K /\ MarkOf(list, i) # "absent" THEN mark ELSE MarkOf(list, i)
      PROVE  Means(o, list, after)
  <2>1. /\ after \in Listing /\ Len(after) = Len(list)
        /\ \A n \in DOMAIN list : n \in DOMAIN after /\ after[n].key = list[n].key
        /\ \A i : MarkOf(after, i) = IF i \in K /\ i \in Keys(list) THEN mark ELSE MarkOf(list, i)
    BY <1>4, WithMarkDoes
  <2>2. \A i : i \in Keys(list) <=> MarkOf(list, i) # "absent"
    BY MarkTypes DEF Open, Bought
  <2> HIDE DEF after, K
  <2>. QED BY <1>2, <1>4, <2>1, <2>2, PrefixOrder DEF Means
<1>5. ASSUME NEW S, after = Kept(list, S), o.do # "add",
             \A i : i \notin Keys(list) => Meaning(o, i, MarkOf(list, i)) = "absent",
             \A n \in DOMAIN list : Meaning(o, list[n].key, list[n].mark) =
                                      IF list[n] \in S THEN list[n].mark ELSE "absent"
      PROVE  Means(o, list, after)
  <2>1. after \in Listing /\ Len(after) <= Len(list)
    BY <1>5, KeptDoes
  <2>2. ASSUME NEW i \in Item PROVE MarkOf(after, i) = Meaning(o, i, MarkOf(list, i))
    <3>1. CASE i \in Keys(list)
      <4>1. PICK n \in DOMAIN list : list[n].key = i /\ MarkOf(list, i) = list[n].mark
        BY <3>1, MarkTypes
      <4>2. MarkOf(after, i) = IF list[n] \in S THEN list[n].mark ELSE "absent"
        BY <1>5, <4>1, KeptMarks
      <4> HIDE DEF after
      <4>. QED BY <1>5, <4>1, <4>2
    <3>2. CASE i \notin Keys(list)
      <4>1. MarkOf(after, i) = "absent"
        BY <1>5, <3>2, KeptMarks
      <4> HIDE DEF after
      <4>. QED BY <1>5, <3>2, <4>1
    <3>. QED BY <3>1, <3>2
  <2>3. LET both == Keys(list) \cap Keys(after) IN OrderOf(list, both) = OrderOf(after, both)
    BY <1>5, KeptOrder
  <2> HIDE DEF after
  <2>. QED BY <1>5, <2>1, <2>2, <2>3 DEF Means
<1>6. CASE o.do \in {"check", "uncheck"}
  <2> DEFINE mark == IF o.do = "check" THEN Bought ELSE Open
  <2>1. after = WithMark(list, K, mark)
    BY <1>6 DEF Applied
  <2>2. \A i : Meaning(o, i, MarkOf(list, i)) =
                 IF i \in K /\ MarkOf(list, i) # "absent" THEN mark ELSE MarkOf(list, i)
    BY <1>6 DEF Meaning
  <2> HIDE DEF after, K
  <2>. QED BY <1>4, <1>6, <2>1, <2>2
<1>7. CASE o.do = "remove"
  <2> DEFINE S == {e \in Entry : e.key \notin K}
  <2>1. after = Kept(list, S)
    BY <1>7 DEF Applied
  <2>2. \A i : i \notin Keys(list) => Meaning(o, i, MarkOf(list, i)) = "absent"
    BY <1>7, MarkTypes DEF Meaning
  <2>3. \A n \in DOMAIN list : Meaning(o, list[n].key, list[n].mark) =
                                 IF list[n] \in S THEN list[n].mark ELSE "absent"
    BY <1>2, <1>7, EntryOf DEF Meaning
  <2> HIDE DEF after, S
  <2>. QED BY <1>5, <1>7, <2>1, <2>2, <2>3
<1>8. CASE o.do = "clear"
  <2> DEFINE S == {e \in Entry : e.mark = Open}
  <2>1. after = Kept(list, S)
    BY <1>8 DEF Applied
  <2>2. \A i : i \notin Keys(list) => Meaning(o, i, MarkOf(list, i)) = "absent"
    BY <1>8, MarkTypes DEF Meaning
  <2>3. \A n \in DOMAIN list : Meaning(o, list[n].key, list[n].mark) =
                                 IF list[n] \in S THEN list[n].mark ELSE "absent"
    BY <1>2, <1>8, EntryOf DEF Meaning, Open, Bought
  <2> HIDE DEF after, S
  <2>. QED BY <1>5, <1>8, <2>1, <2>2, <2>3
<1>9. CASE o.do = "clear all"
  <2>1. after = Kept(list, {})
    <3>1. 0 \in 0 .. Len(list) /\ \A m \in DOMAIN list : list[m] \in {} <=> m <= 0
      BY <1>2, EntryOf
    <3>2. DOMAIN Kept(list, {}) = 1 .. 0
      BY <1>2, <3>1, KeptPrefix
    <3>3. Kept(list, {}) \in Seq(Entry)
      BY KeptDoes DEF Listing
    <3>4. Kept(list, {}) = <<>>
      BY <3>2, <3>3
    <3>. QED BY <1>9, <3>4 DEF Applied
  <2>2. \A i, mark : Meaning(o, i, mark) = "absent"
    BY <1>9 DEF Meaning
  <2>3. \A n \in DOMAIN list : Meaning(o, list[n].key, list[n].mark) =
                                 IF list[n] \in {} THEN list[n].mark ELSE "absent"
    BY <2>2
  <2>4. \A i : i \notin Keys(list) => Meaning(o, i, MarkOf(list, i)) = "absent"
    BY <2>2
  <2>5. o.do # "add"
    BY <1>9
  <2> HIDE DEF after
  <2>. QED BY <1>5, <2>1, <2>3, <2>4, <2>5
<1>10. CASE o.do = "read"
  <2>1. after = list
    BY <1>10 DEF Applied
  <2>2. \A i : Meaning(o, i, MarkOf(list, i)) = MarkOf(list, i)
    BY <1>10 DEF Meaning
  <2> HIDE DEF after
  <2>. QED BY <1>2, <1>10, <2>1, <2>2 DEF Means
<1>. QED BY <1>1, <1>3, <1>6, <1>7, <1>8, <1>9, <1>10

-----------------------------------------------------------------------------
(* The locks and the files.                                                *)

\* The inductive invariant: the lock file is held by the thread inside its
\* with statement; what a thread is about to save is its operation, which the
\* limit lets through, applied to what the file holds, and its temporary file
\* is whole when it replaces.
Saving == {"write", "writing", "replace"}

Does(list, after) == \E o \in Op : after = Applied(o, list) /\ ~Refused(o, list)

IInv ==
  /\ disk = [p \in Path |-> disk[p]]
  /\ torn \subseteq {Tmp}
  /\ flock \in Actor \cup {Nobody}
  /\ phase \in [Actor -> Phase]
  /\ new = [a \in Actor |-> new[a]]
  /\ \A a \in Actor :
       /\ phase[a] \in InFlock <=> flock = a
       /\ phase[a] \in Saving => Does(disk[Json], new[a])
       /\ phase[a] = "replace" => disk[Tmp] = new[a] /\ Tmp \notin torn

LEMMA Initially == Init => IInv
  BY NobodyAssumption DEF Init, IInv, Phase, InMutex, InFlock, Saving

\* A step of one thread that holds the lock file, if every other keeps still.
LEMMA OthersOut ==
  ASSUME IInv, NEW a \in Actor, phase[a] \in InFlock,
         NEW b \in Actor, b # a
  PROVE  phase[b] \notin InFlock /\ phase[b] \notin Saving /\ phase[b] # "replace"
  BY DEF IInv, InFlock, Saving

LEMMA Inductive == IInv /\ [Next]_vars => IInv'
<1> SUFFICES ASSUME IInv, [Next]_vars PROVE IInv'
  OBVIOUS
<1> USE DEF Phase, InMutex, InFlock, Saving, Goes, files, locks
<1>1. ASSUME NEW a \in Actor, Call(a) PROVE IInv'
  BY <1>1 DEF Call, IInv
<1>2. ASSUME NEW a \in Actor, TakeMutex(a) PROVE IInv'
  BY <1>2 DEF TakeMutex, IInv
<1>3. ASSUME NEW a \in Actor, TakeFlock(a) PROVE IInv'
  BY <1>3, NobodyAssumption DEF TakeFlock, IInv
<1>4. ASSUME NEW a \in Actor, CannotLock(a) PROVE IInv'
  BY <1>4 DEF CannotLock, IInv
<1>5. ASSUME NEW a \in Actor, NEW o \in Op, Change(a, o) PROVE IInv'
  <2> USE <1>5 DEF Change
  <2>1. Does(disk[Json], new'[a]) /\ phase'[a] = "write"
    BY DEF Does, IInv
  <2>2. \A b \in Actor : b # a => phase'[b] = phase[b] /\ new'[b] = new[b]
    BY DEF IInv
  <2>3. new' = [b \in Actor |-> new'[b]] /\ phase' \in [Actor -> Phase]
    BY DEF IInv
  <2> QED
    BY <2>1, <2>2, <2>3, OthersOut DEF IInv
<1>6. ASSUME NEW a \in Actor, SaveNothing(a) PROVE IInv'
  BY <1>6 DEF SaveNothing, IInv
<1>7. ASSUME NEW a \in Actor, StartWrite(a) PROVE IInv'
  BY <1>7, OthersOut DEF StartWrite, IInv
<1>8. ASSUME NEW a \in Actor, FinishWrite(a) PROVE IInv'
  <2> USE <1>8 DEF FinishWrite
  <2>1. /\ disk' = [p \in Path |-> disk'[p]]
        /\ disk'[Json] = disk[Json]
        /\ disk'[Tmp] = new[a]
    BY DEF IInv, Path, Json, Tmp
  <2>2. \A b \in Actor : b # a => phase'[b] = phase[b]
    BY DEF IInv
  <2>3. phase'[a] = "replace" /\ phase' \in [Actor -> Phase]
    BY DEF IInv
  <2>4. torn' \subseteq {Tmp} /\ Tmp \notin torn'
    BY DEF IInv
  <2>5. ASSUME NEW b \in Actor
        PROVE  /\ phase'[b] \in InFlock <=> flock = b
               /\ phase'[b] \in Saving => Does(disk[Json], new[b])
               /\ phase'[b] = "replace" => b = a
    BY <2>2, <2>3, OthersOut DEF IInv
  <2> QED
    BY <2>1, <2>3, <2>4, <2>5 DEF IInv
<1>9. ASSUME NEW a \in Actor, Replace(a) PROVE IInv'
  <2> USE <1>9 DEF Replace
  <2>1. disk' = [p \in Path |-> disk'[p]] /\ torn' = {}
    BY DEF IInv
  <2>2. \A b \in Actor : b # a => phase'[b] = phase[b] /\ phase[b] \notin InFlock
    BY OthersOut DEF IInv
  <2>3. phase'[a] = "leave" /\ phase' \in [Actor -> Phase]
    BY DEF IInv
  <2> QED
    BY <2>1, <2>2, <2>3 DEF IInv
<1>10. ASSUME NEW a \in Actor, SaveFails(a) PROVE IInv'
  BY <1>10 DEF SaveFails, IInv
<1>11. ASSUME NEW a \in Actor, Leave(a) PROVE IInv'
  BY <1>11, OthersOut, NobodyAssumption DEF Leave, IInv
<1>12. ASSUME NEW p \in Process, Crash(p) PROVE IInv'
  BY <1>12, NobodyAssumption, StoreAssumption DEF Crash, IInv
<1>13. CASE UNCHANGED vars
  BY <1>13 DEF vars, IInv
<1> HIDE DEF Phase, InMutex, InFlock, Saving, Goes, files, locks
<1>14. ASSUME NEW a \in Actor, Runs(a) PROVE IInv'
  BY <1>14, <1>2, <1>3, <1>4, <1>5, <1>6, <1>7, <1>8, <1>9, <1>10, <1>11 DEF Runs
<1> QED
  BY <1>1, <1>12, <1>13, <1>14 DEF Next

\* Every reachable state satisfies the inductive invariant.
THEOREM Invariant == Spec => []IInv
  BY Initially, Inductive, PTL DEF Spec

\* _store.py 6-7: no crash, wherever it comes, leaves a half-written list.
THEOREM ListStaysWhole == Spec => []NeverHalfWritten
<1>1. IInv => NeverHalfWritten
  BY DEF IInv, NeverHalfWritten, Json, Tmp
<1> QED
  BY <1>1, Invariant, PTL

\* A step either leaves the list or is one operation on it that the limit
\* lets through.
Step == Does(disk[Json], disk'[Json])

LEMMA OneStep == IInv /\ [Next]_vars => [Step]_(disk[Json])
<1> SUFFICES ASSUME IInv, [Next]_vars PROVE [Step]_(disk[Json])
  OBVIOUS
<1> USE DEF files, Path, Json, Tmp
<1>1. ASSUME NEW a \in Actor, FinishWrite(a) PROVE disk'["json"] = disk["json"]
  BY <1>1 DEF FinishWrite, IInv
<1>2. ASSUME NEW a \in Actor, Replace(a) PROVE Step
  BY <1>2 DEF Replace, IInv, Saving, Step
<1>3. CASE UNCHANGED disk
  BY <1>3
<1>4. [Next]_vars => \/ UNCHANGED disk
                     \/ \E a \in Actor : FinishWrite(a) \/ Replace(a)
  BY DEF Next, Runs, vars, Call, TakeMutex, TakeFlock, CannotLock, Change, SaveNothing,
         StartWrite, SaveFails, Leave, Crash
<1> QED
  BY <1>1, <1>2, <1>3, <1>4

\* _os_lock: whatever the interleaving of processes and threads, every change
\* of the file is one operation applied to what the file held.
THEOREM NoUpdateLost == Spec => OperationsAreAtomic
<1> DEFINE Once == \E o \in Op : disk'[Json] = Applied(o, disk[Json])
<1>1. [Step]_(disk[Json]) => [Once]_(disk[Json])
  BY DEF Step, Does
<1> QED
  BY <1>1, OneStep, Invariant, PTL DEF Spec, OperationsAreAtomic

\* The list the file holds: each thing once, and within the limit.
ListInv == disk[Json] \in Listing /\ Len(disk[Json]) <= MaxItems

LEMMA EmptyListing == <<>> \in Listing /\ Len(<<>>) = 0 /\ Keys(<<>>) = {}
<1>1. <<>> \in Seq(Entry) /\ DOMAIN <<>> = {}
  OBVIOUS
<1> QED
  BY <1>1 DEF Listing, Distinct, Keys

LEMMA StaysWithin ==
  ASSUME NEW list \in Listing, Len(list) <= MaxItems, NEW after, Does(list, after)
  PROVE  after \in Listing /\ Len(after) <= MaxItems
<1>1. PICK o \in Op : after = Applied(o, list) /\ ~Refused(o, list)
  BY DEF Does
<1>2. Means(o, list, after)
  BY <1>1, OperationsDo
<1>3. Len(after) \in Nat /\ Len(list) \in Nat /\ after \in Listing
  BY <1>2, EntryOf DEF Means, Listing
<1>4. CASE o.do = "add"
  <2>1. after = Added(list, o.keys) /\ ~(Len(Added(list, o.keys)) > MaxItems)
    BY <1>1, <1>4 DEF Applied, Refused
  <2> QED
    BY <1>3, <2>1, StoreAssumption
<1>5. CASE o.do # "add"
  BY <1>2, <1>3, <1>5, StoreAssumption DEF Means
<1> QED
  BY <1>3, <1>4, <1>5

LEMMA ListHolds == Spec => []ListInv
<1>1. Init => ListInv
  BY EmptyListing, StoreAssumption DEF Init, ListInv, Path, Json
<1>2. ListInv /\ [Step]_(disk[Json]) => ListInv'
  <2>1. ASSUME ListInv, Step PROVE ListInv'
    BY <2>1, StaysWithin DEF ListInv, Step
  <2>2. ASSUME ListInv, UNCHANGED disk[Json] PROVE ListInv'
    BY <2>2 DEF ListInv
  <2> QED
    BY <2>1, <2>2
<1> QED
  BY <1>1, <1>2, OneStep, Invariant, PTL DEF Spec

\* _store.py 4-6: the list never holds a thing twice nor more than MAX_ITEMS,
\* however many threads and processes add to it, and whatever operation comes
\* next does to every thing what its name says and keeps the order of the rest.
THEOREM ListIsRight == Spec => []ListRight
<1>1. ListInv => OneEntryPerKey
  BY DEF ListInv, OneEntryPerKey, Listing, Distinct
<1>2. ListInv => OperationsMean
  <2> SUFFICES ASSUME ListInv, NEW o \in Op
               PROVE  LET list == disk[Json]
                          after == Applied(o, list)
                          K == Keys(list) \cap Keys(after)
                      IN  /\ \A i \in Item : MarkOf(after, i) = Meaning(o, i, MarkOf(list, i))
                          /\ OrderOf(list, K) = OrderOf(after, K)
    BY DEF OperationsMean, OrderOf, Keyed
  <2>1. Means(o, disk[Json], Applied(o, disk[Json]))
    BY OperationsDo DEF ListInv
  <2> QED
    BY <2>1 DEF Means
<1> QED
  BY <1>1, <1>2, ListHolds, PTL DEF ListRight

-----------------------------------------------------------------------------
(* The store implements the shopping list.                                 *)

\* As many entries as things on the list, so what bounds the one bounds the other.
LEMMA NoMoreKeys ==
  ASSUME NEW list \in Listing
  PROVE  Cardinality(Keys(list)) \in Nat /\ Cardinality(Keys(list)) <= Len(list)
<1>1. DOMAIN list = 1 .. Len(list) /\ Len(list) \in Nat
  BY EntryOf DEF Listing
<1>2. IsFiniteSet(1 .. Len(list)) /\ Cardinality(1 .. Len(list)) = Len(list)
  <2>1. /\ IsFiniteSet(1 .. Len(list))
        /\ Cardinality(1 .. Len(list)) = IF 1 > Len(list) THEN 0 ELSE Len(list) - 1 + 1
    <3>1. 1 \in Int /\ Len(list) \in Int
      BY <1>1
    <3> QED
      BY <3>1, FS_Interval
  <2> QED
    BY <1>1, <2>1
<1> DEFINE f == [n \in 1 .. Len(list) |-> list[n].key]
<1>3. f \in Surjection(1 .. Len(list), Keys(list))
  BY <1>1 DEF Keys, Surjection
<1> HIDE DEF f
<1>4. IsFiniteSet(Keys(list)) /\ Cardinality(Keys(list)) <= Len(list)
  BY <1>2, <1>3, FS_Surjection
<1> QED
  BY <1>4, FS_CardinalityType

\* The things on the list of ShoppingList are the keys of the file's entries.
LEMMA ListedIs ==
  ASSUME NEW list \in Listing
  PROVE  {i \in Item : MarkOf(list, i) # "absent"} = Keys(list)
<1>1. Keys(list) \subseteq Item
  BY EntryOf DEF Keys, Listing
<1>2. \A i : i \in Keys(list) <=> MarkOf(list, i) # "absent"
  BY MarkTypes DEF Open, Bought
<1> QED
  BY <1>1, <1>2

\* The cardinality the shopping list counts with is the one counted with here.
LEMMA SameCount == \A S : L!Cardinality(S) = Cardinality(S)
  BY DEF L!Cardinality, Cardinality

\* A change of the file is a change of the shopping list, or none of it.
LEMMA StepMaps == ListInv /\ Step => [L!Change]_([i \in Item |-> MarkOf(disk[Json], i)])
<1> SUFFICES ASSUME ListInv, Step
             PROVE  L!Change \/ UNCHANGED [i \in Item |-> MarkOf(disk[Json], i)]
  OBVIOUS
<1> DEFINE list == disk[Json]
           after == disk'[Json]
<1>1. PICK o \in Op : after = Applied(o, list) /\ ~Refused(o, list)
  BY DEF Step, Does
<1>2. list \in Listing /\ Means(o, list, after)
  BY <1>1, OperationsDo DEF ListInv
<1>3. Means(o, list, after) => \A i \in Item : MarkOf(after, i) = Meaning(o, i, MarkOf(list, i))
  BY DEF Means
<1>4. /\ o.do \in {"add", "remove", "check", "uncheck", "clear", "clear all", "read"}
      /\ o.keys \in Seq(Item)
  BY OpTypes
<1>5. ToSet(o.keys) \in SUBSET Item
  BY OpTypes
<1>6. \A S, mark : L!SetTo(S, mark) <=>
        [i \in Item |-> MarkOf(after, i)]
          = [i \in Item |-> IF i \in S THEN mark ELSE MarkOf(list, i)]
  BY DEF L!SetTo
<1>7. L!Listed = Keys(list)
  BY <1>2, ListedIs DEF L!Listed, L!Absent
<1> HIDE DEF list, after
<1>8. CASE o.do = "add"
  <2>1. \A i \in Item : MarkOf(after, i) = IF i \in ToSet(o.keys) THEN Open ELSE MarkOf(list, i)
    BY <1>2, <1>3, <1>8 DEF Meaning
  <2>2. L!SetTo(ToSet(o.keys), L!Open)
    BY <1>6, <2>1 DEF L!Open, Open
  <2>3. Cardinality(L!Listed \cup ToSet(o.keys)) <= MaxItems
    <3>1. after = Added(list, o.keys) /\ ~(Len(after) > MaxItems)
      BY <1>1, <1>8 DEF Applied, Refused
    <3>2. after \in Listing /\ Keys(after) = Keys(list) \cup ToSet(o.keys)
      BY <1>2, <1>4, <3>1, AddedDoes
    <3>3. Cardinality(Keys(after)) \in Nat /\ Cardinality(Keys(after)) <= Len(after) /\ Len(after) \in Nat
      BY <3>2, NoMoreKeys, EntryOf DEF Listing
    <3> QED
      BY <1>7, <3>1, <3>2, <3>3, StoreAssumption
  <2>4. L!Put(ToSet(o.keys))
    BY <2>2, <2>3, SameCount DEF L!Put
  <2> QED
    BY <1>5, <2>4 DEF L!Change
<1>9. CASE o.do = "remove"
  <2>1. \A i \in Item : MarkOf(after, i) = IF i \in ToSet(o.keys) THEN "absent" ELSE MarkOf(list, i)
    BY <1>2, <1>3, <1>9 DEF Meaning
  <2>2. L!SetTo(ToSet(o.keys), L!Absent)
    BY <1>6, <2>1 DEF L!Absent
  <2> QED
    BY <1>5, <2>2 DEF L!Change, L!TakeOff
<1>10. CASE o.do \in {"check", "uncheck"}
  <2> DEFINE mark == IF o.do = "check" THEN Bought ELSE Open
             S == ToSet(o.keys) \cap Keys(list)
  <2>1. \A i \in Item : MarkOf(after, i) = IF i \in S THEN mark ELSE MarkOf(list, i)
    <3>1. \A i : i \in Keys(list) <=> MarkOf(list, i) # "absent"
      BY <1>2, MarkTypes DEF Open, Bought
    <3> QED
      BY <1>2, <1>3, <1>10, <3>1 DEF Meaning
  <2>2. mark \in L!Mark
    BY DEF L!Mark, L!Open, L!Bought, Open, Bought
  <2> HIDE DEF mark, S
  <2>3. L!SetTo(S, mark)
    BY <1>6, <2>1
  <2>4. L!SetTo(ToSet(o.keys) \cap L!Listed, mark)
    BY <1>7, <2>3 DEF S
  <2> QED
    BY <1>5, <2>2, <2>4 DEF L!Change, L!Tick
<1>11. CASE o.do = "clear"
  <2>1. \A i \in Item : MarkOf(after, i) = IF MarkOf(list, i) = Bought THEN "absent" ELSE MarkOf(list, i)
    BY <1>2, <1>3, <1>11 DEF Meaning
  <2> DEFINE S == {i \in Item : MarkOf(list, i) = Bought}
  <2>2. L!SetTo(S, L!Absent)
    BY <1>6, <2>1 DEF L!Absent
  <2> QED
    BY <2>2 DEF L!Change, L!ClearBought, L!Bought, Bought, list
<1>12. CASE o.do = "clear all"
  <2>1. \A i \in Item : MarkOf(after, i) = "absent"
    BY <1>2, <1>3, <1>12 DEF Meaning
  <2>2. L!SetTo(Item, L!Absent)
    BY <1>6, <2>1 DEF L!Absent
  <2> QED
    BY <2>2 DEF L!Change, L!ClearAll
<1>13. CASE o.do = "read"
  <2>1. \A i \in Item : MarkOf(after, i) = MarkOf(list, i)
    BY <1>2, <1>3, <1>13 DEF Meaning
  <2>2. [i \in Item |-> MarkOf(after, i)] = [i \in Item |-> MarkOf(list, i)]
    BY <2>1
  <2> QED
    BY <2>2 DEF list, after
<1> QED
  BY <1>4, <1>8, <1>9, <1>10, <1>11, <1>12, <1>13

\* The store implements the shopping list: every step of whatever threads and
\* processes is one change of it at one instant, or leaves it alone.
THEOREM StoreIsList == Spec => ListSpec
<1>1. Init => L!Empty
  BY EmptyListing DEF Init, L!Empty, L!Absent, MarkOf, Path, Json
<1>2. ListInv /\ [Step]_(disk[Json]) => [L!Change]_([i \in Item |-> MarkOf(disk[Json], i)])
  <2>1. ASSUME UNCHANGED disk[Json] PROVE UNCHANGED [i \in Item |-> MarkOf(disk[Json], i)]
    BY <2>1
  <2> QED
    BY <2>1, StepMaps
<1> QED
  BY <1>1, <1>2, OneStep, Invariant, ListHolds, PTL DEF Spec, ListSpec, L!ListSpec
=============================================================================
