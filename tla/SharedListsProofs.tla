------------------------ MODULE SharedListsProofs ------------------------
(***************************************************************************)
(* What a change of a list leaves, whatever call fails in it: a list with  *)
(* a segment of its own, the other segments as they were, and at most one  *)
(* entry more or less.  Cited by the theorems of StorageProofs.            *)
(***************************************************************************)
EXTENDS SharedLists, SequenceTheorems, FiniteSetTheorems, WellFoundedInduction, TLAPS

Texts == Seq(Names \cup {Blank})
Distinct(t) == \A i, j \in 1 .. Len(t) : t[i] = t[j] => i = j
DistinctTexts == {t \in Texts : Distinct(t)}
Heaps(T) == [Segs -> T \cup {Gone}]
ListRecords == [n : Nat, shm : Segs \cup {None}]

(* The list has no segment, or one that exists, of its length.             *)
Valid(h, l) ==
  /\ l \in ListRecords
  /\ (l.n = 0) = (l.shm = None)
  /\ l.n > 0 => h[l.shm] # Gone /\ Len(h[l.shm]) = l.n
(* The change of l touches no segment that belongs to another list.        *)
Aside(h, l, r) == \A s \in Segs : h[s] # Gone /\ s # l.shm => r.heap[s] = h[s] /\ r.list.shm # s
Good(T, h, l, r) ==
  /\ r = Result(r.list, r.heap, r.ok) /\ r.ok \in BOOLEAN
  /\ r.heap \in Heaps(T) /\ Valid(r.heap, r.list) /\ Aside(h, l, r)
(* One name is on the list that was not, or the other way round, or none.  *)
OneEntry(h, l, r) ==
  \E x \in Names \cup {Blank} :
    \A y \in Names \ {x} : y \in Listed(r.heap, r.list) <=> y \in Listed(h, l)

----------------------------------------------------------------------------
(* Induction and recursion over an interval, stated for a set of numbers.  *)
LEMMA IntervalInduction ==
  ASSUME NEW n \in Nat, NEW S, 0 \in S, \A i \in 1 .. n : i - 1 \in S => i \in S
  PROVE  \A i \in 0 .. n : i \in S
<1> DEFINE W == {i \in 0 .. n : i \notin S}
<1> SUFFICES ASSUME W # {} PROVE FALSE
  OBVIOUS
<1>1. PICK x \in W : \A y \in W : ~ (<<y, x>> \in OpToRel(<, Nat))
  <2>1. W \subseteq Nat
    OBVIOUS
  <2> HIDE DEF W
  <2> QED
    BY <2>1, WFMin, NatLessThanWellFounded
<1>2. OpToRel(<, Nat) = {ss \in Nat \X Nat : ss[1] < ss[2]}
  BY Zenon DEF OpToRel
<1>3. x \in 1 .. n
  OBVIOUS
<1>4. x - 1 \notin W
  <2>1. <<x - 1, x>> \in Nat \X Nat /\ x - 1 < x
    BY <1>3
  <2>2. <<x - 1, x>> \in {ss \in Nat \X Nat : ss[1] < ss[2]}
    BY <2>1
  <2> QED
    BY <1>1, <1>2, <2>2
<1> QED
  BY <1>3, <1>4

Recursive(f, n, base, step) == f = [i \in 0 .. n |-> IF i = 0 THEN base ELSE step[<<i, f[i - 1]>>]]
LEMMA RecursionExists ==
  ASSUME NEW n \in Nat, NEW base, NEW step
  PROVE  \E f : Recursive(f, n, base, step)
<1> DEFINE Rec(m, f) == f = [i \in 0 .. m |-> IF i = 0 THEN base ELSE step[<<i, f[i - 1]>>]]
<1> DEFINE S == {m \in Nat : \E f : Rec(m, f)}
<1>1. 0 \in S
  <2>1. Rec(0, [i \in 0 .. 0 |-> base])
    OBVIOUS
  <2> QED
    BY <2>1
<1>2. ASSUME NEW m \in 1 .. n, m - 1 \in S PROVE m \in S
  <2>1. PICK f : Rec(m - 1, f)
    BY <1>2
  <2> DEFINE g == [i \in 0 .. m |-> IF i = m THEN step[<<m, f[m - 1]>>] ELSE f[i]]
  <2>2. ASSUME NEW i \in 0 .. m PROVE g[i] = IF i = 0 THEN base ELSE step[<<i, g[i - 1]>>]
    <3>1. CASE i = m
      <4>1. g[m] = step[<<m, f[m - 1]>>] /\ g[m - 1] = f[m - 1] /\ m # 0
        BY <1>2
      <4> QED
        BY <3>1, <4>1
    <3>2. CASE i # m
      <4>1. g[i] = f[i] /\ i \in 0 .. (m - 1)
        BY <1>2, <3>2
      <4>2. f[i] = IF i = 0 THEN base ELSE step[<<i, f[i - 1]>>]
        BY <2>1, <4>1
      <4>3. i # 0 => g[i - 1] = f[i - 1]
        BY <1>2, <3>2
      <4> HIDE DEF g
      <4> QED
        BY <4>1, <4>2, <4>3
    <3> QED
      BY <3>1, <3>2
  <2>3. Rec(m, g)
    <3> DEFINE G == [i \in 0 .. m |-> IF i = 0 THEN base ELSE step[<<i, g[i - 1]>>]]
    <3>1. \A i \in 0 .. m : g[i] = G[i]
      <4> HIDE DEF g
      <4> QED
        BY <2>2
    <3>2. g = G
      <4>1. DOMAIN g = 0 .. m /\ DOMAIN G = 0 .. m /\ g = [i \in DOMAIN g |-> g[i]] /\ G = [i \in DOMAIN G |-> G[i]]
        OBVIOUS
      <4> HIDE DEF g, G
      <4> QED
        BY <3>1, <4>1
    <3> QED
      BY <3>2
  <2>4. m \in Nat
    BY <1>2
  <2> QED
    BY <2>3, <2>4
<1> HIDE DEF S
<1>3. n \in S
  BY <1>1, <1>2, IntervalInduction
<1> QED
  BY <1>3 DEF S, Recursive

----------------------------------------------------------------------------
(* Sequences: a name appended, one taken away by its place, all of a name. *)
LEMMA Appended ==
  ASSUME NEW t \in Texts, NEW x \in Names \cup {Blank}
  PROVE  /\ Append(t, x) \in Texts /\ Len(Append(t, x)) = Len(t) + 1
         /\ ToSet(Append(t, x)) = ToSet(t) \cup {x}
         /\ Distinct(t) /\ x \notin ToSet(t) => Distinct(Append(t, x))
<1> DEFINE u == Append(t, x)
<1>1. /\ u \in Texts /\ Len(u) = Len(t) + 1 /\ u[Len(t) + 1] = x
      /\ \A i \in 1 .. Len(t) : u[i] = t[i]
  BY AppendProperties DEF Texts
<1>2. Len(t) \in Nat /\ DOMAIN t = 1 .. Len(t) /\ DOMAIN u = 1 .. Len(u)
  BY <1>1, LenProperties DEF Texts
<1> HIDE DEF u
<1>3. ToSet(u) = ToSet(t) \cup {x}
  <2>1. \A i \in DOMAIN u : i \in DOMAIN t \/ i = Len(t) + 1
    BY <1>1, <1>2
  <2>2. \A i \in DOMAIN t : i \in DOMAIN u
    BY <1>1, <1>2
  <2>3. Len(t) + 1 \in DOMAIN u
    BY <1>1, <1>2
  <2>4. \A i \in DOMAIN t : u[i] = t[i]
    BY <1>1, <1>2
  <2> QED
    BY <1>1, <2>1, <2>2, <2>3, <2>4 DEF ToSet
<1>4. ASSUME Distinct(t), x \notin ToSet(t) PROVE Distinct(u)
  <2>1. \A i \in 1 .. Len(t) : t[i] # x
    BY <1>2, <1>4 DEF ToSet
  <2> QED
    BY <1>1, <1>2, <1>4, <2>1 DEF Distinct
<1> QED
  BY <1>1, <1>3, <1>4 DEF u

LEMMA RemovedAt ==
  ASSUME NEW t \in Texts, NEW i \in 1 .. Len(t)
  PROVE  /\ RemoveAt(t, i) \in Texts /\ Len(RemoveAt(t, i)) = Len(t) - 1
         /\ ToSet(RemoveAt(t, i)) \subseteq ToSet(t)
         /\ ToSet(t) \subseteq ToSet(RemoveAt(t, i)) \cup {t[i]}
         /\ Distinct(t) => Distinct(RemoveAt(t, i))
<1> DEFINE a == SubSeq(t, 1, i - 1)
           b == SubSeq(t, i + 1, Len(t))
           u == a \o b
<1>1. Len(t) \in Nat /\ DOMAIN t = 1 .. Len(t) /\ \A k \in 1 .. Len(t) : t[k] \in Names \cup {Blank}
  BY LenProperties, ElementOfSeq DEF Texts
<1>2. a \in Texts /\ Len(a) = i - 1 /\ \A k \in 1 .. i - 1 : a[k] = t[k]
  <2>1. 1 \in Int /\ i - 1 \in Int /\ \A k \in 1 .. i - 1 : t[k] \in Names \cup {Blank}
    BY <1>1
  <2>2. /\ a \in Seq(Names \cup {Blank})
        /\ Len(a) = IF 1 <= i - 1 THEN i - 1 - 1 + 1 ELSE 0
        /\ \A k \in 1 .. i - 1 - 1 + 1 : a[k] = t[1 + k - 1]
    BY <2>1, SubSeqProperties
  <2> HIDE DEF a
  <2> QED
    BY <1>1, <2>2 DEF Texts
<1>3. b \in Texts /\ Len(b) = Len(t) - i /\ \A k \in 1 .. Len(t) - i : b[k] = t[i + k]
  <2>1. i + 1 \in Int /\ Len(t) \in Int /\ \A k \in i + 1 .. Len(t) : t[k] \in Names \cup {Blank}
    BY <1>1
  <2>2. /\ b \in Seq(Names \cup {Blank})
        /\ Len(b) = IF i + 1 <= Len(t) THEN Len(t) - (i + 1) + 1 ELSE 0
        /\ \A k \in 1 .. Len(t) - (i + 1) + 1 : b[k] = t[i + 1 + k - 1]
    BY <2>1, SubSeqProperties
  <2> HIDE DEF b
  <2>3. Len(b) = Len(t) - i /\ Len(t) - (i + 1) + 1 = Len(t) - i
    <3>1. Len(t) \in Nat /\ i \in Nat /\ 1 <= i /\ i <= Len(t)
      BY <1>1
    <3>2. Len(b) = IF i + 1 <= Len(t) THEN Len(t) - (i + 1) + 1 ELSE 0
      BY <2>2
    <3> QED
      BY <3>1, <3>2, SMTT(30)
  <2>4. ASSUME NEW k \in 1 .. Len(t) - i PROVE b[k] = t[i + k]
    <3>1. i + 1 + k - 1 = i + k
      OBVIOUS
    <3> QED
      BY <2>2, <2>3, <3>1
  <2> QED
    BY <2>2, <2>3, <2>4 DEF Texts
<1>4. /\ u \in Texts /\ Len(u) = Len(a) + Len(b)
      /\ \A k \in 1 .. Len(a) + Len(b) : u[k] = IF k <= Len(a) THEN a[k] ELSE b[k - Len(a)]
  <2> HIDE DEF a, b
  <2> QED
    BY <1>2, <1>3, ConcatProperties DEF Texts
<1> HIDE DEF u, a, b
<1>5. Len(u) = Len(t) - 1 /\ \A k \in 1 .. Len(u) : u[k] = IF k < i THEN t[k] ELSE t[k + 1]
  BY <1>1, <1>2, <1>3, <1>4
<1>6. DOMAIN u = 1 .. Len(u)
  BY <1>4, LenProperties DEF Texts
<1>7. ToSet(u) \subseteq ToSet(t)
  <2>1. \A k \in DOMAIN u : k \in DOMAIN t /\ k + 1 \in DOMAIN t
    BY <1>1, <1>5, <1>6
  <2> QED
    BY <1>5, <1>6, <2>1 DEF ToSet
<1>8. ToSet(t) \subseteq ToSet(u) \cup {t[i]}
  <2>1. ASSUME NEW k \in DOMAIN t, k # i PROVE t[k] \in ToSet(u)
    <3>1. CASE k < i
      BY <1>1, <1>5, <1>6, <2>1, <3>1 DEF ToSet
    <3>2. CASE k > i
      <4>1. k - 1 \in DOMAIN u /\ u[k - 1] = t[k]
        BY <1>1, <1>5, <1>6, <3>2
      <4> QED
        BY <4>1 DEF ToSet
    <3> QED
      BY <1>1, <2>1, <3>1, <3>2
  <2> QED
    BY <2>1 DEF ToSet
<1>9. Distinct(t) => Distinct(u)
  <2> SUFFICES ASSUME Distinct(t), NEW j \in 1 .. Len(u), NEW k \in 1 .. Len(u), u[j] = u[k] PROVE j = k
    BY DEF Distinct
  <2> DEFINE p(m) == IF m < i THEN m ELSE m + 1
  <2>1. p(j) \in 1 .. Len(t) /\ p(k) \in 1 .. Len(t) /\ t[p(j)] = t[p(k)]
    BY <1>1, <1>5
  <2>2. p(j) = p(k)
    BY <2>1 DEF Distinct
  <2> QED
    BY <2>2
<1> QED
  BY <1>4, <1>5, <1>7, <1>8, <1>9 DEF RemoveAt, u, a, b

(* The copy of the entries but x, one after the other.                     *)
LEMMA WithoutIs ==
  ASSUME NEW h, NEW l, NEW x, Entries(h, l) \in Texts
  PROVE  LET t == Entries(h, l)
             u == Without(h, l, x)
         IN  /\ u \in Texts /\ Len(u) <= Len(t)
             /\ ToSet(u) = ToSet(t) \ {x}
             /\ x \in ToSet(t) => Len(u) <= Len(t) - 1
             /\ Distinct(t) => Distinct(u)
             /\ Distinct(t) => Len(u) >= Len(t) - 1
<1> DEFINE t == Entries(h, l)
           n == Len(t)
           body(i, k) == IF i = 0 THEN <<>> ELSE IF t[i] = x THEN k[i - 1] ELSE Append(k[i - 1], t[i])
           Kept(k) == k = [i \in 0 .. n |-> body(i, k)]
<1>1. t \in Texts /\ n \in Nat /\ DOMAIN t = 1 .. n /\ \A i \in 1 .. n : t[i] \in Names \cup {Blank}
  BY LenProperties, ElementOfSeq DEF Texts
<1> HIDE DEF t
<1> DEFINE
  U(i, u) == /\ u \in Texts /\ Len(u) <= i
             /\ ToSet(u) = {t[j] : j \in 1 .. i} \ {x}
             /\ (\E j \in 1 .. i : t[j] = x) => Len(u) <= i - 1
             /\ Distinct(t) => Distinct(u)
             /\ Distinct(t) => Len(u) >= i - (IF \E j \in 1 .. i : t[j] = x THEN 1 ELSE 0)
<1>2. ASSUME NEW i \in 1 .. n, NEW u, U(i - 1, u)
      PROVE  U(i, IF t[i] = x THEN u ELSE Append(u, t[i]))
  <2>1. {t[j] : j \in 1 .. i} = {t[j] : j \in 1 .. i - 1} \cup {t[i]}
    BY <1>1
  <2>2. Len(u) \in Nat
    BY <1>2, LenProperties DEF Texts
  <2>3. Distinct(t) => \A j \in 1 .. i - 1 : t[j] # t[i]
    BY <1>1 DEF Distinct
  <2>4. CASE t[i] = x
    <3>1. Distinct(t) => Len(u) >= i - 1
      BY <1>2, <2>3, <2>4
    <3> QED
      BY <1>2, <2>1, <2>2, <2>4, <3>1
  <2>5. CASE t[i] # x
    <3>1. /\ Append(u, t[i]) \in Texts /\ Len(Append(u, t[i])) = Len(u) + 1
          /\ ToSet(Append(u, t[i])) = ToSet(u) \cup {t[i]}
          /\ Distinct(u) /\ t[i] \notin ToSet(u) => Distinct(Append(u, t[i]))
      BY <1>1, <1>2, Appended
    <3>2. Distinct(t) => t[i] \notin ToSet(u)
      BY <1>2, <2>3
    <3>3. (\E j \in 1 .. i : t[j] = x) <=> \E j \in 1 .. i - 1 : t[j] = x
      BY <2>5
    <3> QED
      BY <1>2, <2>1, <2>2, <2>5, <3>1, <3>2, <3>3
  <2> QED
    BY <2>4, <2>5
<1>3. U(0, <<>>)
  BY EmptySeq DEF Texts, ToSet, Distinct
<1>4. \E k : Kept(k)
  <2> DEFINE step == [p \in (1 .. n) \X Texts |-> IF t[p[1]] = x THEN p[2] ELSE Append(p[2], t[p[1]])]
  <2>1. PICK k : k = [i \in 0 .. n |-> IF i = 0 THEN <<>> ELSE step[<<i, k[i - 1]>>]]
    <3> HIDE DEF step, n
    <3>1. \E k : Recursive(k, n, <<>>, step)
      BY <1>1, RecursionExists
    <3> QED
      BY <3>1 DEF Recursive
  <2> DEFINE S == {i \in 0 .. n : k[i] \in Texts}
  <2>2. ASSUME NEW i \in 1 .. n, k[i - 1] \in Texts
        PROVE  k[i] = (IF t[i] = x THEN k[i - 1] ELSE Append(k[i - 1], t[i])) /\ k[i] \in Texts
    <3>1. k[i] = step[<<i, k[i - 1]>>]
      <4> HIDE DEF step
      <4> QED
        BY <1>1, <2>1
    <3>2. <<i, k[i - 1]>> \in (1 .. n) \X Texts
      BY <2>2
    <3>3. k[i] = (IF t[i] = x THEN k[i - 1] ELSE Append(k[i - 1], t[i]))
      BY <3>1, <3>2
    <3>4. Append(k[i - 1], t[i]) \in Texts
      BY <1>1, <2>2, Appended
    <3> QED
      BY <2>2, <3>3, <3>4
  <2>3. k[0] = <<>> /\ <<>> \in Texts
    <3> HIDE DEF step
    <3> QED
      BY <1>1, <2>1, EmptySeq DEF Texts
  <2>4. \A i \in 0 .. n : i \in S
    <3>1. 0 \in S
      BY <1>1, <2>3
    <3>2. \A i \in 1 .. n : i - 1 \in S => i \in S
      BY <1>1, <2>2
    <3> HIDE DEF S
    <3> QED
      BY <1>1, <3>1, <3>2, IntervalInduction
  <2>5. \A i \in 0 .. n : k[i] = body(i, k)
    BY <1>1, <2>2, <2>3, <2>4
  <2>6. k = [i \in 0 .. n |-> body(i, k)]
    <3> DEFINE G == [i \in 0 .. n |-> body(i, k)]
    <3>1. \A i \in 0 .. n : G[i] = k[i]
      BY <2>5
    <3>2. DOMAIN G = 0 .. n /\ G = [i \in DOMAIN G |-> G[i]]
      OBVIOUS
    <3>3. DOMAIN k = 0 .. n /\ k = [i \in 0 .. n |-> k[i]]
      <4> HIDE DEF step
      <4> QED
        BY <2>1
    <3> HIDE DEF G
    <3> QED
      BY <3>1, <3>2, <3>3 DEF G
  <2> QED
    BY <2>6
<1> DEFINE k == CHOOSE k : Kept(k)
<1>5. Kept(k)
  BY <1>4
<1>6. Without(h, l, x) = k[n]
  BY DEF Without, t
<1> HIDE DEF k
<1>7. \A i \in 0 .. n : U(i, k[i])
  <2> DEFINE S == {i \in 0 .. n : U(i, k[i])}
  <2>1. \A i \in 0 .. n : k[i] = body(i, k)
    BY <1>5
  <2>2. k[0] = <<>> /\ \A i \in 1 .. n : k[i] = IF t[i] = x THEN k[i - 1] ELSE Append(k[i - 1], t[i])
    BY <1>1, <2>1
  <2> HIDE DEF U, n
  <2>3. 0 \in S
    BY <1>1, <1>3, <2>2
  <2>4. ASSUME NEW i \in 1 .. n, i - 1 \in S PROVE i \in S
    <3>1. U(i - 1, k[i - 1])
      BY <2>4
    <3>2. U(i, k[i])
      BY <1>2, <2>2, <3>1
    <3> QED
      BY <1>1, <3>2
  <2>5. \A i \in 0 .. n : i \in S
    <3> HIDE DEF S
    <3> QED
      BY <1>1, <2>3, <2>4, IntervalInduction
  <2> QED
    BY <2>5
<1>8. U(n, k[n])
  <2> HIDE DEF U, n
  <2> QED
    BY <1>1, <1>7
<1>9. ToSet(t) = {t[j] : j \in 1 .. n}
  BY <1>1 DEF ToSet
<1>10. (x \in ToSet(t)) <=> \E j \in 1 .. n : t[j] = x
  BY <1>9
<1>11. /\ k[n] \in Texts /\ Len(k[n]) <= Len(t)
       /\ ToSet(k[n]) = ToSet(t) \ {x}
       /\ x \in ToSet(t) => Len(k[n]) <= Len(t) - 1
       /\ Distinct(t) => Distinct(k[n])
       /\ Distinct(t) => Len(k[n]) >= Len(t) - 1
  <2>1. Len(k[n]) \in Nat
    BY <1>8, LenProperties DEF Texts
  <2>2. Distinct(t) => Len(k[n]) >= n - 1
    <3>1. CASE \E j \in 1 .. n : t[j] = x
      BY <1>8, <3>1
    <3>2. CASE ~ \E j \in 1 .. n : t[j] = x
      BY <1>1, <1>8, <2>1, <3>2
    <3> QED
      BY <3>1, <3>2
  <2> QED
    BY <1>8, <1>9, <1>10, <2>2
<1> HIDE DEF n
<1> QED
  BY <1>6, <1>11 DEF t

----------------------------------------------------------------------------
(* Segments.  T is the set of texts a segment may hold.                    *)
Lawful(T, h, l) == T \subseteq Texts /\ <<>> \in T /\ h \in Heaps(T) /\ Valid(h, l)

LEMMA EmptyText == <<>> \in Texts /\ <<>> \in DistinctTexts /\ Len(<<>>) = 0 /\ ToSet(<<>>) = {}
BY EmptySeq DEF Texts, DistinctTexts, Distinct, ToSet

LEMMA SegmentsAre == Segs \subseteq Nat /\ None \notin Segs /\ 1 \in Segs /\ Gone \notin Texts /\ None \in Nat
BY SegmentsAssumption DEF Segs, None, Texts

LEMMA EntriesAre ==
  ASSUME NEW T, NEW h, NEW l, Lawful(T, h, l)
  PROVE  /\ Entries(h, l) \in T /\ Entries(h, l) \in Texts /\ Len(Entries(h, l)) = l.n /\ l.n \in Nat
         /\ l.n > 0 => l.shm \in Segs /\ Entries(h, l) = h[l.shm] /\ h[l.shm] \in T
<1>1. CASE l.n = 0
  BY <1>1, EmptyText DEF Lawful, Entries, Valid, ListRecords
<1>2. CASE l.n > 0
  <2>1. l.shm \in Segs /\ h[l.shm] # Gone /\ Len(h[l.shm]) = l.n
    BY <1>2, SegmentsAre DEF Lawful, Valid, ListRecords
  <2>2. h[l.shm] \in T
    BY <2>1 DEF Lawful, Heaps
  <2> QED
    BY <1>2, <2>1, <2>2 DEF Lawful, Entries, Valid, ListRecords
<1>3. l.n \in Nat
  BY DEF Lawful, Valid, ListRecords
<1> QED
  BY <1>1, <1>2, <1>3

LEMMA NewIsFree ==
  ASSUME NEW h, ~ NoneLeft(h)
  PROVE  NewSegment(h) \in Segs /\ h[NewSegment(h)] = Gone
BY DEF NoneLeft, NewSegment

LEMMA EmptyIsLawful == ASSUME NEW T, NEW h, NEW l, Lawful(T, h, l) PROVE Lawful(T, h, EmptyList)
<1>1. EmptyList \in ListRecords
  BY DEF EmptyList, ListRecords, None
<1> QED
  BY <1>1 DEF Lawful, Valid, EmptyList

(* A list may leave its segment behind.                                    *)
LEMMA GoodFromEmpty ==
  ASSUME NEW T, NEW h, NEW l, NEW r, Lawful(T, h, l), Good(T, h, EmptyList, r)
  PROVE  Good(T, h, l, r)
BY SegmentsAre DEF Good, Aside, EmptyList

LEMMA UnchangedIsGood ==
  ASSUME NEW T, NEW h, NEW l, NEW ok \in BOOLEAN, Lawful(T, h, l)
  PROVE  Good(T, h, l, Unchanged(h, l, ok)) /\ OneEntry(h, l, Unchanged(h, l, ok))
BY NamesAssumption DEF Lawful, Good, Aside, Unchanged, Result, OneEntry

LEMMA ForgottenIsGood ==
  ASSUME NEW T, NEW h, NEW l, NEW ok \in BOOLEAN, Lawful(T, h, l)
  PROVE  Good(T, h, l, Forgotten(h, ok))
<1>1. Lawful(T, h, EmptyList)
  BY EmptyIsLawful
<1> QED
  BY <1>1, SegmentsAre DEF Lawful, Good, Aside, Forgotten, Result, EmptyList

LEMMA RemovedIsAside ==
  ASSUME NEW T, NEW h, NEW s \in Segs \cup {None}, h \in Heaps(T)
  PROVE  /\ Removed(h, s) \in Heaps(T)
         /\ \A q \in Segs : q # s => Removed(h, s)[q] = h[q]
BY SegmentsAre DEF Removed, Heaps

LEMMA FreedIsGood ==
  ASSUME NEW T, NEW h, NEW l, NEW ok \in BOOLEAN, Lawful(T, h, l)
  PROVE  Good(T, h, l, Freed(h, l, ok))
<1>1. l.shm \in Segs \cup {None} /\ h \in Heaps(T)
  BY DEF Lawful, Valid, ListRecords
<1>2. Removed(h, l.shm) \in Heaps(T) /\ \A q \in Segs : q # l.shm => Removed(h, l.shm)[q] = h[q]
  BY <1>1, RemovedIsAside
<1>3. Valid(Removed(h, l.shm), EmptyList)
  BY DEF Valid, EmptyList, ListRecords, None
<1> QED
  BY <1>2, <1>3, SegmentsAre DEF Good, Aside, Freed, Result, EmptyList

LEMMA LostIsGood ==
  ASSUME NEW T, NEW h, NEW l, Lawful(T, h, l), ~ NoneLeft(h)
  PROVE  Good(T, h, l, Lost(h, l)) /\ OneEntry(h, l, Lost(h, l))
<1> DEFINE s == NewSegment(h)
           g == [h EXCEPT ![s] = <<>>]
<1>1. s \in Segs /\ h[s] = Gone
  BY NewIsFree
<1>2. g \in Heaps(T) /\ \A q \in Segs : q # s => g[q] = h[q]
  BY <1>1 DEF Lawful, Heaps
<1>3. l.n > 0 => l.shm \in Segs /\ l.shm # s
  BY <1>1, EntriesAre, SegmentsAre DEF Lawful, Valid
<1> HIDE DEF g, s
<1>4. Valid(g, l)
  BY <1>2, <1>3 DEF Lawful, Valid
<1>5. Entries(g, l) = Entries(h, l)
  <2>1. CASE l.n = 0
    BY <2>1 DEF Entries
  <2>2. CASE l.n # 0
    BY <1>2, <1>3, <2>2, EntriesAre DEF Entries
  <2> QED
    BY <2>1, <2>2
<1>6. Aside(h, l, Lost(h, l))
  <2>1. Lost(h, l) = [list |-> l, heap |-> g, ok |-> FALSE]
    BY DEF Lost, Result, g, s
  <2> QED
    BY <1>1, <1>2, <2>1 DEF Aside
<1> QED
  BY <1>2, <1>4, <1>5, <1>6, NamesAssumption DEF Good, OneEntry, Lost, Result, Listed, g, s

LEMMA ReplacedIsGood ==
  ASSUME NEW T, NEW h, NEW l, NEW t \in T, Lawful(T, h, l), ~ NoneLeft(h), Len(t) > 0
  PROVE  Good(T, h, l, Replaced(h, l, t)) /\ Entries(Replaced(h, l, t).heap, Replaced(h, l, t).list) = t
<1> DEFINE s == NewSegment(h)
           g == [h EXCEPT ![s] = t]
           k == [n |-> Len(t), shm |-> s]
<1>1. s \in Segs /\ h[s] = Gone
  BY NewIsFree
<1>2. g \in Heaps(T) /\ g[s] = t /\ \A q \in Segs : q # s => g[q] = h[q]
  BY <1>1 DEF Lawful, Heaps
<1>3. l.n > 0 => l.shm \in Segs /\ l.shm # s
  BY <1>1, EntriesAre, SegmentsAre DEF Lawful, Valid
<1>4. l.shm \in Segs \cup {None} /\ l.shm # s
  BY <1>1, <1>3, SegmentsAre DEF Lawful, Valid, ListRecords
<1>5. t \in Texts /\ Len(t) \in Nat
  BY LenProperties DEF Lawful, Texts
<1> HIDE DEF g, s
<1> DEFINE g2 == Removed(g, l.shm)
<1>6. g2 \in Heaps(T) /\ \A q \in Segs : q # l.shm => g2[q] = g[q]
  BY <1>2, <1>4, RemovedIsAside
<1>7. g2[s] = t
  BY <1>1, <1>2, <1>4, <1>6
<1>8. Replaced(h, l, t) = [list |-> k, heap |-> g2, ok |-> TRUE]
  BY DEF Replaced, Result, g, s
<1> HIDE DEF g2
<1>9. Valid(g2, k)
  BY <1>1, <1>5, <1>7, SegmentsAre DEF Valid, ListRecords
<1>10. Aside(h, l, Replaced(h, l, t))
  BY <1>1, <1>2, <1>6, <1>8 DEF Aside
<1> QED
  BY <1>5, <1>6, <1>7, <1>8, <1>9, <1>10 DEF Good, Entries, Result

----------------------------------------------------------------------------
(* The operators of the lists.                                             *)
LEMMA ListedIsSet ==
  ASSUME NEW h, NEW l, NEW r, NEW t, NEW x \in Names \cup {Blank},
         Entries(r.heap, r.list) = t,
         \A y \in Names \ {x} : y \in ToSet(t) <=> y \in ToSet(Entries(h, l))
  PROVE  OneEntry(h, l, r)
BY DEF OneEntry, Listed

LEMMA AppendedIsGood ==
  ASSUME NEW T \in {Texts, DistinctTexts}, NEW h, NEW l, NEW x \in Names \cup {Blank},
         Lawful(T, h, l), ~ NoneLeft(h), x \notin Listed(h, l) \/ T = Texts,
         NEW r, r = Replaced(h, l, Append(Entries(h, l), x))
  PROVE  Good(T, h, l, r) /\ OneEntry(h, l, r)
<1> DEFINE t == Append(Entries(h, l), x)
<1>1. Entries(h, l) \in T /\ Entries(h, l) \in Texts /\ Len(Entries(h, l)) \in Nat
  BY EntriesAre
<1>2. /\ t \in Texts /\ Len(t) = Len(Entries(h, l)) + 1
      /\ ToSet(t) = ToSet(Entries(h, l)) \cup {x}
      /\ Distinct(Entries(h, l)) /\ x \notin ToSet(Entries(h, l)) => Distinct(t)
  BY <1>1, Appended
<1> HIDE DEF t
<1>3. t \in T
  BY <1>1, <1>2 DEF DistinctTexts, Listed
<1>4. Good(T, h, l, r) /\ Entries(r.heap, r.list) = t
  <2>1. r = Replaced(h, l, t) /\ Len(t) > 0
    BY <1>1, <1>2 DEF t
  <2> QED
    BY <1>3, <2>1, ReplacedIsGood
<1>5. OneEntry(h, l, r)
  BY <1>2, <1>4, ListedIsSet
<1> QED
  BY <1>4, <1>5

LEMMA BlockHostIsGood ==
  ASSUME NEW h, NEW l, NEW x \in Names, NEW f, Lawful(DistinctTexts, h, l),
         NEW r, r = job_block_host_add(h, l, x, f)
  PROVE  Good(DistinctTexts, h, l, r) /\ OneEntry(h, l, r)
<1>1. CASE r \in {Unchanged(h, l, TRUE), Unchanged(h, l, FALSE)}
  BY <1>1, UnchangedIsGood
<1>2. CASE r = Lost(h, l) /\ ~ NoneLeft(h)
  BY <1>2, LostIsGood
<1>3. CASE r = Replaced(h, l, Append(Entries(h, l), x)) /\ ~ NoneLeft(h) /\ x \notin Listed(h, l)
  BY <1>3, AppendedIsGood
<1>4. \/ r \in {Unchanged(h, l, TRUE), Unchanged(h, l, FALSE)}
      \/ r = Lost(h, l) /\ ~ NoneLeft(h)
      \/ r = Replaced(h, l, Append(Entries(h, l), x)) /\ ~ NoneLeft(h) /\ x \notin Listed(h, l)
  BY DEF job_block_host_add, GetFails
<1> QED
  BY <1>1, <1>2, <1>3, <1>4

LEMMA FreedAlone ==
  ASSUME NEW T, NEW h, NEW l, NEW x, NEW ok \in BOOLEAN, Lawful(T, h, l), l.n = 1, x \in Listed(h, l)
  PROVE  OneEntry(h, l, Freed(h, l, ok))
<1> DEFINE t == Entries(h, l)
<1>1. t \in Texts /\ Len(t) = 1
  BY EntriesAre
<1>2. DOMAIN t = {1} /\ t[1] \in Names \cup {Blank}
  <2> HIDE DEF t
  <2>1. DOMAIN t = 1 .. Len(t) /\ t \in [1 .. Len(t) -> Names \cup {Blank}]
    BY <1>1, LenProperties DEF Texts
  <2> QED
    BY <1>1, <2>1
<1>3. ToSet(t) = {t[1]}
  BY <1>2 DEF ToSet
<1>4. x = t[1]
  BY <1>3 DEF Listed
<1>5. Entries(Freed(h, l, ok).heap, Freed(h, l, ok).list) = <<>>
  BY DEF Freed, Result, Entries, EmptyList
<1> HIDE DEF t
<1>6. \A y \in Names \ {x} : y \in ToSet(<<>>) <=> y \in ToSet(t)
  BY <1>3, <1>4, EmptyText
<1> QED
  BY <1>2, <1>4, <1>5, <1>6, ListedIsSet DEF t

LEMMA UnblockAtIsGood ==
  ASSUME NEW h, NEW l, NEW i \in 1 .. l.n, NEW f, Lawful(DistinctTexts, h, l),
         NEW r, r = job_delete_blocked_host(h, l, i, f)
  PROVE  Good(DistinctTexts, h, l, r) /\ OneEntry(h, l, r)
<1> DEFINE t == Entries(h, l)
           u == RemoveAt(t, i)
<1>1. t \in DistinctTexts /\ t \in Texts /\ Len(t) = l.n /\ l.n \in Nat
  BY EntriesAre
<1>2. CASE r = Unchanged(h, l, FALSE)
  BY <1>2, UnchangedIsGood
<1>3. CASE r = Lost(h, l) /\ ~ NoneLeft(h)
  BY <1>3, LostIsGood
<1>4. CASE r = Freed(h, l, TRUE) /\ l.n = 1
  <2>1. t[i] \in Listed(h, l)
    BY <1>1, LenProperties DEF Listed, ToSet, Texts
  <2> QED
    BY <1>4, <2>1, FreedIsGood, FreedAlone
<1>5. CASE r = Replaced(h, l, u) /\ ~ NoneLeft(h) /\ l.n # 1
  <2>1. /\ u \in Texts /\ Len(u) = Len(t) - 1
        /\ ToSet(u) \subseteq ToSet(t) /\ ToSet(t) \subseteq ToSet(u) \cup {t[i]}
        /\ Distinct(t) => Distinct(u)
    <3> HIDE DEF t
    <3> QED
      BY <1>1, RemovedAt
  <2>2. t[i] \in Names \cup {Blank}
    BY <1>1, ElementOfSeq DEF Texts
  <2> HIDE DEF u, t
  <2>3. u \in DistinctTexts /\ Len(u) > 0
    BY <1>1, <1>5, <2>1 DEF DistinctTexts
  <2>4. Good(DistinctTexts, h, l, r) /\ Entries(r.heap, r.list) = u
    BY <1>5, <2>3, ReplacedIsGood
  <2>5. OneEntry(h, l, r)
    BY <2>1, <2>2, <2>4, ListedIsSet DEF t
  <2> QED
    BY <2>4, <2>5
<1>6. \/ r = Unchanged(h, l, FALSE)
      \/ r = Lost(h, l) /\ ~ NoneLeft(h)
      \/ r = Freed(h, l, TRUE) /\ l.n = 1
      \/ r = Replaced(h, l, u) /\ ~ NoneLeft(h) /\ l.n # 1
  BY DEF job_delete_blocked_host, GetFails
<1> QED
  BY <1>2, <1>3, <1>4, <1>5, <1>6

(* All entries of a name are left out; another entry keeps the list.       *)
LEMMA WithoutIsGood ==
  ASSUME NEW h, NEW l, NEW x \in Names \cup {Blank},
         Lawful(DistinctTexts, h, l), ~ NoneLeft(h), l.n # 1, x \in Listed(h, l),
         NEW r, r = Replaced(h, l, Without(h, l, x))
  PROVE  Good(DistinctTexts, h, l, r) /\ OneEntry(h, l, r)
<1> DEFINE t == Entries(h, l)
           u == Without(h, l, x)
<1>1. t \in DistinctTexts /\ t \in Texts /\ Len(t) = l.n /\ l.n \in Nat
  BY EntriesAre
<1>2. /\ u \in Texts /\ ToSet(u) = ToSet(t) \ {x}
      /\ Distinct(t) => Distinct(u)
      /\ Distinct(t) => Len(u) >= Len(t) - 1
  BY <1>1, WithoutIs
<1>3. l.n # 0
  BY EmptyText DEF Listed, Entries
<1> HIDE DEF t, u
<1>4. Len(u) \in Nat
  BY <1>2, LenProperties DEF Texts
<1>5. u \in DistinctTexts /\ Len(u) > 0
  BY <1>1, <1>2, <1>3, <1>4 DEF DistinctTexts
<1>6. Good(DistinctTexts, h, l, r) /\ Entries(r.heap, r.list) = u
  BY <1>5, ReplacedIsGood DEF u
<1>7. OneEntry(h, l, r)
  BY <1>2, <1>6, ListedIsSet DEF t
<1> QED
  BY <1>6, <1>7

LEMMA UnblockNameIsGood ==
  ASSUME NEW h, NEW l, NEW x \in Names, NEW f, Lawful(DistinctTexts, h, l),
         NEW r, r = job_block_host_remove_by_name(h, l, x, f)
  PROVE  Good(DistinctTexts, h, l, r) /\ OneEntry(h, l, r)
<1>1. CASE r \in {Unchanged(h, l, TRUE), Unchanged(h, l, FALSE)}
  BY <1>1, UnchangedIsGood
<1>2. CASE r = Replaced(h, l, Without(h, l, x)) /\ ~ NoneLeft(h) /\ l.n # 1 /\ x \in Listed(h, l)
  BY <1>2, WithoutIsGood
<1>3. \/ r \in {Unchanged(h, l, TRUE), Unchanged(h, l, FALSE)}
      \/ r = Replaced(h, l, Without(h, l, x)) /\ ~ NoneLeft(h) /\ l.n # 1 /\ x \in Listed(h, l)
  BY DEF job_block_host_remove_by_name, GetFails
<1> QED
  BY <1>1, <1>2, <1>3

LEMMA AddVariableIsGood ==
  ASSUME NEW h, NEW l, NEW x \in Names \cup {Blank}, NEW f, Lawful(Texts, h, l),
         NEW r, r = envvars_variable_add(h, l, x, f)
  PROVE  Good(Texts, h, l, r) /\ (f = "no" /\ ~ NoneLeft(h) => OneEntry(h, l, r))
<1>1. CASE r \in {Unchanged(h, l, TRUE), Unchanged(h, l, FALSE)}
  BY <1>1, UnchangedIsGood
<1>2. CASE r = Freed(h, l, FALSE) /\ (f # "no" \/ NoneLeft(h))
  BY <1>2, FreedIsGood
<1>3. CASE r = Replaced(h, l, Append(Entries(h, l), x)) /\ ~ NoneLeft(h)
  BY <1>3, AppendedIsGood
<1>4. \/ r \in {Unchanged(h, l, TRUE), Unchanged(h, l, FALSE)}
      \/ r = Freed(h, l, FALSE) /\ (f # "no" \/ NoneLeft(h))
      \/ r = Replaced(h, l, Append(Entries(h, l), x)) /\ ~ NoneLeft(h)
  BY DEF envvars_variable_add, GetFails
<1> QED
  BY <1>1, <1>2, <1>3, <1>4

LEMMA DeleteVariableIsGood ==
  ASSUME NEW h, NEW l, NEW x \in Names, NEW f, Lawful(Texts, h, l),
         NEW r, r = envvars_variable_delete(h, l, x, f)
  PROVE  Good(Texts, h, l, r) /\ OneEntry(h, l, r)
<1> DEFINE t == Entries(h, l)
           u == Without(h, l, x)
           m == l.n - 1 - Len(u)
           b == [i \in 1 .. m |-> Blank]
<1>1. t \in Texts /\ Len(t) = l.n /\ l.n \in Nat
  BY EntriesAre
<1>2. CASE r \in {Unchanged(h, l, TRUE), Unchanged(h, l, FALSE)}
  BY <1>2, UnchangedIsGood
<1>3. CASE r = Lost(h, l) /\ ~ NoneLeft(h)
  BY <1>3, LostIsGood
<1>4. CASE r = Freed(h, l, TRUE) /\ l.n = 1 /\ x \in Listed(h, l)
  BY <1>4, FreedIsGood, FreedAlone
<1>5. CASE r = Replaced(h, l, u \o b) /\ ~ NoneLeft(h) /\ l.n # 1 /\ x \in Listed(h, l)
  <2>1. /\ u \in Texts /\ ToSet(u) = ToSet(t) \ {x}
        /\ x \in ToSet(t) => Len(u) <= Len(t) - 1
    BY <1>1, WithoutIs
  <2>2. l.n # 0
    BY <1>5, EmptyText DEF Listed, Entries
  <2> HIDE DEF t, u
  <2>3. Len(u) \in Nat /\ Len(u) <= l.n - 1 /\ DOMAIN u = 1 .. Len(u)
    BY <1>1, <1>5, <2>1, LenProperties DEF Texts, Listed, t
  <2>4. m \in Nat
    BY <1>1, <2>3
  <2> HIDE DEF m
  <2>5. b \in Texts /\ Len(b) = m /\ \A i \in 1 .. m : b[i] = Blank
    <3>1. b \in [1 .. m -> Names \cup {Blank}]
      OBVIOUS
    <3>2. b \in Texts
      BY <2>4, <3>1, SeqDef DEF Texts
    <3>3. DOMAIN b = 1 .. Len(b) /\ Len(b) \in Nat
      BY <3>2, LenProperties DEF Texts
    <3> QED
      BY <2>4, <3>2, <3>3
  <2> HIDE DEF b
  <2> DEFINE v == u \o b
  <2>6. /\ v \in Texts /\ Len(v) = Len(u) + m
        /\ \A i \in 1 .. Len(u) + m : v[i] = IF i <= Len(u) THEN u[i] ELSE b[i - Len(u)]
    BY <2>1, <2>5, ConcatProperties DEF Texts
  <2>7. DOMAIN v = 1 .. Len(u) + m
    BY <2>6, LenProperties DEF Texts
  <2> HIDE DEF v
  <2>8. Len(v) > 0
    BY <1>1, <1>5, <2>2, <2>3, <2>6 DEF m
  <2>9. \A y \in Names : y \in ToSet(v) <=> y \in ToSet(u)
    <3>1. ASSUME NEW y \in Names, NEW i \in DOMAIN v, v[i] = y PROVE i \in DOMAIN u /\ u[i] = y
      <4>1. CASE i <= Len(u)
        BY <2>3, <2>6, <2>7, <3>1, <4>1
      <4>2. CASE i > Len(u)
        <5>1. v[i] = b[i - Len(u)] /\ i - Len(u) \in 1 .. m
          BY <2>3, <2>4, <2>6, <2>7, <4>2
        <5> QED
          BY <2>5, <3>1, <5>1, NamesAssumption
      <4> QED
        BY <2>3, <2>4, <2>7, <4>1, <4>2
    <3>2. \A i \in DOMAIN u : i \in DOMAIN v /\ v[i] = u[i]
      BY <2>3, <2>4, <2>6, <2>7
    <3> QED
      BY <3>1, <3>2 DEF ToSet
  <2>10. Good(Texts, h, l, r) /\ Entries(r.heap, r.list) = v
    <3>1. r = Replaced(h, l, v) /\ ~ NoneLeft(h)
      BY <1>5 DEF v
    <3> QED
      BY <2>6, <2>8, <3>1, ReplacedIsGood
  <2>11. OneEntry(h, l, r)
    BY <2>1, <2>9, <2>10, ListedIsSet DEF t
  <2> QED
    BY <2>10, <2>11
<1>6. \/ r \in {Unchanged(h, l, TRUE), Unchanged(h, l, FALSE)}
      \/ r = Lost(h, l) /\ ~ NoneLeft(h)
      \/ r = Freed(h, l, TRUE) /\ l.n = 1 /\ x \in Listed(h, l)
      \/ r = Replaced(h, l, u \o b) /\ ~ NoneLeft(h) /\ l.n # 1 /\ x \in Listed(h, l)
  BY DEF envvars_variable_delete, GetFails
<1> QED
  BY <1>2, <1>3, <1>4, <1>5, <1>6

LEMMA AddPoolIsGood ==
  ASSUME NEW h, NEW l, NEW x \in Names \cup {Blank}, NEW f, Lawful(DistinctTexts, h, l),
         NEW r, r = computer_pool_add(h, l, x, f)
  PROVE  Good(DistinctTexts, h, l, r) /\ (f = "no" => OneEntry(h, l, r))
<1>1. ASSUME NEW k, Lawful(DistinctTexts, h, k), x \notin Listed(h, k), NEW q, q = PoolAppended(h, k, x, f)
      PROVE  Good(DistinctTexts, h, k, q) /\ OneEntry(h, k, q)
  <2>1. \/ q = Unchanged(h, k, FALSE)
        \/ q = Lost(h, k) /\ ~ NoneLeft(h)
        \/ q = Replaced(h, k, Append(Entries(h, k), x)) /\ ~ NoneLeft(h)
    BY <1>1 DEF PoolAppended, GetFails
  <2> QED
    BY <1>1, <2>1, UnchangedIsGood, LostIsGood, AppendedIsGood
<1>2. CASE r = PoolAppended(h, EmptyList, x, f) /\ f # "no"
  <2>1. Lawful(DistinctTexts, h, EmptyList)
    BY EmptyIsLawful
  <2>2. x \notin Listed(h, EmptyList)
    BY EmptyText DEF Listed, Entries, EmptyList
  <2>3. Good(DistinctTexts, h, EmptyList, r)
    BY <1>1, <1>2, <2>1, <2>2
  <2> QED
    BY <1>2, <2>3, GoodFromEmpty
<1>3. CASE r = Unchanged(h, l, TRUE)
  BY <1>3, UnchangedIsGood
<1>4. CASE r = Forgotten(h, FALSE) /\ f # "no"
  BY <1>4, ForgottenIsGood
<1>5. CASE r = PoolAppended(h, l, x, f) /\ x \notin Listed(h, l)
  BY <1>1, <1>5
<1>6. \/ r = PoolAppended(h, EmptyList, x, f) /\ f # "no"
      \/ r = Unchanged(h, l, TRUE)
      \/ r = Forgotten(h, FALSE) /\ f # "no"
      \/ r = PoolAppended(h, l, x, f) /\ x \notin Listed(h, l)
  BY DEF computer_pool_add
<1> QED
  BY <1>2, <1>3, <1>4, <1>5, <1>6

LEMMA RemovePoolIsGood ==
  ASSUME NEW h, NEW l, NEW x \in Names, NEW f, Lawful(DistinctTexts, h, l),
         NEW r, r = computer_pool_remove(h, l, x, f)
  PROVE  Good(DistinctTexts, h, l, r) /\ (f = "no" => OneEntry(h, l, r))
<1>1. CASE r = Unchanged(h, l, FALSE)
  BY <1>1, UnchangedIsGood
<1>2. CASE r = Forgotten(h, FALSE) /\ f # "no"
  BY <1>2, ForgottenIsGood
<1>3. CASE r = Lost(h, l) /\ ~ NoneLeft(h)
  BY <1>3, LostIsGood
<1>4. CASE r = Replaced(h, l, Without(h, l, x)) /\ ~ NoneLeft(h) /\ l.n # 1 /\ x \in Listed(h, l)
  BY <1>4, WithoutIsGood
<1>5. \/ r = Unchanged(h, l, FALSE)
      \/ r = Forgotten(h, FALSE) /\ f # "no"
      \/ r = Lost(h, l) /\ ~ NoneLeft(h)
      \/ r = Replaced(h, l, Without(h, l, x)) /\ ~ NoneLeft(h) /\ l.n # 1 /\ x \in Listed(h, l)
  BY DEF computer_pool_remove, GetFails
<1> QED
  BY <1>1, <1>2, <1>3, <1>4, <1>5

LEMMA GoodIsResult ==
  ASSUME NEW T, NEW h, NEW l, NEW r, Good(T, h, l, r)
  PROVE  r \in [list : ListRecords, heap : Heaps(T), ok : BOOLEAN]
<1>1. r = [list |-> r.list, heap |-> r.heap, ok |-> r.ok]
  BY Zenon DEF Good, Result
<1>2. r.list \in ListRecords /\ r.heap \in Heaps(T) /\ r.ok \in BOOLEAN
  BY DEF Good, Valid
<1> QED
  BY <1>1, <1>2, Zenon

LEMMA RecursionStays ==
  ASSUME NEW n \in Nat, NEW W, NEW base \in W, NEW step, NEW f, Recursive(f, n, base, step),
         \A i \in 1 .. n, w \in W : step[<<i, w>>] \in W
  PROVE  \A i \in 0 .. n : f[i] \in W
<1> DEFINE S == {i \in 0 .. n : f[i] \in W}
<1>1. f[0] = base /\ \A i \in 1 .. n : f[i] = step[<<i, f[i - 1]>>]
  BY DEF Recursive
<1>2. ASSUME NEW i \in 1 .. n, i - 1 \in S PROVE i \in S
  <2>1. f[i - 1] \in W
    BY <1>2
  <2>2. f[i] \in W
    BY <1>1, <2>1
  <2> QED
    BY <2>2
<1>3. 0 \in S
  BY <1>1
<1> HIDE DEF S
<1>4. \A i \in 0 .. n : i \in S
  BY <1>2, <1>3, IntervalInduction
<1> QED
  BY <1>4 DEF S

----------------------------------------------------------------------------
(* Lists that are received, and blocked hosts that are loaded.             *)
LEMMA GoodAfterGood ==
  ASSUME NEW T, NEW h, NEW r, NEW q, Lawful(T, h, EmptyList),
         Good(T, h, EmptyList, r), Good(T, r.heap, r.list, q)
  PROVE  Good(T, h, EmptyList, q)
BY SegmentsAre DEF Good, Aside, EmptyList

LEMMA LawfulAfterGood ==
  ASSUME NEW T, NEW h, NEW l, NEW r, Lawful(T, h, l), Good(T, h, l, r)
  PROVE  Lawful(T, r.heap, r.list)
BY DEF Lawful, Good

LEMMA ReceivedVariablesAreGood ==
  ASSUME NEW h, NEW t \in Texts, NEW f, NEW c, Lawful(Texts, h, EmptyList)
  PROVE  Good(Texts, h, EmptyList, recv_envvars(h, t, f, c))
<1> DEFINE n == Len(t)
           first == Result(EmptyList, h, TRUE)
           next(i, r) == envvars_variable_add(r.heap, r.list, t[i], IF i = c THEN f ELSE "no")
           Adds(k) == k = [i \in 0 .. n |-> IF i = 0 THEN first ELSE next(i, k[i - 1])]
           Whole == {r \in [list : ListRecords, heap : Heaps(Texts), ok : BOOLEAN] : Good(Texts, h, EmptyList, r)}
<1>1. n \in Nat /\ \A i \in 1 .. n : t[i] \in Names \cup {Blank}
  BY LenProperties, ElementOfSeq DEF Texts
<1>2. Good(Texts, h, EmptyList, first)
  BY DEF Good, Lawful, Aside, Result, EmptyList
<1>3. ASSUME NEW i \in 1 .. n, NEW r, Good(Texts, h, EmptyList, r)
      PROVE  Good(Texts, h, EmptyList, next(i, r))
  <2>1. Good(Texts, r.heap, r.list, next(i, r))
    BY <1>1, <1>3, LawfulAfterGood, AddVariableIsGood
  <2> HIDE DEF next
  <2> QED
    BY <1>3, <2>1, GoodAfterGood
<1>4. first \in Whole /\ \A i \in 1 .. n, r \in Whole : next(i, r) \in Whole
  <2> HIDE DEF next, n, first
  <2> QED
    BY <1>2, <1>3, GoodIsResult
<1>5. recv_envvars(h, t, f, c) = (CHOOSE k : Adds(k))[n]
  BY DEF recv_envvars, Built
<1>6. \A r \in Whole : Good(Texts, h, EmptyList, r)
  OBVIOUS
<1> HIDE DEF n, first, next, Whole
<1>7. \E k : Adds(k)
  <2> DEFINE step == [p \in (1 .. n) \X Whole |-> next(p[1], p[2])]
  <2>1. \A i \in 1 .. n, r \in Whole : step[<<i, r>>] = next(i, r)
    OBVIOUS
  <2> HIDE DEF step
  <2>2. PICK k : Recursive(k, n, first, step)
    BY <1>1, RecursionExists
  <2>3. \A i \in 0 .. n : k[i] \in Whole
    BY <1>1, <1>4, <2>1, <2>2, RecursionStays
  <2>4. ASSUME NEW i \in 0 .. n PROVE (IF i = 0 THEN first ELSE step[<<i, k[i - 1]>>]) = IF i = 0 THEN first ELSE next(i, k[i - 1])
    BY <1>1, <2>1, <2>3
  <2>5. Adds(k)
    BY <2>2, <2>4 DEF Recursive
  <2> QED
    BY <2>5
<1> DEFINE k == CHOOSE k : Adds(k)
<1>8. Adds(k)
  BY <1>7
<1> HIDE DEF k
<1>9. \A i \in 0 .. n : k[i] \in Whole
  <2> DEFINE S == {i \in 0 .. n : k[i] \in Whole}
  <2>1. k[0] = first /\ \A i \in 1 .. n : k[i] = next(i, k[i - 1])
    BY <1>1, <1>8
  <2>2. 0 \in S /\ \A i \in 1 .. n : i - 1 \in S => i \in S
    BY <1>1, <1>4, <2>1
  <2> HIDE DEF S
  <2>3. \A i \in 0 .. n : i \in S
    BY <1>1, <2>2, IntervalInduction
  <2> QED
    BY <2>3 DEF S
<1> QED
  BY <1>1, <1>5, <1>6, <1>9 DEF k

LEMMA ReceivedPoolsAreGood ==
  ASSUME NEW h, NEW t \in Texts, NEW f, NEW c, Lawful(DistinctTexts, h, EmptyList)
  PROVE  Good(DistinctTexts, h, EmptyList, recv_computer_pools(h, t, f, c))
<1> DEFINE n == Len(t)
           first == Result(EmptyList, h, TRUE)
           next(i, r) == computer_pool_add(r.heap, r.list, t[i], IF i = c THEN f ELSE "no")
           Adds(k) == k = [i \in 0 .. n |-> IF i = 0 THEN first ELSE next(i, k[i - 1])]
           Whole == {r \in [list : ListRecords, heap : Heaps(DistinctTexts), ok : BOOLEAN] : Good(DistinctTexts, h, EmptyList, r)}
<1>1. n \in Nat /\ \A i \in 1 .. n : t[i] \in Names \cup {Blank}
  BY LenProperties, ElementOfSeq DEF Texts
<1>2. Good(DistinctTexts, h, EmptyList, first)
  BY DEF Good, Lawful, Aside, Result, EmptyList
<1>3. ASSUME NEW i \in 1 .. n, NEW r, Good(DistinctTexts, h, EmptyList, r)
      PROVE  Good(DistinctTexts, h, EmptyList, next(i, r))
  <2>1. Good(DistinctTexts, r.heap, r.list, next(i, r))
    BY <1>1, <1>3, LawfulAfterGood, AddPoolIsGood
  <2> HIDE DEF next
  <2> QED
    BY <1>3, <2>1, GoodAfterGood
<1>4. first \in Whole /\ \A i \in 1 .. n, r \in Whole : next(i, r) \in Whole
  <2> HIDE DEF next, n, first
  <2> QED
    BY <1>2, <1>3, GoodIsResult
<1>5. recv_computer_pools(h, t, f, c) = (CHOOSE k : Adds(k))[n]
  BY DEF recv_computer_pools, Built
<1>6. \A r \in Whole : Good(DistinctTexts, h, EmptyList, r)
  OBVIOUS
<1> HIDE DEF n, first, next, Whole
<1>7. \E k : Adds(k)
  <2> DEFINE step == [p \in (1 .. n) \X Whole |-> next(p[1], p[2])]
  <2>1. \A i \in 1 .. n, r \in Whole : step[<<i, r>>] = next(i, r)
    OBVIOUS
  <2> HIDE DEF step
  <2>2. PICK k : Recursive(k, n, first, step)
    BY <1>1, RecursionExists
  <2>3. \A i \in 0 .. n : k[i] \in Whole
    BY <1>1, <1>4, <2>1, <2>2, RecursionStays
  <2>4. ASSUME NEW i \in 0 .. n PROVE (IF i = 0 THEN first ELSE step[<<i, k[i - 1]>>]) = IF i = 0 THEN first ELSE next(i, k[i - 1])
    BY <1>1, <2>1, <2>3
  <2>5. Adds(k)
    BY <2>2, <2>4 DEF Recursive
  <2> QED
    BY <2>5
<1> DEFINE k == CHOOSE k : Adds(k)
<1>8. Adds(k)
  BY <1>7
<1> HIDE DEF k
<1>9. \A i \in 0 .. n : k[i] \in Whole
  <2> DEFINE S == {i \in 0 .. n : k[i] \in Whole}
  <2>1. k[0] = first /\ \A i \in 1 .. n : k[i] = next(i, k[i - 1])
    BY <1>1, <1>8
  <2>2. 0 \in S /\ \A i \in 1 .. n : i - 1 \in S => i \in S
    BY <1>1, <1>4, <2>1
  <2> HIDE DEF S
  <2>3. \A i \in 0 .. n : i \in S
    BY <1>1, <2>2, IntervalInduction
  <2> QED
    BY <2>3 DEF S
<1> QED
  BY <1>1, <1>5, <1>6, <1>9 DEF k

LEMMA LoadedHostsAreGood ==
  ASSUME NEW h, NEW t \in DistinctTexts, NEW f, Lawful(DistinctTexts, h, EmptyList),
         NEW r, r = load_blocked_hosts(h, t, f)
  PROVE  /\ Good(DistinctTexts, h, EmptyList, r)
         /\ r.ok => Entries(r.heap, r.list) = t
         /\ f = "no" /\ ~ NoneLeft(h) => r.ok
<1>1. CASE t = <<>>
  BY <1>1 DEF load_blocked_hosts, Good, Lawful, Aside, Result, EmptyList, Entries
<1>2. CASE r = Unchanged(h, EmptyList, FALSE) /\ (f # "no" \/ NoneLeft(h))
  <2>1. r.ok = FALSE
    BY <1>2 DEF Unchanged, Result
  <2>2. Good(DistinctTexts, h, EmptyList, r)
    BY <1>2, UnchangedIsGood
  <2> QED
    BY <1>2, <2>1, <2>2
<1>3. CASE r = Lost(h, EmptyList) /\ ~ NoneLeft(h) /\ f # "no"
  BY <1>3, LostIsGood DEF Lost, Result
<1>4. CASE r = Replaced(h, EmptyList, t) /\ ~ NoneLeft(h) /\ t # <<>>
  <2>1. Len(t) > 0
    BY <1>4, EmptySeq, LenProperties DEF DistinctTexts, Texts
  <2>2. Good(DistinctTexts, h, EmptyList, r) /\ Entries(r.heap, r.list) = t
    BY <1>4, <2>1, ReplacedIsGood
  <2>3. r.ok = TRUE
    BY <1>4 DEF Replaced, Result
  <2> QED
    BY <2>2, <2>3
<1> QED
  BY <1>1, <1>2, <1>3, <1>4 DEF load_blocked_hosts, GetFails
=============================================================================
