--------------------------- MODULE InclusionProof ---------------------------
(***************************************************************************)
(* From the endpoint of a sidecar to the plan of a slot's batch, for any   *)
(* transactions, retention and clock, and whatever the endpoint answers,   *)
(* the sidecar serves and the other operators propose.                     *)
(*                                                                         *)
(* First, why every node makes the same sound plan of the same accepted    *)
(* lists, in whatever order the maps return them.  Merge and arrangeBatch  *)
(* are loops over lists of any length.  A loop is a recursive function of  *)
(* the number of steps; that it has a run, and what holds of each of its   *)
(* states, is shown by induction over that number, for which a set of      *)
(* naturals having a least element is enough.  Then the state of the       *)
(* sidecar and of the corpus, step by step.                                *)
(***************************************************************************)
EXTENDS Inclusion, WellFoundedInduction, FiniteSetTheorems, TLAPS

-----------------------------------------------------------------------------
(* Induction over the length of a list.                                    *)

\* A set of naturals has a least element.
LEMMA Least ==
    ASSUME NEW T \in SUBSET Nat, T # {}
    PROVE  \E m \in T : \A k \in T : m <= k
<1> DEFINE R == {p \in Nat \X Nat : p[1] < p[2]}
<1>1. IsWellFoundedOn(R, Nat)
  BY NatLessThanWellFounded, Zenon DEF OpToRel
<1> HIDE DEF R
<1>2. PICK m \in T : \A y \in T : ~(<<y, m>> \in R)
  BY <1>1, WFMin
<1>3. ASSUME NEW y \in T PROVE m <= y
  <2>1. <<y, m>> \in Nat \X Nat /\ ~(<<y, m>> \in R)
    BY <1>2
  <2>2. ~(y < m)
    BY <2>1, Zenon DEF R
  <2> QED  BY <2>2
<1> QED  BY <1>3

\* Induction up to n.
LEMMA UpTo ==
    ASSUME NEW n \in Nat, NEW T, 0 \in T, \A k \in 1 .. n : k - 1 \in T => k \in T
    PROVE  \A k \in 0 .. n : k \in T
<1> DEFINE U == {k \in Nat : k <= n /\ k \notin T}
<1>1. U = {}
  <2> SUFFICES ASSUME U # {} PROVE FALSE
    OBVIOUS
  <2>1. U \in SUBSET Nat
    OBVIOUS
  <2>2. PICK m \in U : \A k \in U : m <= k
    <3> HIDE DEF U
    <3> QED  BY <2>1, Least
  <2>3. m \in Nat /\ m <= n /\ m \notin T /\ m # 0
    OBVIOUS
  <2>4. m - 1 \in Nat /\ m - 1 <= n /\ m \in 1 .. n /\ ~(m <= m - 1)
    BY <2>3
  <2>5. m - 1 \notin U
    <3> HIDE DEF U
    <3> QED  BY <2>2, <2>4
  <2>6. m - 1 \in T
    BY <2>4, <2>5
  <2> QED  BY <2>3, <2>4, <2>6
<1> QED  BY <1>1

\* The states of a loop over n items.
LoopRun(f, base, step, items, n) ==
    \A k \in 0 .. n : f[k] = IF k = 0 THEN base ELSE step[<<f[k - 1], items[k]>>]

\* A loop over items that keeps its state in A has a run.
LEMMA LoopExists ==
    ASSUME NEW A, NEW I, NEW base \in A, NEW step \in [A \X I -> A],
           NEW n \in Nat, NEW items \in [1 .. n -> I]
    PROVE  \E f \in [0 .. n -> A] : LoopRun(f, base, step, items, n)
<1> DEFINE Run(m, f) == f[0] = base /\ \A k \in 1 .. m : f[k] = step[<<f[k - 1], items[k]>>]
           T == {m \in 0 .. n : \E f \in [0 .. m -> A] : Run(m, f)}
<1>1. 0 \in T
  <2> DEFINE g == [k \in 0 .. 0 |-> base]
  <2>1. g \in [0 .. 0 -> A] /\ g[0] = base
    OBVIOUS
  <2>2. Run(0, g)
    BY <2>1
  <2> HIDE DEF g, Run
  <2> QED  BY <2>1, <2>2
<1>2. ASSUME NEW m \in 1 .. n, m - 1 \in T
      PROVE  m \in T
  <2>1. PICK f \in [0 .. m - 1 -> A] : Run(m - 1, f)
    BY <1>2
  <2> DEFINE g == [k \in 0 .. m |-> IF k = m THEN step[<<f[m - 1], items[m]>>] ELSE f[k]]
  <2>2. step[<<f[m - 1], items[m]>>] \in A
    <3>1. f[m - 1] \in A /\ items[m] \in I
      OBVIOUS
    <3> QED  BY <3>1
  <2>3. g \in [0 .. m -> A]
    <3>1. \A k \in 0 .. m : k = m \/ k \in 0 .. m - 1
      OBVIOUS
    <3> QED  BY <2>2, <3>1
  <2>4. g[0] = base
    BY <2>1
  <2>5. ASSUME NEW k \in 1 .. m PROVE g[k] = step[<<g[k - 1], items[k]>>]
    <3>1. g[k - 1] = f[k - 1]
      OBVIOUS
    <3>2. CASE k = m
      <4>1. k - 1 = m - 1 /\ g[k] = step[<<f[m - 1], items[m]>>]
        BY <3>2
      <4> HIDE DEF g
      <4> QED  BY <3>1, <3>2, <4>1
    <3>3. CASE k # m
      BY <2>1, <3>1, <3>3
    <3> QED  BY <3>2, <3>3
  <2>6. m \in 0 .. n
    OBVIOUS
  <2> HIDE DEF g
  <2>7. Run(m, g)
    BY <2>4, <2>5
  <2> HIDE DEF Run
  <2> QED  BY <2>3, <2>6, <2>7
<1> HIDE DEF T
<1>3. n \in T
  <2>1. \A k \in 0 .. n : k \in T
    BY <1>1, <1>2, UpTo
  <2> QED  BY <2>1
<1>4. PICK f \in [0 .. n -> A] : Run(n, f)
  BY <1>3 DEF T
<1>5. LoopRun(f, base, step, items, n)
  BY <1>4 DEF LoopRun
<1> QED  BY <1>5

-----------------------------------------------------------------------------
(* What sorting returns.                                                   *)

\* One more element, after all that precede it.
LEMMA ExtendedOnes ==
    ASSUME NEW S, NEW less, NEW P \in SUBSET Seq(S)
    PROVE  /\ Extended(P, S, less) \in SUBSET Seq(S)
           /\ \A t \in Extended(P, S, less) :
                \E s \in P : \E c \in S \ ToSet(s) :
                   t = Append(s, c) /\ \A d \in S \ ToSet(s) : <<d, c>> \notin less
<1>1. ASSUME NEW t \in Extended(P, S, less)
      PROVE  \E s \in P : \E c \in S \ ToSet(s) :
                t = Append(s, c) /\ \A d \in S \ ToSet(s) : <<d, c>> \notin less
  BY DEF Extended, First
<1>2. ASSUME NEW t \in Extended(P, S, less)
      PROVE  t \in Seq(S)
  <2>1. PICK s \in P, c \in S : t = Append(s, c)
    BY <1>1
  <2> QED  BY <2>1
<1> QED  BY <1>1, <1>2

\* The loop of Orders, state by state.
LEMMA OrdersRuns ==
    ASSUME NEW S, IsFiniteSet(S), NEW less
    PROVE  \E f : /\ Orders(S, less) = f[Cardinality(S)]
                  /\ f[0] = {<<>>}
                  /\ \A k \in 1 .. Cardinality(S) : f[k] = Extended(f[k - 1], S, less)
                  /\ \A k \in 0 .. Cardinality(S) : f[k] \in SUBSET Seq(S)
<1> DEFINE n == Cardinality(S)
           A == SUBSET Seq(S)
           base == {<<>>}
           Run(f) == f = [k \in 0 .. n |-> IF k = 0 THEN base ELSE Extended(f[k - 1], S, less)]
           step == [p \in A \X Nat |-> Extended(p[1], S, less)]
           count == [k \in 1 .. n |-> k]
<1>1. n \in Nat /\ count \in [1 .. n -> Nat] /\ base \in A
  BY FS_CardinalityType
<1>2. step \in [A \X Nat -> A]
  BY ExtendedOnes
<1>3. \A a \in A, k \in Nat : step[<<a, k>>] = Extended(a, S, less)
  OBVIOUS
<1>4. \A k \in 1 .. n : count[k] \in Nat
  BY <1>1
<1> HIDE DEF n, step, A, count, base
<1>5. PICK f \in [0 .. n -> A] : LoopRun(f, base, step, count, n)
  BY <1>1, <1>2, LoopExists
<1>6. \A k \in 0 .. n : f[k] = IF k = 0 THEN base ELSE Extended(f[k - 1], S, less)
  <2> SUFFICES ASSUME NEW k \in 0 .. n, k # 0 PROVE f[k] = Extended(f[k - 1], S, less)
    BY <1>5 DEF LoopRun
  <2>1. f[k - 1] \in A /\ count[k] \in Nat
    BY <1>1, <1>4
  <2> QED  BY <1>3, <1>5, <2>1 DEF LoopRun
<1>7. Run(f)
  BY <1>6
<1>8. Run(CHOOSE g : Run(g))
  <2> HIDE DEF Run
  <2> QED  BY <1>7
<1> DEFINE F == CHOOSE g : Run(g)
<1>9. Orders(S, less) = F[n]
  BY DEF Orders, n, base
<1> HIDE DEF F
<1>10. F = [k \in 0 .. n |-> IF k = 0 THEN base ELSE Extended(F[k - 1], S, less)]
  BY <1>8 DEF F
<1>11. F[0] = base /\ \A k \in 1 .. n : F[k] = Extended(F[k - 1], S, less)
  BY <1>1, <1>10
<1>12. \A k \in 0 .. n : F[k] \in A
  <2> DEFINE T == {k \in 0 .. n : F[k] \in A}
  <2>1. 0 \in T
    BY <1>1, <1>11
  <2>2. ASSUME NEW k \in 1 .. n, k - 1 \in T PROVE k \in T
    <3>1. F[k - 1] \in SUBSET Seq(S)
      BY <2>2 DEF A
    <3>2. F[k] \in A
      BY <1>11, <3>1, ExtendedOnes DEF A
    <3> QED  BY <1>1, <3>2
  <2> HIDE DEF T
  <2>3. \A k \in 0 .. n : k \in T
    BY <1>1, <2>1, <2>2, UpTo
  <2> QED  BY <2>3 DEF T
<1> QED  BY <1>9, <1>11, <1>12 DEF n, A, base

\* What is sorted are sequences of the elements.
LEMMA OrdersType ==
    ASSUME NEW S, IsFiniteSet(S), NEW less
    PROVE  Orders(S, less) \subseteq Seq(S)
<1>1. Cardinality(S) \in 0 .. Cardinality(S)
  BY FS_CardinalityType
<1> QED  BY <1>1, OrdersRuns

\* An order that tells any two elements apart leaves sorting no choice.
LEMMA OrdersUnique ==
    ASSUME NEW S, IsFiniteSet(S), NEW less,
           \A c, d \in S : c # d => <<c, d>> \in less \/ <<d, c>> \in less
    PROVE  \A s, t \in Orders(S, less) : s = t
<1>1. PICK f : /\ Orders(S, less) = f[Cardinality(S)]
               /\ f[0] = {<<>>}
               /\ \A k \in 1 .. Cardinality(S) : f[k] = Extended(f[k - 1], S, less)
               /\ \A k \in 0 .. Cardinality(S) : f[k] \in SUBSET Seq(S)
  BY OrdersRuns
<1> DEFINE n == Cardinality(S)
           T == {k \in 0 .. n : \A s, t \in f[k] : s = t}
<1>2. n \in Nat
  BY FS_CardinalityType
<1>3. 0 \in T
  BY <1>1, <1>2
<1>4. ASSUME NEW k \in 1 .. n, k - 1 \in T PROVE k \in T
  <2>1. f[k - 1] \in SUBSET Seq(S) /\ f[k] = Extended(f[k - 1], S, less)
    BY <1>1, <1>2
  <2>2. \A s, t \in f[k - 1] : s = t
    BY <1>4
  <2>3. ASSUME NEW s \in f[k], NEW t \in f[k] PROVE s = t
    <3>1. PICK a \in f[k - 1] : \E c \in S \ ToSet(a) :
            s = Append(a, c) /\ \A d \in S \ ToSet(a) : <<d, c>> \notin less
      BY <2>1, <2>3, ExtendedOnes
    <3>2. PICK b \in f[k - 1] : \E c \in S \ ToSet(b) :
            t = Append(b, c) /\ \A d \in S \ ToSet(b) : <<d, c>> \notin less
      BY <2>1, <2>3, ExtendedOnes
    <3>3. a = b
      BY <2>2
    <3>4. PICK c \in S \ ToSet(a) : s = Append(a, c) /\ \A d \in S \ ToSet(a) : <<d, c>> \notin less
      BY <3>1
    <3>5. PICK e \in S \ ToSet(a) : t = Append(a, e) /\ \A d \in S \ ToSet(a) : <<d, e>> \notin less
      BY <3>2, <3>3
    <3>6. c = e
      BY <3>4, <3>5
    <3> QED  BY <3>4, <3>5, <3>6
  <2> QED  BY <1>2, <2>3
<1> HIDE DEF T
<1>5. \A k \in 0 .. n : k \in T
  BY <1>2, <1>3, <1>4, UpTo
<1>6. n \in T
  BY <1>2, <1>5
<1> QED  BY <1>1, <1>6 DEF T

\* Sorting returns every element once, none before one that precedes it.
LEMMA OrdersSorted ==
    ASSUME NEW S, IsFiniteSet(S), NEW less, NEW s \in Orders(S, less)
    PROVE  /\ s \in Seq(S) /\ Len(s) = Cardinality(S)
           /\ \A i, j \in 1 .. Len(s) : i < j => s[i] # s[j] /\ <<s[j], s[i]>> \notin less
           /\ \A c \in S : \E i \in 1 .. Len(s) : s[i] = c
<1>1. PICK f : /\ Orders(S, less) = f[Cardinality(S)]
               /\ f[0] = {<<>>}
               /\ \A k \in 1 .. Cardinality(S) : f[k] = Extended(f[k - 1], S, less)
               /\ \A k \in 0 .. Cardinality(S) : f[k] \in SUBSET Seq(S)
  BY OrdersRuns
<1> DEFINE n == Cardinality(S)
           Sorted(t, k) ==
              /\ Len(t) = k
              /\ \A i, j \in 1 .. k : i < j => t[i] # t[j] /\ <<t[j], t[i]>> \notin less
              /\ \A d \in S \ ToSet(t), i \in 1 .. k : <<d, t[i]>> \notin less
           T == {k \in 0 .. n : \A t \in f[k] : Sorted(t, k)}
<1>2. n \in Nat
  BY FS_CardinalityType
<1>3. 0 \in T
  BY <1>1, <1>2
<1>4. ASSUME NEW k \in 1 .. n, k - 1 \in T PROVE k \in T
  <2>1. f[k - 1] \in SUBSET Seq(S) /\ f[k] = Extended(f[k - 1], S, less)
    BY <1>1, <1>2
  <2>2. ASSUME NEW t \in f[k] PROVE Sorted(t, k)
    <3>1. PICK a \in f[k - 1] : \E c \in S \ ToSet(a) :
            t = Append(a, c) /\ \A d \in S \ ToSet(a) : <<d, c>> \notin less
      BY <2>1, <2>2, ExtendedOnes
    <3>2. PICK c \in S \ ToSet(a) : t = Append(a, c) /\ \A d \in S \ ToSet(a) : <<d, c>> \notin less
      BY <3>1
    <3>3. a \in Seq(S) /\ Sorted(a, k - 1)
      BY <1>4, <2>1
    <3>4. Len(t) = k /\ t[k] = c /\ \A i \in 1 .. k - 1 : t[i] = a[i] /\ a[i] \in ToSet(a)
      BY <1>2, <3>2, <3>3 DEF ToSet
    <3>5. ASSUME NEW i \in 1 .. k, NEW j \in 1 .. k, i < j
          PROVE  t[i] # t[j] /\ <<t[j], t[i]>> \notin less
      <4>1. i \in 1 .. k - 1
        BY <1>2, <3>5
      <4>2. CASE j = k
        BY <3>2, <3>3, <3>4, <4>1, <4>2
      <4>3. CASE j # k
        <5>1. j \in 1 .. k - 1
          BY <1>2, <4>3
        <5> QED  BY <3>3, <3>4, <3>5, <4>1, <5>1
      <4> QED  BY <4>2, <4>3
    <3>6. ASSUME NEW d \in S \ ToSet(t), NEW i \in 1 .. k
          PROVE  <<d, t[i]>> \notin less
      <4>1. d \in S \ ToSet(a)
        <5>1. ToSet(a) \subseteq ToSet(t)
          <6> SUFFICES ASSUME NEW x \in ToSet(a) PROVE x \in ToSet(t)
            OBVIOUS
          <6>1. PICK j \in 1 .. k - 1 : x = a[j]
            BY <3>3 DEF ToSet
          <6>2. j \in 1 .. k /\ t[j] = x /\ DOMAIN t = 1 .. k
            BY <1>2, <3>2, <3>3, <3>4, <6>1
          <6> QED  BY <6>2 DEF ToSet
        <5> QED  BY <5>1
      <4>2. CASE i = k
        BY <3>2, <3>4, <4>1, <4>2
      <4>3. CASE i # k
        <5>1. i \in 1 .. k - 1
          BY <1>2, <4>3
        <5> QED  BY <3>3, <3>4, <4>1, <5>1
      <4> QED  BY <4>2, <4>3
    <3> QED  BY <3>4, <3>5, <3>6
  <2> HIDE DEF Sorted
  <2> QED  BY <1>2, <2>2
<1> HIDE DEF T
<1>5. \A k \in 0 .. n : k \in T
  BY <1>2, <1>3, <1>4, UpTo
<1>6. n \in T
  BY <1>2, <1>5
<1>7. s \in Seq(S) /\ Sorted(s, n)
  BY <1>1, <1>2, <1>6 DEF T
<1>8. s \in Injection(1 .. n, S)
  <2>1. s \in [1 .. n -> S]
    BY <1>7
  <2>2. ASSUME NEW i \in 1 .. n, NEW j \in 1 .. n, s[i] = s[j] PROVE i = j
    <3>1. \A a, b \in 1 .. n : a < b => s[a] # s[b]
      BY <1>7
    <3> HIDE DEF n
    <3>2. i \in Nat /\ j \in Nat
      BY <1>2
    <3>3. ~(i < j) /\ ~(j < i)
      BY <2>2, <3>1
    <3> QED  BY <3>2, <3>3
  <2> QED  BY <2>1, <2>2 DEF Injection, IsInjective
<1>9. Cardinality(1 .. n) = Cardinality(S)
  BY <1>2, FS_Interval
<1>10. s \in Surjection(1 .. n, S)
  BY <1>8, <1>9, FS_Injection
<1> QED  BY <1>7, <1>10 DEF Surjection

-----------------------------------------------------------------------------
(* What Merge collects from the accepted lists.                            *)

Acc == [unique : SUBSET Item, validated : SUBSET Item]

\* An item under the hash of its ciphertext.
Normalized(item) == [item EXCEPT !.hash = item.ct]

\* What unique and validated have of the items that were seen.
Collected(acc, seen) ==
    /\ acc \in Acc
    /\ IsFiniteSet(acc.unique)
    /\ \A c \in acc.unique : \E d \in seen : Normal(d) /\ c = Normalized(d)
    /\ \A c, d \in acc.unique : c.hash = d.hash => c = d
    /\ \A d \in acc.validated : \E c \in acc.unique : c.ct = d.ct
    /\ \A d \in seen : Normal(d) => \E c \in acc.unique : c.ct = d.ct

LEMMA NormalizedItem ==
    ASSUME NEW item \in Item
    PROVE  /\ Normalized(item) \in Item
           /\ Normalized(item).hash = item.ct /\ Normalized(item).ct = item.ct
BY DEF Normalized, Item

LEMMA AdmitType ==
    ASSUME NEW acc \in Acc, NEW item \in Item
    PROVE  Admit(acc, item) \in Acc
<1>1. Admit(acc, item) \in
        {acc, [unique |-> acc.unique \union {Normalized(item)},
               validated |-> acc.validated \union {item}]}
  BY DEF Admit, Normalized
<1>2. [unique |-> acc.unique \union {Normalized(item)},
       validated |-> acc.validated \union {item}] \in Acc
  BY NormalizedItem DEF Acc
<1> QED  BY <1>1, <1>2

\* One more item.
LEMMA AdmitCollects ==
    ASSUME NEW acc, NEW seen \in SUBSET Item, Collected(acc, seen), NEW item \in Item
    PROVE  Collected(Admit(acc, item), seen \union {item})
<1>1. acc \in Acc /\ Admit(acc, item) \in Acc
  BY AdmitType DEF Collected
<1> DEFINE known == \/ item.hash # None /\ item \in acc.validated
                    \/ \E c \in acc.unique : c.hash = item.ct
<1>2. \A c \in acc.unique : c.hash = c.ct
  BY NormalizedItem DEF Collected
<1>3. CASE known \/ ~Normal(item)
  <2>1. Admit(acc, item) = acc
    BY <1>3 DEF Admit
  <2>2. Normal(item) => \E c \in acc.unique : c.ct = item.ct
    BY <1>2, <1>3 DEF Collected
  <2> QED  BY <2>1, <2>2 DEF Collected
<1>4. CASE ~known /\ Normal(item)
  <2> DEFINE new == [unique |-> acc.unique \union {Normalized(item)},
                     validated |-> acc.validated \union {item}]
  <2>1. Admit(acc, item) = new
    BY <1>4 DEF Admit, Normalized
  <2>2. new.unique = acc.unique \union {Normalized(item)}
        /\ new.validated = acc.validated \union {item}
    OBVIOUS
  <2> HIDE DEF new
  <2>3. Normalized(item).hash = item.ct /\ Normalized(item).ct = item.ct
    BY NormalizedItem
  <2>4. IsFiniteSet(new.unique)
    <3>1. IsFiniteSet(acc.unique)
      BY DEF Collected
    <3>2. IsFiniteSet(acc.unique \union {Normalized(item)})
      BY <3>1, FS_AddElement
    <3> QED  BY <2>2, <3>2
  <2>5. \A c \in new.unique : \E d \in seen \union {item} : Normal(d) /\ c = Normalized(d)
    BY <1>4, <2>2 DEF Collected
  <2>6. \A c, d \in new.unique : c.hash = d.hash => c = d
    <3>1. \A c \in acc.unique : c.hash # item.ct
      BY <1>4
    <3> QED  BY <2>2, <2>3, <3>1 DEF Collected
  <2>7. \A d \in new.validated : \E c \in new.unique : c.ct = d.ct
    BY <2>2, <2>3 DEF Collected
  <2>8. \A d \in seen \union {item} : Normal(d) => \E c \in new.unique : c.ct = d.ct
    BY <2>2, <2>3 DEF Collected
  <2> QED  BY <1>1, <2>1, <2>4, <2>5, <2>6, <2>7, <2>8 DEF Collected
<1> QED  BY <1>3, <1>4

\* The inner loop of Merge, state by state.
LEMMA AdmitAllRuns ==
    ASSUME NEW acc \in Acc, NEW items \in Seq(Item)
    PROVE  \E f : /\ AdmitAll(acc, items) = f[Len(items)]
                  /\ f[0] = acc
                  /\ \A k \in 1 .. Len(items) : f[k] = Admit(f[k - 1], items[k])
<1> DEFINE n == Len(items)
           Run(f) == f = [k \in 0 .. n |-> IF k = 0 THEN acc ELSE Admit(f[k - 1], items[k])]
           step == [p \in Acc \X Item |-> Admit(p[1], p[2])]
<1>1. n \in Nat /\ items \in [1 .. n -> Item]
  OBVIOUS
<1>2. step \in [Acc \X Item -> Acc]
  BY AdmitType
<1>3. \A a \in Acc, c \in Item : step[<<a, c>>] = Admit(a, c)
  OBVIOUS
<1> HIDE DEF n, step
<1>4. PICK f \in [0 .. n -> Acc] : LoopRun(f, acc, step, items, n)
  BY <1>1, <1>2, LoopExists
<1>5. \A k \in 0 .. n : f[k] = IF k = 0 THEN acc ELSE Admit(f[k - 1], items[k])
  <2> SUFFICES ASSUME NEW k \in 0 .. n, k # 0 PROVE f[k] = Admit(f[k - 1], items[k])
    BY <1>4 DEF LoopRun
  <2>1. f[k - 1] \in Acc /\ items[k] \in Item
    BY <1>1
  <2> QED  BY <1>3, <1>4, <2>1 DEF LoopRun
<1>6. Run(f)
  BY <1>5
<1>7. Run(CHOOSE g : Run(g))
  <2> HIDE DEF Run
  <2> QED  BY <1>6
<1> DEFINE F == CHOOSE g : Run(g)
<1>8. AdmitAll(acc, items) = F[n]
  BY DEF AdmitAll, n
<1> HIDE DEF F
<1>9. F = [k \in 0 .. n |-> IF k = 0 THEN acc ELSE Admit(F[k - 1], items[k])]
  BY <1>7 DEF F
<1>10. F[0] = acc /\ \A k \in 1 .. n : F[k] = Admit(F[k - 1], items[k])
  BY <1>1, <1>9
<1> QED  BY <1>8, <1>10 DEF n

\* One more list.
LEMMA AdmitAllCollects ==
    ASSUME NEW acc, NEW seen \in SUBSET Item, Collected(acc, seen), NEW items \in Seq(Item)
    PROVE  Collected(AdmitAll(acc, items), seen \union ToSet(items))
<1>1. PICK f : /\ AdmitAll(acc, items) = f[Len(items)]
               /\ f[0] = acc
               /\ \A k \in 1 .. Len(items) : f[k] = Admit(f[k - 1], items[k])
  BY AdmitAllRuns DEF Collected
<1> DEFINE n == Len(items)
           Upto(k) == seen \union {items[i] : i \in 1 .. k}
           T == {k \in 0 .. n : Collected(f[k], Upto(k))}
<1>2. n \in Nat /\ \A k \in 1 .. n : items[k] \in Item
  OBVIOUS
<1>3. 0 \in T
  <2>1. Upto(0) = seen
    OBVIOUS
  <2> HIDE DEF Upto
  <2>2. Collected(f[0], Upto(0))
    BY <1>1, <2>1
  <2> QED  BY <1>2, <2>2
<1>4. ASSUME NEW k \in 1 .. n, k - 1 \in T PROVE k \in T
  <2>1. Upto(k - 1) \in SUBSET Item /\ Collected(f[k - 1], Upto(k - 1))
    BY <1>2, <1>4
  <2>2. Upto(k) = Upto(k - 1) \union {items[k]}
    <3>1. 1 .. k = 1 .. (k - 1) \union {k}
      BY <1>2
    <3> QED  BY <3>1
  <2> HIDE DEF Upto
  <2>3. Collected(f[k], Upto(k))
    <3>1. Collected(Admit(f[k - 1], items[k]), Upto(k - 1) \union {items[k]})
      <4>1. items[k] \in Item
        BY <1>2
      <4> QED  BY <2>1, <4>1, AdmitCollects
    <3> QED  BY <1>1, <2>2, <3>1
  <2> QED  BY <1>2, <2>3
<1> HIDE DEF T
<1>5. \A k \in 0 .. n : k \in T
  BY <1>2, <1>3, <1>4, UpTo
<1>6. n \in T
  BY <1>2, <1>5
<1>7. Upto(n) = seen \union ToSet(items)
  BY DEF ToSet
<1> QED  BY <1>1, <1>6, <1>7 DEF T

\* The outer loop of Merge, state by state.
LEMMA CandidatesRuns ==
    ASSUME NEW batches, Len(batches) \in Nat,
           \A i \in 1 .. Len(batches) : batches[i].list.items \in Seq(Item)
    PROVE  \E f : /\ Candidates(batches) = f[Len(batches)].unique
                  /\ f[0] = [unique |-> {}, validated |-> {}]
                  /\ \A k \in 1 .. Len(batches) :
                       f[k] = AdmitAll(f[k - 1], batches[k].list.items)
<1> DEFINE n == Len(batches)
           base == [unique |-> {}, validated |-> {}]
           Run(f) == f = [k \in 0 .. n |-> IF k = 0 THEN base
                                           ELSE AdmitAll(f[k - 1], batches[k].list.items)]
           step == [p \in Acc \X Seq(Item) |-> AdmitAll(p[1], p[2])]
           lists == [k \in 1 .. n |-> batches[k].list.items]
<1>1. n \in Nat /\ lists \in [1 .. n -> Seq(Item)] /\ base \in Acc
  BY DEF Acc
<1>2. \A a \in Acc, items \in Seq(Item) : AdmitAll(a, items) \in Acc
  <2> SUFFICES ASSUME NEW a \in Acc, NEW items \in Seq(Item) PROVE AdmitAll(a, items) \in Acc
    OBVIOUS
  <2>1. PICK f : /\ AdmitAll(a, items) = f[Len(items)]
                 /\ f[0] = a
                 /\ \A k \in 1 .. Len(items) : f[k] = Admit(f[k - 1], items[k])
    BY AdmitAllRuns
  <2> DEFINE T == {k \in 0 .. Len(items) : f[k] \in Acc}
  <2>2. Len(items) \in Nat /\ \A k \in 1 .. Len(items) : items[k] \in Item
    OBVIOUS
  <2>3. 0 \in T
    BY <2>1, <2>2
  <2>4. ASSUME NEW k \in 1 .. Len(items), k - 1 \in T PROVE k \in T
    BY <2>1, <2>2, <2>4, AdmitType
  <2> HIDE DEF T
  <2>5. \A k \in 0 .. Len(items) : k \in T
    BY <2>2, <2>3, <2>4, UpTo
  <2>6. Len(items) \in T
    BY <2>2, <2>5
  <2> QED  BY <2>1, <2>6 DEF T
<1>3. step \in [Acc \X Seq(Item) -> Acc]
  BY <1>2
<1>4. \A a \in Acc, items \in Seq(Item) : step[<<a, items>>] = AdmitAll(a, items)
  OBVIOUS
<1>5. \A k \in 1 .. n : lists[k] = batches[k].list.items
  OBVIOUS
<1> HIDE DEF n, step, base, lists
<1>6. PICK f \in [0 .. n -> Acc] : LoopRun(f, base, step, lists, n)
  BY <1>1, <1>3, LoopExists
<1>7. \A k \in 0 .. n : f[k] = IF k = 0 THEN base ELSE AdmitAll(f[k - 1], batches[k].list.items)
  <2> SUFFICES ASSUME NEW k \in 0 .. n, k # 0
               PROVE  f[k] = AdmitAll(f[k - 1], batches[k].list.items)
    BY <1>6 DEF LoopRun
  <2>1. f[k - 1] \in Acc /\ lists[k] \in Seq(Item)
    BY <1>1
  <2>2. f[k] = AdmitAll(f[k - 1], lists[k])
    BY <1>4, <1>6, <2>1 DEF LoopRun
  <2> QED  BY <1>1, <1>5, <2>2
<1>8. Run(f)
  BY <1>7
<1>9. Run(CHOOSE g : Run(g))
  <2> HIDE DEF Run
  <2> QED  BY <1>8
<1> DEFINE F == CHOOSE g : Run(g)
<1>10. Candidates(batches) = F[n].unique
  BY DEF Candidates, n, base
<1> HIDE DEF F
<1>11. F = [k \in 0 .. n |-> IF k = 0 THEN base ELSE AdmitAll(F[k - 1], batches[k].list.items)]
  BY <1>9 DEF F
<1>12. F[0] = base /\ \A k \in 1 .. n : F[k] = AdmitAll(F[k - 1], batches[k].list.items)
  BY <1>1, <1>11
<1> QED  BY <1>10, <1>12 DEF n, base

\* The well-formed items of some lists.
OfferedIn(batches) ==
    UNION {ToSet(batches[i].list.items) : i \in 1 .. Len(batches)}

\* Merge has one candidate of every ciphertext that is offered well-formed, as one
\* of the lists has it (merge.go:50-72).
LEMMA CandidatesResult ==
    ASSUME NEW batches, Len(batches) \in Nat,
           \A i \in 1 .. Len(batches) : batches[i].list.items \in Seq(Item)
    PROVE  \E acc : acc.unique = Candidates(batches) /\ Collected(acc, OfferedIn(batches))
<1>1. PICK f : /\ Candidates(batches) = f[Len(batches)].unique
               /\ f[0] = [unique |-> {}, validated |-> {}]
               /\ \A k \in 1 .. Len(batches) : f[k] = AdmitAll(f[k - 1], batches[k].list.items)
  BY CandidatesRuns
<1> DEFINE n == Len(batches)
           Of(i) == ToSet(batches[i].list.items)
           Upto(k) == UNION {Of(i) : i \in 1 .. k}
           T == {k \in 0 .. n : Collected(f[k], Upto(k))}
<1>2. \A i \in 1 .. n : Of(i) \in SUBSET Item
  BY DEF ToSet
<1>3. 0 \in T
  <2>1. Upto(0) = {}
    OBVIOUS
  <2>2. f[0] \in Acc /\ f[0].unique = {} /\ f[0].validated = {} /\ IsFiniteSet({})
    BY <1>1, FS_EmptySet DEF Acc
  <2> HIDE DEF Upto
  <2>3. Collected(f[0], Upto(0))
    BY <2>1, <2>2 DEF Collected
  <2> QED  BY <2>3
<1>4. ASSUME NEW k \in 1 .. n, k - 1 \in T PROVE k \in T
  <2>1. Upto(k - 1) \in SUBSET Item
    BY <1>2
  <2>2. Upto(k) = Upto(k - 1) \union Of(k)
    <3>1. 1 .. k = 1 .. (k - 1) \union {k}
      OBVIOUS
    <3> HIDE DEF Of
    <3> QED  BY <3>1
  <2> HIDE DEF Upto
  <2>3. Collected(f[k - 1], Upto(k - 1))
    BY <1>4
  <2>4. Collected(f[k], Upto(k))
    <3>1. f[k] = AdmitAll(f[k - 1], batches[k].list.items) /\ batches[k].list.items \in Seq(Item)
      BY <1>1
    <3>2. Collected(f[k], Upto(k - 1) \union ToSet(batches[k].list.items))
      BY <2>1, <2>3, <3>1, AdmitAllCollects
    <3> QED  BY <2>2, <3>2
  <2> QED  BY <2>4
<1> HIDE DEF T
<1>5. \A k \in 0 .. n : k \in T
  BY <1>3, <1>4, UpTo
<1>6. n \in T
  BY <1>5
<1>7. Upto(n) = OfferedIn(batches)
  BY DEF OfferedIn
<1> QED  BY <1>1, <1>6, <1>7 DEF T

-----------------------------------------------------------------------------
(* The gas of the first items.                                             *)

\* GasOf, item by item.
LEMMA GasRuns ==
    ASSUME NEW items, NEW k \in Nat, \A j \in 1 .. k : items[j].gas \in Nat
    PROVE  \E f : /\ GasOf(items, k) = f[k]
                  /\ f[0] = 0
                  /\ \A j \in 1 .. k : f[j] = f[j - 1] + items[j].gas
<1> DEFINE Run(f) == f = [j \in 0 .. k |-> IF j = 0 THEN 0 ELSE f[j - 1] + items[j].gas]
           step == [p \in Nat \X Nat |-> p[1] + p[2]]
           gas == [j \in 1 .. k |-> items[j].gas]
<1>1. gas \in [1 .. k -> Nat] /\ step \in [Nat \X Nat -> Nat]
  OBVIOUS
<1>2. \A a, b \in Nat : step[<<a, b>>] = a + b
  OBVIOUS
<1>3. \A j \in 1 .. k : gas[j] = items[j].gas
  OBVIOUS
<1> HIDE DEF step, gas
<1>4. PICK f \in [0 .. k -> Nat] : LoopRun(f, 0, step, gas, k)
  BY <1>1, LoopExists
<1>5. \A j \in 0 .. k : f[j] = IF j = 0 THEN 0 ELSE f[j - 1] + items[j].gas
  <2> SUFFICES ASSUME NEW j \in 0 .. k, j # 0 PROVE f[j] = f[j - 1] + items[j].gas
    BY <1>4 DEF LoopRun
  <2>1. f[j - 1] \in Nat /\ gas[j] \in Nat /\ gas[j] = items[j].gas
    BY <1>1, <1>3
  <2> QED  BY <1>2, <1>4, <2>1 DEF LoopRun
<1>6. Run(f)
  BY <1>5
<1>7. Run(CHOOSE g : Run(g))
  <2> HIDE DEF Run
  <2> QED  BY <1>6
<1> DEFINE F == CHOOSE g : Run(g)
<1>8. GasOf(items, k) = F[k]
  BY DEF GasOf
<1> HIDE DEF F
<1>9. F = [j \in 0 .. k |-> IF j = 0 THEN 0 ELSE F[j - 1] + items[j].gas]
  BY <1>7 DEF F
<1>10. F[0] = 0 /\ \A j \in 1 .. k : F[j] = F[j - 1] + items[j].gas
  BY <1>9
<1> QED  BY <1>8, <1>10

\* Whatever adds the gas up gives the same, which is a number.
LEMMA GasIs ==
    ASSUME NEW items, NEW k \in Nat, \A j \in 1 .. k : items[j].gas \in Nat,
           NEW g, g[0] = 0, \A j \in 1 .. k : g[j] = g[j - 1] + items[j].gas
    PROVE  GasOf(items, k) = g[k] /\ g[k] \in Nat
<1>1. PICK f : /\ GasOf(items, k) = f[k]
               /\ f[0] = 0
               /\ \A j \in 1 .. k : f[j] = f[j - 1] + items[j].gas
  BY GasRuns
<1> DEFINE T == {j \in 0 .. k : f[j] = g[j] /\ g[j] \in Nat}
<1>2. 0 \in T
  BY <1>1
<1>3. ASSUME NEW j \in 1 .. k, j - 1 \in T PROVE j \in T
  BY <1>1, <1>3
<1> HIDE DEF T
<1>4. \A j \in 0 .. k : j \in T
  BY <1>2, <1>3, UpTo
<1>5. k \in T
  BY <1>4
<1> QED  BY <1>1, <1>5 DEF T

\* The gas of a prefix is that of the prefix alone.
LEMMA GasPrefix ==
    ASSUME NEW items, NEW more, NEW k \in Nat,
           \A j \in 1 .. k : items[j].gas \in Nat /\ more[j] = items[j]
    PROVE  GasOf(more, k) = GasOf(items, k) /\ GasOf(items, k) \in Nat
<1>1. PICK f : /\ GasOf(items, k) = f[k]
               /\ f[0] = 0
               /\ \A j \in 1 .. k : f[j] = f[j - 1] + items[j].gas
  BY GasRuns
<1>2. \A j \in 1 .. k : more[j].gas \in Nat /\ f[j] = f[j - 1] + more[j].gas
  BY <1>1
<1>3. GasOf(more, k) = f[k] /\ f[k] \in Nat
  BY <1>1, <1>2, GasIs
<1> QED  BY <1>1, <1>3

\* One more item.
LEMMA GasStep ==
    ASSUME NEW items, NEW k \in Nat, \A j \in 1 .. k + 1 : items[j].gas \in Nat
    PROVE  GasOf(items, k + 1) = GasOf(items, k) + items[k + 1].gas
<1>1. PICK f : /\ GasOf(items, k + 1) = f[k + 1]
               /\ f[0] = 0
               /\ \A j \in 1 .. k + 1 : f[j] = f[j - 1] + items[j].gas
  BY GasRuns
<1>2. GasOf(items, k) = f[k]
  BY <1>1, GasIs
<1>3. f[k + 1] = f[k] + items[k + 1].gas
  BY <1>1
<1> QED  BY <1>1, <1>2, <1>3

LEMMA GasNone ==
    ASSUME NEW items
    PROVE  GasOf(items, 0) = 0
<1>1. PICK f : GasOf(items, 0) = f[0] /\ f[0] = 0
  BY GasRuns
<1> QED  BY <1>1

-----------------------------------------------------------------------------
(* What the blockspace limits leave of the sorted candidates.              *)

Chosen == [items : Seq(Item), gas : Nat]

LEMMA ItemGas ==
    ASSUME NEW s \in Seq(Item)
    PROVE  \A i \in 1 .. Len(s) : s[i] \in Item /\ s[i].gas \in Nat
<1>1. \A c \in Item : c.gas \in Nat
  BY DEF Item
<1>2. \A i \in 1 .. Len(s) : s[i] \in Item
  OBVIOUS
<1> QED  BY <1>1, <1>2

LEMMA FitType ==
    ASSUME NEW acc \in Chosen, NEW c \in Item
    PROVE  Fit(acc, c) \in Chosen
<1>1. Fit(acc, c) \in {acc, [items |-> Append(acc.items, c), gas |-> acc.gas + c.gas]}
  BY DEF Fit
<1>2. Append(acc.items, c) \in Seq(Item) /\ acc.gas + c.gas \in Nat
  BY DEF Chosen, Item
<1>3. [items |-> Append(acc.items, c), gas |-> acc.gas + c.gas] \in Chosen
  BY <1>2 DEF Chosen
<1> QED  BY <1>1, <1>3

\* The loop of Select, state by state.
LEMMA SelectRuns ==
    ASSUME NEW order \in Seq(Item)
    PROVE  \E f : /\ Select(order) = f[Len(order)].items
                  /\ f[0] = [items |-> <<>>, gas |-> 0]
                  /\ \A k \in 1 .. Len(order) : f[k] = Fit(f[k - 1], order[k])
<1> DEFINE n == Len(order)
           base == [items |-> <<>>, gas |-> 0]
           Run(f) == f = [k \in 0 .. n |-> IF k = 0 THEN base ELSE Fit(f[k - 1], order[k])]
           step == [p \in Chosen \X Item |-> Fit(p[1], p[2])]
<1>1. n \in Nat /\ order \in [1 .. n -> Item]
  OBVIOUS
<1>2. base \in Chosen
  BY DEF Chosen
<1>3. step \in [Chosen \X Item -> Chosen]
  BY FitType
<1>4. \A a \in Chosen, c \in Item : step[<<a, c>>] = Fit(a, c)
  OBVIOUS
<1> HIDE DEF n, base, step
<1>5. PICK f \in [0 .. n -> Chosen] : LoopRun(f, base, step, order, n)
  BY <1>1, <1>2, <1>3, LoopExists
<1>6. \A k \in 0 .. n : f[k] = IF k = 0 THEN base ELSE Fit(f[k - 1], order[k])
  <2> SUFFICES ASSUME NEW k \in 0 .. n, k # 0 PROVE f[k] = Fit(f[k - 1], order[k])
    BY <1>5 DEF LoopRun
  <2>1. f[k - 1] \in Chosen /\ order[k] \in Item
    BY <1>1
  <2> QED  BY <1>4, <1>5, <2>1 DEF LoopRun
<1>7. Run(f)
  BY <1>6
<1>8. Run(CHOOSE g : Run(g))
  <2> HIDE DEF Run
  <2> QED  BY <1>7
<1> DEFINE F == CHOOSE g : Run(g)
<1>9. Select(order) = F[n].items
  BY DEF Select, n, base
<1> HIDE DEF F
<1>10. F = [k \in 0 .. n |-> IF k = 0 THEN base ELSE Fit(F[k - 1], order[k])]
  BY <1>8 DEF F
<1>11. F[0] = base /\ \A k \in 1 .. n : F[k] = Fit(F[k - 1], order[k])
  BY <1>1, <1>10
<1> QED  BY <1>9, <1>11 DEF n, base

\* The first m items are those that precede c, and c does not fit beside them.
Crowded(items, c, m) ==
    /\ \A i \in 1 .. m : Before(items[i], c)
    /\ \A i \in m + 1 .. Len(items) : ~Before(items[i], c)
    /\ GasOf(items, m) + c.gas > MaxDecryptedGas

\* The candidate c is selected, or there is no room for it.
Settled(items, c) ==
    \/ \E i \in 1 .. Len(items) : items[i] = c
    \/ Len(items) >= EffectiveMaxDecryptedTxs
    \/ MaxDecryptedGas > 0 /\ \E m \in 0 .. Len(items) : Crowded(items, c, m)

\* It stays so when one is added that does not precede it.
LEMMA SettledStays ==
    ASSUME NEW items \in Seq(Item), NEW c \in Item, NEW new \in Item, ~Before(new, c),
           Settled(items, c)
    PROVE  Settled(Append(items, new), c)
<1> DEFINE more == Append(items, new)
           L == Len(items)
<1>1. /\ L \in Nat /\ Len(more) = L + 1 /\ more[L + 1] = new
      /\ \A i \in 1 .. L : more[i] = items[i] /\ items[i].gas \in Nat
  BY ItemGas
<1>2. EffectiveMaxDecryptedTxs \in Nat
  BY BMaxAssumption, MergeAssumption DEF EffectiveMaxDecryptedTxs
<1> HIDE DEF more
<1>3. CASE \E i \in 1 .. L : items[i] = c
  <2>1. PICK i \in 1 .. L : items[i] = c
    BY <1>3
  <2>2. i \in 1 .. Len(more) /\ more[i] = c
    BY <1>1, <2>1
  <2>3. Settled(more, c)
    BY <2>2 DEF Settled
  <2> QED  BY <2>3 DEF more
<1>4. CASE L >= EffectiveMaxDecryptedTxs
  <2>1. Len(more) >= EffectiveMaxDecryptedTxs
    BY <1>1, <1>2, <1>4
  <2>2. Settled(more, c)
    BY <2>1 DEF Settled
  <2> QED  BY <2>2 DEF more
<1>5. CASE MaxDecryptedGas > 0 /\ \E m \in 0 .. L : Crowded(items, c, m)
  <2>1. PICK m \in 0 .. L : Crowded(items, c, m)
    BY <1>5
  <2>2. \A i \in 1 .. m : Before(more[i], c)
    BY <1>1, <2>1 DEF Crowded
  <2>3. ASSUME NEW i \in m + 1 .. Len(more) PROVE ~Before(more[i], c)
    <3>1. CASE i = L + 1
      BY <1>1, <3>1
    <3>2. CASE i # L + 1
      <4>1. i \in m + 1 .. L /\ i \in 1 .. L
        BY <1>1, <3>2
      <4> QED  BY <1>1, <2>1, <4>1 DEF Crowded
    <3> QED  BY <3>1, <3>2
  <2>4. GasOf(more, m) = GasOf(items, m)
    <3>1. m \in Nat /\ \A j \in 1 .. m : items[j].gas \in Nat /\ more[j] = items[j]
      BY <1>1
    <3> QED  BY <3>1, GasPrefix
  <2>5. Crowded(more, c, m) /\ m \in 0 .. Len(more)
    BY <1>1, <2>1, <2>2, <2>3, <2>4 DEF Crowded
  <2>6. Settled(more, c)
    BY <1>5, <2>5 DEF Settled
  <2> QED  BY <2>6 DEF more
<1> QED  BY <1>3, <1>4, <1>5 DEF Settled

\* What is selected is in order and within the limits, and what is not selected had
\* no room (merge.go:79-98).
LEMMA SelectResult ==
    ASSUME NEW order \in Seq(Item),
           \A i, j \in 1 .. Len(order) :
              i < j => Before(order[i], order[j]) /\ ~Before(order[j], order[i])
    PROVE  /\ Select(order) \in Seq(Item)
           /\ \A i \in 1 .. Len(Select(order)) : \E j \in 1 .. Len(order) : Select(order)[i] = order[j]
           /\ \A i, j \in 1 .. Len(Select(order)) : i < j => Before(Select(order)[i], Select(order)[j])
           /\ Len(Select(order)) <= EffectiveMaxDecryptedTxs
           /\ MaxDecryptedGas > 0 => GasOf(Select(order), Len(Select(order))) <= MaxDecryptedGas
           /\ \A j \in 1 .. Len(order) : Settled(Select(order), order[j])
<1>1. PICK f : /\ Select(order) = f[Len(order)].items
               /\ f[0] = [items |-> <<>>, gas |-> 0]
               /\ \A k \in 1 .. Len(order) : f[k] = Fit(f[k - 1], order[k])
  BY SelectRuns
<1> DEFINE n == Len(order)
           Good(items, gas, k) ==
              /\ items \in Seq(Item)
              /\ gas = GasOf(items, Len(items))
              /\ Len(items) <= EffectiveMaxDecryptedTxs
              /\ MaxDecryptedGas > 0 => gas <= MaxDecryptedGas
              /\ \A i \in 1 .. Len(items) : \E j \in 1 .. k : items[i] = order[j]
              /\ \A i, j \in 1 .. Len(items) : i < j => Before(items[i], items[j])
              /\ \A j \in 1 .. k : Settled(items, order[j])
           T == {k \in 0 .. n : f[k] \in Chosen /\ Good(f[k].items, f[k].gas, k)}
<1>2. n \in Nat /\ \A k \in 1 .. n : order[k] \in Item /\ order[k].gas \in Nat
  BY ItemGas
<1>3. EffectiveMaxDecryptedTxs \in Nat /\ MaxDecryptedGas \in Nat
  BY BMaxAssumption, MergeAssumption DEF EffectiveMaxDecryptedTxs
<1>4. 0 \in T
  <2>1. f[0] \in Chosen /\ f[0].items = <<>> /\ f[0].gas = 0
    BY <1>1 DEF Chosen
  <2>2. GasOf(<<>>, 0) = 0
    BY GasNone
  <2>3. Good(<<>>, 0, 0)
    BY <1>3, <2>2
  <2> HIDE DEF Good
  <2> QED  BY <1>2, <2>1, <2>3
<1>5. ASSUME NEW k \in 1 .. n, k - 1 \in T PROVE k \in T
  <2> DEFINE items == f[k - 1].items
             gas == f[k - 1].gas
             c == order[k]
             L == Len(items)
             full == \/ L >= EffectiveMaxDecryptedTxs
                     \/ MaxDecryptedGas > 0 /\ c.gas > MaxDecryptedGas - gas
  <2>1. f[k - 1] \in Chosen /\ Good(items, gas, k - 1) /\ c \in Item /\ c.gas \in Nat
    BY <1>2, <1>5
  <2>2. items \in Seq(Item) /\ gas \in Nat /\ L \in Nat
    BY <2>1 DEF Chosen
  <2>3. f[k] = Fit(f[k - 1], c) /\ f[k] \in Chosen
    BY <1>1, <2>1, FitType
  <2>4. \A i \in 1 .. L : Before(items[i], c) /\ ~Before(c, items[i])
    <3> SUFFICES ASSUME NEW i \in 1 .. L PROVE Before(items[i], c) /\ ~Before(c, items[i])
      OBVIOUS
    <3>1. PICK j \in 1 .. k - 1 : items[i] = order[j]
      BY <2>1
    <3>2. j \in 1 .. n /\ j < k
      BY <1>2
    <3> QED  BY <3>1, <3>2
  <2>5. CASE full
    <3>1. f[k] = f[k - 1]
      BY <2>3, <2>5 DEF Fit
    <3>2. Settled(items, c)
      <4>1. CASE L >= EffectiveMaxDecryptedTxs
        BY <4>1 DEF Settled
      <4>2. CASE MaxDecryptedGas > 0 /\ c.gas > MaxDecryptedGas - gas
        <5>1. GasOf(items, L) + c.gas > MaxDecryptedGas
          BY <1>3, <2>1, <2>2, <4>2
        <5> HIDE DEF items, c
        <5>2. Crowded(items, c, L) /\ L \in 0 .. L
          BY <2>2, <2>4, <5>1 DEF Crowded
        <5> QED  BY <4>2, <5>2 DEF Settled
      <4> QED  BY <2>5, <4>1, <4>2
    <3>3. \A j \in 1 .. k : Settled(items, order[j])
      <4>1. \A j \in 1 .. k : j = k \/ j \in 1 .. k - 1
        BY <1>2
      <4> QED  BY <2>1, <3>2, <4>1
    <3>4. \A i \in 1 .. L : \E j \in 1 .. k : items[i] = order[j]
      BY <1>2, <2>1
    <3>5. Good(items, gas, k)
      BY <2>1, <3>3, <3>4
    <3> HIDE DEF Good
    <3> QED  BY <1>2, <2>3, <3>1, <3>5
  <2>6. CASE ~full
    <3> DEFINE more == Append(items, c)
    <3>1. f[k].items = more /\ f[k].gas = gas + c.gas
      BY <2>3, <2>6 DEF Fit
    <3>2. /\ more \in Seq(Item) /\ Len(more) = L + 1 /\ more[L + 1] = c
          /\ \A i \in 1 .. L : more[i] = items[i]
      BY <2>1, <2>2
    <3>3. gas + c.gas = GasOf(more, Len(more))
      <4>1. \A j \in 1 .. L + 1 : more[j].gas \in Nat
        <5> HIDE DEF more
        <5> QED  BY <2>2, <3>2, ItemGas
      <4>2. \A j \in 1 .. L : items[j].gas \in Nat
        BY <2>2, ItemGas
      <4> HIDE DEF more, items, c
      <4>3. GasOf(more, L + 1) = GasOf(more, L) + c.gas
        BY <2>2, <3>2, <4>1, GasStep
      <4>4. GasOf(more, L) = GasOf(items, L)
        <5>1. \A j \in 1 .. L : items[j].gas \in Nat /\ more[j] = items[j]
          BY <3>2, <4>2
        <5> QED  BY <2>2, <5>1, GasPrefix
      <4> QED  BY <2>1, <3>2, <4>3, <4>4
    <3>4. L + 1 <= EffectiveMaxDecryptedTxs /\ (MaxDecryptedGas > 0 => gas + c.gas <= MaxDecryptedGas)
      BY <1>3, <2>1, <2>2, <2>6
    <3>5. ASSUME NEW i \in 1 .. L + 1 PROVE \E j \in 1 .. k : more[i] = order[j]
      <4>1. CASE i = L + 1
        BY <1>2, <3>2, <4>1
      <4>2. CASE i # L + 1
        <5>1. i \in 1 .. L /\ more[i] = items[i]
          BY <2>2, <3>2, <4>2
        <5>2. PICK j \in 1 .. k - 1 : items[i] = order[j]
          BY <2>1, <5>1
        <5>3. j \in 1 .. k
          BY <1>2
        <5> QED  BY <5>1, <5>2, <5>3
      <4> QED  BY <4>1, <4>2
    <3>6. ASSUME NEW i \in 1 .. L + 1, NEW j \in 1 .. L + 1, i < j
          PROVE  Before(more[i], more[j])
      <4>1. i \in 1 .. L /\ more[i] = items[i]
        BY <2>2, <3>2, <3>6
      <4>2. CASE j = L + 1
        BY <2>4, <3>2, <4>1, <4>2
      <4>3. CASE j # L + 1
        <5>1. j \in 1 .. L /\ more[j] = items[j]
          BY <2>2, <3>2, <4>3
        <5> QED  BY <2>1, <3>6, <4>1, <5>1
      <4> QED  BY <4>2, <4>3
    <3>7. ASSUME NEW j \in 1 .. k PROVE Settled(more, order[j])
      <4>1. CASE j = k
        <5>1. L + 1 \in 1 .. Len(more) /\ more[L + 1] = order[j]
          BY <2>2, <3>2, <4>1
        <5> HIDE DEF more
        <5> QED  BY <5>1 DEF Settled
      <4>2. CASE j # k
        <5>1. j \in 1 .. k - 1 /\ j \in 1 .. n /\ j < k
          BY <1>2, <4>2
        <5>2. Settled(items, order[j]) /\ ~Before(c, order[j]) /\ order[j] \in Item
          BY <1>2, <2>1, <5>1
        <5> QED  BY <2>1, <2>2, <5>2, SettledStays
      <4> QED  BY <4>1, <4>2
    <3> HIDE DEF more
    <3>8. Good(more, gas + c.gas, k)
      BY <3>2, <3>3, <3>4, <3>5, <3>6, <3>7
    <3> HIDE DEF Good
    <3> QED  BY <1>2, <2>3, <3>1, <3>8
  <2> QED  BY <2>5, <2>6
<1> HIDE DEF T
<1>6. \A k \in 0 .. n : k \in T
  BY <1>2, <1>4, <1>5, UpTo
<1>7. n \in T
  BY <1>2, <1>6
<1>8. Good(Select(order), f[n].gas, n)
  <2> HIDE DEF Good
  <2> QED  BY <1>1, <1>7 DEF T
<1> QED  BY <1>8

-----------------------------------------------------------------------------
(* How many sub-batches there are.                                         *)

LEMMA Greatest ==
    ASSUME NEW N \in Nat, NEW T \in SUBSET (0 .. N), T # {}
    PROVE  Max(T) \in T /\ \A y \in T : Max(T) >= y
<1> DEFINE U == {N - x : x \in T}
<1>1. U \in SUBSET Nat /\ U # {}
  <2>1. PICK t \in T : TRUE
    OBVIOUS
  <2>2. N - t \in U
    BY <2>1
  <2>3. \A x \in T : N - x \in Nat
    OBVIOUS
  <2> QED  BY <2>2, <2>3
<1>2. PICK m \in U : \A k \in U : m <= k
  <2> HIDE DEF U
  <2> QED  BY <1>1, Least
<1>3. PICK x \in T : m = N - x
  OBVIOUS
<1>4. \A y \in T : x >= y
  <2> SUFFICES ASSUME NEW y \in T PROVE x >= y
    OBVIOUS
  <2>1. m <= N - y
    BY <1>2
  <2> QED  BY <1>3, <2>1
<1> QED  BY <1>4 DEF Max

LEMMA RootType ==
    ASSUME NEW n \in Nat, n > 0
    PROVE  TwiceRoot(n) \in 0 .. 2 * n
<1> DEFINE T == {a \in 0 .. 2 * n : a * a >= 4 * n}
<1>1. (2 * n) * (2 * n) >= 4 * n
  <2>1. n * n >= n
    OBVIOUS
  <2>2. (2 * n) * (2 * n) = 4 * (n * n)
    OBVIOUS
  <2> QED  BY <2>1, <2>2
<1>2. 2 * n \in T /\ T \in SUBSET Nat
  BY <1>1
<1>3. PICK a \in T : \A k \in T : a <= k
  <2> HIDE DEF T
  <2> QED  BY <1>2, Least
<1>4. a \in 0 .. 2 * n /\ a * a >= 4 * n
  OBVIOUS
<1>5. \A b \in 0 .. a - 1 : b * b < 4 * n
  <2> SUFFICES ASSUME NEW b \in 0 .. a - 1 PROVE b * b < 4 * n
    OBVIOUS
  <2>1. b \in 0 .. 2 * n /\ b < a
    BY <1>4
  <2>2. b \notin T
    <3> HIDE DEF T
    <3> QED  BY <1>2, <1>3, <2>1
  <2>3. ~(b * b >= 4 * n)
    BY <2>1, <2>2
  <2> QED  BY <2>1, <2>3
<1> HIDE DEF T
<1> QED  BY <1>4, <1>5 DEF TwiceRoot

LEMMA CountBound ==
    ASSUME NEW n \in Nat, NEW batch, DOMAIN batch = 1 .. n, NEW p \in 1 .. n
    PROVE  Count(batch, p) \in 1 .. n
<1> DEFINE Same == {q \in 1 .. n : batch[q] = batch[p]}
<1> DEFINE D == 1 .. n
<1>1. IsFiniteSet(D) /\ Cardinality(D) = n
  BY FS_Interval
<1>2. Same \in SUBSET D /\ p \in Same
  OBVIOUS
<1>3. Count(batch, p) = Cardinality(Same)
  BY DEF Count
<1> HIDE DEF Same, D
<1>4. IsFiniteSet(Same) /\ Cardinality(Same) <= n
  BY <1>1, <1>2, FS_Subset
<1>5. Cardinality(Same) \in Nat /\ Cardinality(Same) # 0
  BY <1>2, <1>4, FS_CardinalityType, FS_EmptySet
<1> QED  BY <1>3, <1>4, <1>5

\* There are as many sub-batches as any index needs, and no more than items.
LEMMA AlphaBound ==
    ASSUME NEW n \in Nat, n > 0, NEW batch, DOMAIN batch = 1 .. n, Len(batch) = n
    PROVE  /\ Alpha(batch) \in 1 .. n
           /\ \A p \in 1 .. n : Count(batch, p) <= Alpha(batch)
<1> DEFINE T == {TwiceRoot(n)} \union {Count(batch, p) : p \in 1 .. n}
           most == Max(T)
<1>1. \A p \in 1 .. n : Count(batch, p) \in 1 .. n
  BY CountBound
<1>2. TwiceRoot(n) \in 0 .. 2 * n
  BY RootType
<1>3. T \in SUBSET (0 .. 2 * n) /\ T # {} /\ 2 * n \in Nat
  BY <1>1, <1>2
<1>4. \A p \in 1 .. n : Count(batch, p) \in T
  OBVIOUS
<1>5. Alpha(batch) = IF most > n THEN n ELSE most
  BY DEF Alpha
<1> HIDE DEF T
<1>6. most \in T /\ \A y \in T : most >= y
  BY <1>3, Greatest
<1>7. most \in 0 .. 2 * n
  BY <1>3, <1>6
<1> HIDE DEF most
<1>8. \A p \in 1 .. n : Count(batch, p) <= most
  BY <1>1, <1>4, <1>6, <1>7
<1>9. most >= 1
  <2>1. 1 \in 1 .. n
    OBVIOUS
  <2>2. Count(batch, 1) \in 1 .. n /\ Count(batch, 1) <= most
    BY <1>1, <1>8, <2>1
  <2> QED  BY <1>7, <2>2
<1>10. ASSUME NEW p \in 1 .. n PROVE Count(batch, p) <= Alpha(batch)
  BY <1>1, <1>5, <1>7, <1>8
<1> QED  BY <1>5, <1>7, <1>9, <1>10

-----------------------------------------------------------------------------
(* Where the positions go.                                                 *)

\* Of n positions, the first k of items are each in one place of one of alpha
\* sub-batches, of which the first k are not empty.
Placed(subs, items, n, alpha, k) ==
    /\ subs \in [1 .. alpha -> Seq(1 .. n)]
    /\ \A s \in 1 .. alpha : Len(subs[s]) <= k /\ (s <= k <=> Len(subs[s]) > 0)
    /\ \A s \in 1 .. alpha : \A j \in 1 .. Len(subs[s]) : \E i \in 1 .. k : subs[s][j] = items[i]
    /\ \A i \in 1 .. k : \E s \in 1 .. alpha : \E j \in 1 .. Len(subs[s]) : subs[s][j] = items[i]
    /\ \A s, t \in 1 .. alpha : \A i \in 1 .. Len(subs[s]), j \in 1 .. Len(subs[t]) :
         subs[s][i] = subs[t][j] => s = t /\ i = j

LEMMA PlacedNone ==
    ASSUME NEW n \in Nat, NEW alpha \in Nat, NEW items
    PROVE  Placed(NoSubs(alpha), items, n, alpha, 0)
<1>1. NoSubs(alpha) \in [1 .. alpha -> Seq(1 .. n)]
  BY DEF NoSubs
<1>2. \A s \in 1 .. alpha : Len(NoSubs(alpha)[s]) = 0
  BY DEF NoSubs
<1> QED  BY <1>1, <1>2 DEF Placed

\* One more.
LEMMA PlacedStep ==
    ASSUME NEW n \in Nat, NEW alpha \in Nat, NEW items \in Seq(1 .. n), Len(items) = n,
           \A i, j \in 1 .. n : i < j => items[i] # items[j],
           NEW k \in 1 .. n, NEW subs, Placed(subs, items, n, alpha, k - 1),
           NEW b \in 1 .. alpha, k <= alpha => b = k
    PROVE  Placed([subs EXCEPT ![b] = Append(@, items[k])], items, n, alpha, k)
<1> DEFINE p == items[k]
           new == [subs EXCEPT ![b] = Append(@, p)]
<1>1. p \in 1 .. n
  OBVIOUS
<1>2. /\ subs \in [1 .. alpha -> Seq(1 .. n)]
      /\ \A s \in 1 .. alpha : subs[s] \in Seq(1 .. n) /\ Len(subs[s]) \in Nat
  <2>1. subs \in [1 .. alpha -> Seq(1 .. n)]
    BY DEF Placed
  <2>2. \A s \in 1 .. alpha : subs[s] \in Seq(1 .. n)
    BY <2>1
  <2>3. \A s \in 1 .. alpha : Len(subs[s]) \in Nat
    BY <2>2
  <2> QED  BY <2>1, <2>2, <2>3
<1>3. \A s \in 1 .. alpha : Len(subs[s]) <= k - 1 /\ (s <= k - 1 <=> Len(subs[s]) > 0)
  BY DEF Placed
<1>4. \A s \in 1 .. alpha : \A j \in 1 .. Len(subs[s]) :
         \E i \in 1 .. k - 1 : subs[s][j] = items[i]
  BY DEF Placed
<1>5. \A i \in 1 .. k - 1 : \E s \in 1 .. alpha : \E j \in 1 .. Len(subs[s]) :
         subs[s][j] = items[i]
  BY DEF Placed
<1>6. \A s, t \in 1 .. alpha : \A i \in 1 .. Len(subs[s]), j \in 1 .. Len(subs[t]) :
         subs[s][i] = subs[t][j] => s = t /\ i = j
  BY DEF Placed
<1>7. b <= k
  OBVIOUS
<1>8. \A i \in 1 .. k - 1 : i \in 1 .. n /\ items[i] # p
  OBVIOUS
<1>9. p = items[k]
  OBVIOUS
<1> HIDE DEF p
<1>10. \A s \in 1 .. alpha : \A j \in 1 .. Len(subs[s]) : subs[s][j] # p
  <2> SUFFICES ASSUME NEW s \in 1 .. alpha, NEW j \in 1 .. Len(subs[s]) PROVE subs[s][j] # p
    OBVIOUS
  <2>1. PICK i \in 1 .. k - 1 : subs[s][j] = items[i]
    BY <1>4
  <2> QED  BY <1>8, <2>1
<1>11. new \in [1 .. alpha -> Seq(1 .. n)]
  BY <1>1, <1>2
<1>12. new[b] = Append(subs[b], p) /\ \A s \in 1 .. alpha : s # b => new[s] = subs[s]
  BY <1>2
<1> HIDE DEF new
<1>13. /\ Len(new[b]) = Len(subs[b]) + 1 /\ new[b][Len(subs[b]) + 1] = p
      /\ \A j \in 1 .. Len(subs[b]) : new[b][j] = subs[b][j]
  BY <1>1, <1>2, <1>12
<1>14. ASSUME NEW s \in 1 .. alpha
       PROVE  Len(new[s]) <= k /\ (s <= k <=> Len(new[s]) > 0)
  <2>1. CASE s = b
    <3>1. Len(subs[b]) \in Nat /\ Len(subs[b]) <= k - 1
      BY <1>2, <1>3
    <3>2. Len(new[s]) = Len(subs[b]) + 1
      BY <1>13, <2>1
    <3> QED  BY <1>7, <2>1, <3>1, <3>2
  <2>2. CASE s # b
    <3>1. Len(new[s]) = Len(subs[s]) /\ Len(subs[s]) \in Nat
      BY <1>2, <1>12, <2>2
    <3>2. s <= k <=> s <= k - 1
      BY <2>2
    <3> QED  BY <1>3, <3>1, <3>2
  <2> QED  BY <2>1, <2>2
<1>15. ASSUME NEW s \in 1 .. alpha, NEW j \in 1 .. Len(new[s])
       PROVE  \/ s = b /\ j = Len(subs[b]) + 1 /\ new[s][j] = p
              \/ j \in 1 .. Len(subs[s]) /\ new[s][j] = subs[s][j]
  <2>1. CASE s = b
    <3>1. Len(subs[b]) \in Nat /\ Len(new[b]) = Len(subs[b]) + 1
      BY <1>2, <1>13
    <3>2. j \in 1 .. Len(subs[b]) \/ j = Len(subs[b]) + 1
      BY <2>1, <3>1
    <3> QED  BY <1>13, <2>1, <3>2
  <2>2. CASE s # b
    BY <1>12, <2>2
  <2> QED  BY <2>1, <2>2
<1>16. ASSUME NEW s \in 1 .. alpha, NEW j \in 1 .. Len(new[s])
       PROVE  \E i \in 1 .. k : new[s][j] = items[i]
  <2>1. CASE new[s][j] = p
    <3>1. k \in 1 .. k
      OBVIOUS
    <3> QED  BY <1>9, <2>1, <3>1
  <2>2. CASE j \in 1 .. Len(subs[s]) /\ new[s][j] = subs[s][j]
    <3>1. PICK i \in 1 .. k - 1 : subs[s][j] = items[i]
      BY <1>4, <2>2
    <3>2. i \in 1 .. k
      OBVIOUS
    <3> QED  BY <2>2, <3>1, <3>2
  <2> QED  BY <1>15, <2>1, <2>2
<1>17. ASSUME NEW s \in 1 .. alpha, NEW j \in 1 .. Len(subs[s])
       PROVE  j \in 1 .. Len(new[s]) /\ new[s][j] = subs[s][j]
  <2>1. CASE s = b
    BY <1>2, <1>13, <2>1
  <2>2. CASE s # b
    BY <1>12, <2>2
  <2> QED  BY <2>1, <2>2
<1>18. ASSUME NEW i \in 1 .. k
       PROVE  \E s \in 1 .. alpha : \E j \in 1 .. Len(new[s]) : new[s][j] = items[i]
  <2>1. CASE i = k
    <3>1. Len(subs[b]) + 1 \in 1 .. Len(new[b]) /\ new[b][Len(subs[b]) + 1] = items[i]
      BY <1>2, <1>9, <1>13, <2>1
    <3> QED  BY <3>1
  <2>2. CASE i # k
    <3>1. i \in 1 .. k - 1
      BY <2>2
    <3>2. PICK s \in 1 .. alpha : \E j \in 1 .. Len(subs[s]) : subs[s][j] = items[i]
      BY <1>5, <3>1
    <3> QED  BY <1>17, <3>2
  <2> QED  BY <2>1, <2>2
<1>19. ASSUME NEW s \in 1 .. alpha, NEW t \in 1 .. alpha,
              NEW i \in 1 .. Len(new[s]), NEW j \in 1 .. Len(new[t]), new[s][i] = new[t][j]
       PROVE  s = t /\ i = j
  <2>1. \/ s = b /\ i = Len(subs[b]) + 1 /\ new[s][i] = p
        \/ i \in 1 .. Len(subs[s]) /\ new[s][i] = subs[s][i]
    BY <1>15
  <2>2. \/ t = b /\ j = Len(subs[b]) + 1 /\ new[t][j] = p
        \/ j \in 1 .. Len(subs[t]) /\ new[t][j] = subs[t][j]
    BY <1>15
  <2>3. CASE new[s][i] = p
    <3>1. s = b /\ i = Len(subs[b]) + 1
      BY <1>10, <2>1, <2>3
    <3>2. t = b /\ j = Len(subs[b]) + 1
      BY <1>10, <1>19, <2>2, <2>3
    <3> QED  BY <3>1, <3>2
  <2>4. CASE new[s][i] # p
    <3>1. i \in 1 .. Len(subs[s]) /\ j \in 1 .. Len(subs[t]) /\ subs[s][i] = subs[t][j]
      BY <1>19, <2>1, <2>2, <2>4
    <3>2. \A x \in 1 .. Len(subs[s]), y \in 1 .. Len(subs[t]) :
            subs[s][x] = subs[t][y] => s = t /\ x = y
      BY <1>6, Zenon
    <3> QED  BY <3>1, <3>2, Zenon
  <2> QED  BY <2>3, <2>4
<1>20. Placed(new, items, n, alpha, k)
  BY <1>11, <1>14, <1>16, <1>18, <1>19 DEF Placed
<1> QED  BY <1>20 DEF new, p

\* The first shortest sub-batch.
LEMMA ShortestIs ==
    ASSUME NEW free \in SUBSET Nat, free # {}, NEW subs, \A s \in free : Len(subs[s]) \in Nat
    PROVE  /\ Shortest(free, subs) \in free
           /\ \A t \in free : \/ Len(subs[Shortest(free, subs)]) < Len(subs[t])
                              \/ /\ Len(subs[Shortest(free, subs)]) = Len(subs[t])
                                 /\ Shortest(free, subs) <= t
<1> DEFINE lens == {Len(subs[s]) : s \in free}
<1>1. lens \in SUBSET Nat /\ lens # {}
  OBVIOUS
<1>2. PICK m \in lens : \A l \in lens : m <= l
  <2> HIDE DEF lens
  <2> QED  BY <1>1, Least
<1>3. m \in Nat /\ \A t \in free : m <= Len(subs[t])
  BY <1>1, <1>2
<1> DEFINE shortest == {s \in free : Len(subs[s]) = m}
<1>4. shortest \in SUBSET Nat /\ shortest # {}
  OBVIOUS
<1>5. PICK s \in shortest : \A t \in shortest : s <= t
  <2> HIDE DEF shortest
  <2> QED  BY <1>4, Least
<1> DEFINE Best(b) == \A t \in free : \/ Len(subs[b]) < Len(subs[t])
                                      \/ Len(subs[b]) = Len(subs[t]) /\ b <= t
<1>6. s \in free /\ Len(subs[s]) = m
  OBVIOUS
<1>7. Best(s)
  <2> SUFFICES ASSUME NEW t \in free, ~(Len(subs[s]) < Len(subs[t]))
               PROVE  Len(subs[s]) = Len(subs[t]) /\ s <= t
    OBVIOUS
  <2>1. Len(subs[t]) \in Nat /\ m <= Len(subs[t])
    BY <1>3
  <2>2. Len(subs[t]) = m
    BY <1>3, <1>6, <2>1
  <2>3. t \in shortest
    BY <2>2
  <2> HIDE DEF shortest
  <2> QED  BY <1>5, <1>6, <2>2, <2>3
<1>8. Shortest(free, subs) = CHOOSE b \in free : Best(b)
  BY DEF Shortest
<1> HIDE DEF Best
<1>9. Shortest(free, subs) \in free /\ Best(Shortest(free, subs))
  BY <1>6, <1>7, <1>8
<1> QED  BY <1>9 DEF Best

\* While no index is placed as often as it occurs, there is a sub-batch for it.
LEMMA FreeSome ==
    ASSUME NEW n \in Nat, NEW alpha \in Nat, NEW items \in Seq(1 .. n), Len(items) = n,
           \A i, j \in 1 .. n : i < j => items[i] # items[j],
           NEW k \in 1 .. n, NEW subs, Placed(subs, items, n, alpha, k - 1),
           NEW batch, DOMAIN batch = 1 .. n, Count(batch, items[k]) <= alpha
    PROVE  Free(batch, subs, items[k]) # {}
<1> SUFFICES ASSUME Free(batch, subs, items[k]) = {} PROVE FALSE
  OBVIOUS
<1> DEFINE p == items[k]
           D == 1 .. alpha
           Same == {q \in 1 .. n : batch[q] = batch[p]}
           In(s, q) == \E j \in 1 .. Len(subs[s]) : q = subs[s][j]
           W == [s \in D |-> CHOOSE q \in Same : In(s, q)]
<1>1. p \in 1 .. n
  OBVIOUS
<1>2. subs \in [D -> Seq(1 .. n)]
  BY DEF Placed
<1>3. \A s \in D : subs[s] \in Seq(1 .. n)
  BY <1>2
<1>4. ASSUME NEW s \in D PROVE \E q \in Same : In(s, q)
  <2>1. DOMAIN subs = D /\ DOMAIN subs[s] = 1 .. Len(subs[s])
    BY <1>2, <1>3
  <2>2. PICK j \in 1 .. Len(subs[s]) : batch[subs[s][j]] = batch[p]
    <3>1. s \notin Free(batch, subs, p)
      OBVIOUS
    <3>2. ~(\A j \in DOMAIN subs[s] : batch[subs[s][j]] # batch[p])
      BY <2>1, <3>1 DEF Free
    <3> QED  BY <2>1, <3>2
  <2>3. subs[s][j] \in 1 .. n
    <3> DEFINE sub == subs[s]
    <3>1. sub \in Seq(1 .. n) /\ j \in 1 .. Len(sub)
      BY <1>3, <2>2
    <3> HIDE DEF sub
    <3>2. sub[j] \in 1 .. n
      BY <3>1
    <3> QED  BY <3>2 DEF sub
  <2> QED  BY <2>2, <2>3
<1>5. \A i \in 1 .. k - 1 : i \in 1 .. n /\ i < k
  OBVIOUS
<1>6. \A i \in 1 .. k - 1 : items[i] # p
  BY <1>5
<1>7. \A s \in D : \A j \in 1 .. Len(subs[s]) : \E i \in 1 .. k - 1 : subs[s][j] = items[i]
  BY DEF Placed
<1>8. \A s, t \in D : \A i \in 1 .. Len(subs[s]), j \in 1 .. Len(subs[t]) :
         subs[s][i] = subs[t][j] => s = t /\ i = j
  BY DEF Placed
<1>9. \A s \in D : W[s] = CHOOSE q \in Same : In(s, q)
  OBVIOUS
<1>10. DOMAIN W = D /\ \A T : (\A s \in D : W[s] \in T) => W \in [D -> T]
  <2> DEFINE Val(s) == CHOOSE q \in Same : In(s, q)
  <2>1. W = [s \in D |-> Val(s)]
    OBVIOUS
  <2> HIDE DEF Val, W
  <2> QED  BY <2>1
<1>11. p \in Same /\ Same \in SUBSET (1 .. n)
  BY <1>1
<1>12. Count(batch, p) = Cardinality(Same)
  BY DEF Count
<1>13. ASSUME NEW s \in D, NEW q, In(s, q) PROVE q # p
  <2>1. PICK j \in 1 .. Len(subs[s]) : q = subs[s][j]
    BY <1>13
  <2>2. PICK i \in 1 .. k - 1 : subs[s][j] = items[i]
    BY <1>7, <2>1
  <2> QED  BY <1>6, <2>1, <2>2
<1>14. ASSUME NEW s \in D, NEW t \in D, NEW q, In(s, q), In(t, q) PROVE s = t
  <2>1. PICK i \in 1 .. Len(subs[s]) : q = subs[s][i]
    BY <1>14
  <2>2. PICK j \in 1 .. Len(subs[t]) : q = subs[t][j]
    BY <1>14
  <2>3. subs[s][i] = subs[t][j]
    BY <2>1, <2>2
  <2> QED  BY <1>8, <2>3, Zenon
<1>15. Cardinality(Same) <= alpha
  BY <1>12
<1>16. IsFiniteSet(D) /\ Cardinality(D) = alpha
  BY FS_Interval
<1>17. IsFiniteSet(Same)
  <2> DEFINE N == 1 .. n
  <2>1. IsFiniteSet(N) /\ Same \in SUBSET N
    BY FS_Interval
  <2> HIDE DEF N, Same
  <2> QED  BY <2>1, FS_Subset
<1> HIDE DEF p, D, Same, In, W
<1>18. \A s \in D : W[s] \in Same /\ In(s, W[s])
  BY <1>4, <1>9
<1>19. W \in [D -> Same \ {p}]
  <2>1. \A s \in D : W[s] \in Same \ {p}
    BY <1>13, <1>18
  <2> QED  BY <1>10, <2>1
<1>20. /\ IsFiniteSet(Same \ {p})
       /\ Cardinality(Same \ {p}) = Cardinality(Same) - 1
  BY <1>11, <1>17, FS_RemoveElement
<1>21. Cardinality(Same) \in Nat
  BY <1>17, FS_CardinalityType
<1>22. Cardinality(Same \ {p}) < Cardinality(D)
  BY <1>15, <1>16, <1>20, <1>21
<1>23. PICK x \in D, y \in D : x # y /\ W[x] = W[y]
  <2> DEFINE Rest == Same \ {p}
  <2>1. W \in [D -> Rest] /\ IsFiniteSet(Rest) /\ Cardinality(Rest) < Cardinality(D)
    BY <1>19, <1>20, <1>22
  <2> HIDE DEF Rest
  <2> QED  BY <1>16, <2>1, FS_PigeonHole
<1> QED  BY <1>14, <1>18, <1>23

-----------------------------------------------------------------------------
(* The two arrangements.                                                   *)

\* The k-th position goes to the next sub-batch.
Dealt(subs, items, alpha, k) == [subs EXCEPT ![((k - 1) % alpha) + 1] = Append(@, items[k])]

\* The loop of RoundRobin, position by position.
LEMMA RoundRobinRuns ==
    ASSUME NEW n \in Nat, NEW alpha \in Nat, alpha > 0, NEW items \in Seq(1 .. n), Len(items) = n
    PROVE  \E f : /\ RoundRobin(items, alpha) = f[n]
                  /\ f[0] = NoSubs(alpha)
                  /\ \A k \in 1 .. n : f[k] = Dealt(f[k - 1], items, alpha, k)
<1> DEFINE A == [1 .. alpha -> Seq(1 .. n)]
           base == NoSubs(alpha)
           Put(subs, k) == Dealt(subs, items, alpha, k)
           Run(f) == f = [k \in 0 .. n |-> IF k = 0 THEN base ELSE Put(f[k - 1], k)]
           step == [p \in A \X (1 .. n) |-> Put(p[1], p[2])]
           count == [k \in 1 .. n |-> k]
<1>1. base \in A
  BY DEF NoSubs
<1>2. \A subs \in A, k \in 1 .. n : Put(subs, k) \in A
  <2> SUFFICES ASSUME NEW subs \in A, NEW k \in 1 .. n PROVE Put(subs, k) \in A
    OBVIOUS
  <2>1. ((k - 1) % alpha) + 1 \in 1 .. alpha /\ items[k] \in 1 .. n
    OBVIOUS
  <2> QED  BY <2>1 DEF Dealt
<1>3. count \in [1 .. n -> 1 .. n] /\ \A k \in 1 .. n : count[k] = k
  OBVIOUS
<1>4. RoundRobin(items, alpha) = (CHOOSE g : Run(g))[n]
  BY DEF RoundRobin, Dealt
<1> HIDE DEF Put, A, base
<1>5. /\ step \in [A \X (1 .. n) -> A]
      /\ \A a \in A, k \in 1 .. n : step[<<a, k>>] = Put(a, k)
  BY <1>2
<1> HIDE DEF step, count
<1>6. PICK f \in [0 .. n -> A] : LoopRun(f, base, step, count, n)
  BY <1>1, <1>3, <1>5, LoopExists
<1>7. \A k \in 0 .. n : f[k] = IF k = 0 THEN base ELSE Put(f[k - 1], k)
  <2> SUFFICES ASSUME NEW k \in 0 .. n, k # 0 PROVE f[k] = Put(f[k - 1], k)
    BY <1>6 DEF LoopRun
  <2>1. f[k - 1] \in A /\ k \in 1 .. n /\ count[k] = k
    BY <1>3
  <2>2. f[k] = step[<<f[k - 1], count[k]>>]
    BY <1>6 DEF LoopRun
  <2> QED  BY <1>5, <2>1, <2>2
<1>8. Run(f)
  BY <1>7
<1>9. Run(CHOOSE g : Run(g))
  <2> HIDE DEF Run
  <2> QED  BY <1>8
<1> DEFINE F == CHOOSE g : Run(g)
<1>10. RoundRobin(items, alpha) = F[n]
  BY <1>4
<1> HIDE DEF F
<1>11. F = [k \in 0 .. n |-> IF k = 0 THEN base ELSE Put(F[k - 1], k)]
  BY <1>9 DEF F
<1>12. F[0] = base /\ \A k \in 1 .. n : F[k] = Put(F[k - 1], k)
  BY <1>11
<1> QED  BY <1>10, <1>12 DEF Put, base

\* Round robin puts every position somewhere, and the first ones apart.
LEMMA RoundRobinPlaced ==
    ASSUME NEW n \in Nat, NEW alpha \in Nat, alpha > 0, NEW items \in Seq(1 .. n), Len(items) = n,
           \A i, j \in 1 .. n : i < j => items[i] # items[j]
    PROVE  Placed(RoundRobin(items, alpha), items, n, alpha, n)
<1>1. PICK f : /\ RoundRobin(items, alpha) = f[n]
               /\ f[0] = NoSubs(alpha)
               /\ \A k \in 1 .. n : f[k] = Dealt(f[k - 1], items, alpha, k)
  BY RoundRobinRuns
<1> DEFINE T == {k \in 0 .. n : Placed(f[k], items, n, alpha, k)}
<1>2. 0 \in T
  BY <1>1, PlacedNone
<1>3. ASSUME NEW k \in 1 .. n, k - 1 \in T PROVE k \in T
  <2> DEFINE b == ((k - 1) % alpha) + 1
  <2>1. b \in 1 .. alpha /\ (k <= alpha => b = k)
    OBVIOUS
  <2>2. f[k] = [f[k - 1] EXCEPT ![b] = Append(@, items[k])]
    BY <1>1 DEF Dealt
  <2>3. Placed(f[k - 1], items, n, alpha, k - 1)
    BY <1>3
  <2> HIDE DEF b
  <2>4. Placed([f[k - 1] EXCEPT ![b] = Append(@, items[k])], items, n, alpha, k)
    BY <2>1, <2>3, PlacedStep
  <2> QED  BY <2>2, <2>4
<1> HIDE DEF T
<1>4. \A k \in 0 .. n : k \in T
  BY <1>2, <1>3, UpTo
<1>5. n \in T
  BY <1>4
<1> QED  BY <1>1, <1>5 DEF T

\* Sub-batches, or nil.
Subs(n, alpha) == [1 .. alpha -> Seq(1 .. n)] \union {<<>>}

LEMMA PlaceType ==
    ASSUME NEW n \in Nat, NEW alpha \in Nat, NEW batch, NEW subs \in Subs(n, alpha), NEW p \in 1 .. n
    PROVE  Place(batch, subs, p) \in Subs(n, alpha)
<1> DEFINE free == Free(batch, subs, p)
<1>1. CASE free = {}
  BY <1>1 DEF Place, Subs
<1>2. CASE free # {}
  <2>1. free \subseteq DOMAIN subs
    BY DEF Free
  <2>2. DOMAIN subs # {}
    BY <1>2, <2>1
  <2>3. subs \in [1 .. alpha -> Seq(1 .. n)]
    <3>1. DOMAIN <<>> = {}
      OBVIOUS
    <3> QED  BY <2>2, <3>1 DEF Subs
  <2> HIDE DEF free
  <2>4. \A s \in free : s \in 1 .. alpha
    BY <2>1, <2>3
  <2>5. \A s \in free : subs[s] \in Seq(1 .. n)
    BY <2>3, <2>4
  <2>6. free \in SUBSET Nat /\ \A s \in free : Len(subs[s]) \in Nat
    BY <2>4, <2>5
  <2>7. Shortest(free, subs) \in free
    BY <1>2, <2>6, ShortestIs
  <2>8. PICK b \in 1 .. alpha : b = Shortest(free, subs)
    BY <2>4, <2>7
  <2>9. Place(batch, subs, p) = [subs EXCEPT ![b] = Append(@, p)]
    BY <1>2, <2>8 DEF Place, free
  <2>10. [subs EXCEPT ![b] = Append(@, p)] \in [1 .. alpha -> Seq(1 .. n)]
    BY <2>3
  <2> QED  BY <2>9, <2>10 DEF Subs
<1> QED  BY <1>1, <1>2

PlaceRun(f, batch, items, alpha, n) ==
    f[0] = NoSubs(alpha) /\ \A k \in 1 .. n : f[k] = Place(batch, f[k - 1], items[k])

\* The loop of arrangeCollisionFree, position by position.
LEMMA CollisionFreeRuns ==
    ASSUME NEW n \in Nat, NEW alpha \in Nat, NEW items \in Seq(1 .. n), Len(items) = n, NEW batch
    PROVE  \E f : arrangeCollisionFree(batch, items, alpha) = f[n] /\ PlaceRun(f, batch, items, alpha, n)
<1> DEFINE A == Subs(n, alpha)
           I == 1 .. n
           base == NoSubs(alpha)
           Run(f) == f = [k \in 0 .. n |-> IF k = 0 THEN base ELSE Place(batch, f[k - 1], items[k])]
           step == [p \in A \X I |-> Place(batch, p[1], p[2])]
<1>1. base \in A /\ items \in [1 .. n -> I]
  BY DEF NoSubs, Subs
<1>2. \A k \in 1 .. n : items[k] \in I
  OBVIOUS
<1>3. \A a \in A, p \in I : Place(batch, a, p) \in A
  BY PlaceType
<1>4. arrangeCollisionFree(batch, items, alpha) = (CHOOSE g : Run(g))[n]
  BY DEF arrangeCollisionFree
<1> HIDE DEF A, I, base
<1>5. step \in [A \X I -> A] /\ \A a \in A, p \in I : step[<<a, p>>] = Place(batch, a, p)
  BY <1>3
<1> HIDE DEF step
<1>6. PICK f \in [0 .. n -> A] : LoopRun(f, base, step, items, n)
  BY <1>1, <1>5, LoopExists
<1>7. \A k \in 0 .. n : f[k] = IF k = 0 THEN base ELSE Place(batch, f[k - 1], items[k])
  <2> SUFFICES ASSUME NEW k \in 0 .. n, k # 0 PROVE f[k] = Place(batch, f[k - 1], items[k])
    BY <1>6 DEF LoopRun
  <2>1. f[k - 1] \in A /\ items[k] \in I
    BY <1>2
  <2>2. f[k] = step[<<f[k - 1], items[k]>>]
    BY <1>6 DEF LoopRun
  <2> QED  BY <1>5, <2>1, <2>2
<1>8. Run(f)
  BY <1>7
<1>9. Run(CHOOSE g : Run(g))
  <2> HIDE DEF Run
  <2> QED  BY <1>8
<1> DEFINE F == CHOOSE g : Run(g)
<1>10. arrangeCollisionFree(batch, items, alpha) = F[n]
  BY <1>4
<1> HIDE DEF F
<1>11. F = [k \in 0 .. n |-> IF k = 0 THEN base ELSE Place(batch, F[k - 1], items[k])]
  BY <1>9 DEF F
<1>12. F[0] = base /\ \A k \in 1 .. n : F[k] = Place(batch, F[k - 1], items[k])
  BY <1>11
<1> QED  BY <1>10, <1>12 DEF base, PlaceRun

\* The search finds a sub-batch for every position, and no index comes twice.
LEMMA CollisionFreePlaced ==
    ASSUME NEW n \in Nat, NEW alpha \in Nat, NEW items \in Seq(1 .. n), Len(items) = n,
           \A i, j \in 1 .. n : i < j => items[i] # items[j],
           NEW batch, DOMAIN batch = 1 .. n, \A p \in 1 .. n : Count(batch, p) <= alpha
    PROVE  /\ Placed(arrangeCollisionFree(batch, items, alpha), items, n, alpha, n)
           /\ NoCollision(batch, arrangeCollisionFree(batch, items, alpha))
<1>1. PICK f : /\ arrangeCollisionFree(batch, items, alpha) = f[n]
               /\ f[0] = NoSubs(alpha)
               /\ \A k \in 1 .. n : f[k] = Place(batch, f[k - 1], items[k])
  <2>1. PICK f : arrangeCollisionFree(batch, items, alpha) = f[n] /\ PlaceRun(f, batch, items, alpha, n)
    BY CollisionFreeRuns
  <2> QED  BY <2>1 DEF PlaceRun
<1> DEFINE T == {k \in 0 .. n : Placed(f[k], items, n, alpha, k) /\ NoCollision(batch, f[k])}
<1>2. 0 \in T
  <2>1. Placed(f[0], items, n, alpha, 0)
    BY <1>1, PlacedNone
  <2>2. \A s \in DOMAIN NoSubs(alpha) : NoSubs(alpha)[s] = <<>>
    BY DEF NoSubs
  <2>3. NoCollision(batch, NoSubs(alpha))
    BY <2>2 DEF NoCollision, IsInjective
  <2> QED  BY <1>1, <2>1, <2>3
<1>3. ASSUME NEW k \in 1 .. n, k - 1 \in T PROVE k \in T
  <2> DEFINE subs == f[k - 1]
             p == items[k]
             free == Free(batch, subs, p)
             b == Shortest(free, subs)
  <2>1. Placed(subs, items, n, alpha, k - 1) /\ NoCollision(batch, subs) /\ p \in 1 .. n
    BY <1>3
  <2>2. free # {}
    BY <2>1, FreeSome
  <2>3. f[k] = [subs EXCEPT ![b] = Append(@, p)]
    BY <1>1, <2>2 DEF Place
  <2> HIDE DEF subs, p
  <2>4. subs \in [1 .. alpha -> Seq(1 .. n)]
    BY <2>1 DEF Placed
  <2>5. \A s \in 1 .. alpha : subs[s] \in Seq(1 .. n)
    BY <2>4
  <2>6. \A s \in 1 .. alpha : Len(subs[s]) \in Nat /\ DOMAIN subs[s] = 1 .. Len(subs[s])
    BY <2>5
  <2>7. free \subseteq 1 .. alpha
    BY <2>4 DEF Free
  <2>8. \A s \in free : \A j \in 1 .. Len(subs[s]) : batch[subs[s][j]] # batch[p]
    BY <2>6, <2>7 DEF Free
  <2>9. \A s \in 1 .. alpha : Len(subs[s]) = 0 => s \in free
    BY <2>4, <2>6 DEF Free
  <2> HIDE DEF free
  <2>10. free \in SUBSET Nat /\ \A s \in free : Len(subs[s]) \in Nat
    BY <2>6, <2>7
  <2>11. /\ b \in free
         /\ \A t \in free : \/ Len(subs[b]) < Len(subs[t])
                            \/ Len(subs[b]) = Len(subs[t]) /\ b <= t
    BY <2>2, <2>10, ShortestIs
  <2> HIDE DEF b
  <2>12. b \in 1 .. alpha
    BY <2>7, <2>11
  <2>13. \A s \in 1 .. alpha : s <= k - 1 <=> Len(subs[s]) > 0
    BY <2>1 DEF Placed
  <2>14. ASSUME k <= alpha PROVE b = k
    <3>1. k \in 1 .. alpha
      BY <2>14
    <3>2. Len(subs[k]) = 0
      BY <2>6, <2>13, <3>1
    <3>3. Len(subs[b]) = 0 /\ b <= k
      <4>1. k \in free /\ Len(subs[b]) \in Nat
        BY <2>6, <2>9, <2>12, <3>1, <3>2
      <4> QED  BY <2>11, <3>2, <4>1
    <3>4. ~(b <= k - 1)
      BY <2>12, <2>13, <3>3
    <3> QED  BY <2>12, <3>3, <3>4
  <2>15. Placed(f[k], items, n, alpha, k)
    <3>1. Placed([subs EXCEPT ![b] = Append(@, items[k])], items, n, alpha, k)
      BY <2>1, <2>12, <2>14, PlacedStep
    <3> QED  BY <2>3, <3>1 DEF p
  <2>16. /\ DOMAIN f[k] = 1 .. alpha
         /\ f[k][b] = Append(subs[b], p)
         /\ \A s \in 1 .. alpha : s # b => f[k][s] = subs[s]
    BY <2>3, <2>4, <2>12
  <2>17. ASSUME NEW s \in 1 .. alpha
         PROVE  IsInjective([j \in DOMAIN f[k][s] |-> batch[f[k][s][j]]])
    <3>1. IsInjective([j \in DOMAIN subs[s] |-> batch[subs[s][j]]])
      BY <2>1, <2>4 DEF NoCollision
    <3>2. \A i, j \in 1 .. Len(subs[s]) : batch[subs[s][i]] = batch[subs[s][j]] => i = j
      BY <2>6, <3>1 DEF IsInjective
    <3>3. CASE s # b
      BY <2>16, <3>1, <3>3
    <3>4. CASE s = b
      <4> DEFINE new == f[k][s]
                 l == Len(subs[s])
      <4>1. l \in Nat /\ subs[s] \in Seq(1 .. n) /\ new = Append(subs[s], p)
        BY <2>5, <2>6, <2>16, <3>4
      <4> HIDE DEF new
      <4>2. /\ DOMAIN new = 1 .. l + 1 /\ new[l + 1] = p
            /\ \A j \in 1 .. l : new[j] = subs[s][j]
        BY <2>1, <4>1
      <4>3. \A j \in 1 .. l : batch[new[j]] # batch[p]
        <5>1. \A j \in 1 .. l : batch[subs[s][j]] # batch[p]
          BY <2>8, <2>11, <3>4
        <5> HIDE DEF l
        <5> QED  BY <4>2, <5>1, Zenon
      <4>4. \A i, j \in 1 .. l : batch[new[i]] = batch[new[j]] => i = j
        BY <3>2, <4>2
      <4> HIDE DEF l
      <4>5. ASSUME NEW i \in 1 .. l + 1, NEW j \in 1 .. l + 1, batch[new[i]] = batch[new[j]]
            PROVE  i = j
        <5>1. (i \in 1 .. l \/ i = l + 1) /\ (j \in 1 .. l \/ j = l + 1)
          BY <4>1
        <5> QED  BY <4>2, <4>3, <4>4, <4>5, <5>1
      <4>6. IsInjective([j \in DOMAIN new |-> batch[new[j]]])
        BY <4>2, <4>5 DEF IsInjective
      <4> QED  BY <4>6 DEF new
    <3> QED  BY <3>3, <3>4
  <2>18. NoCollision(batch, f[k])
    BY <2>16, <2>17 DEF NoCollision
  <2> QED  BY <2>15, <2>18
<1> HIDE DEF T
<1>4. \A k \in 0 .. n : k \in T
  BY <1>2, <1>3, UpTo
<1>5. n \in T
  BY <1>4
<1> QED  BY <1>1, <1>5 DEF T

\* Whatever is sorted is arranged, without a collision.
LEMMA Arrangement ==
    ASSUME NEW n \in Nat, n > 0, NEW batch, DOMAIN batch = 1 .. n, Len(batch) = n,
           NEW items \in ByCount(batch)
    PROVE  LET plan == arrangeBatch(batch, items)
               alpha == Alpha(batch)
           IN  /\ alpha \in 1 .. n
               /\ Placed(plan, items, n, alpha, n)
               /\ NoCollision(batch, plan)
               /\ \A p \in 1 .. n : \E i \in 1 .. n : items[i] = p
<1> DEFINE alpha == Alpha(batch)
           D == 1 .. n
           less == {p \in D \X D : Oftener(batch, p[1], p[2])}
<1>1. alpha \in 1 .. n /\ \A p \in 1 .. n : Count(batch, p) <= alpha
  BY AlphaBound
<1>2. IsFiniteSet(D) /\ Cardinality(D) = n
  BY FS_Interval
<1>3. items \in Orders(D, less)
  BY DEF ByCount
<1> HIDE DEF less, D
<1>4. /\ items \in Seq(D) /\ Len(items) = n
      /\ \A i, j \in 1 .. n : i < j => items[i] # items[j]
      /\ \A c \in D : \E i \in 1 .. n : items[i] = c
  <2>1. /\ items \in Seq(D) /\ Len(items) = Cardinality(D)
        /\ \A i, j \in 1 .. Len(items) :
             i < j => items[i] # items[j] /\ <<items[j], items[i]>> \notin less
        /\ \A c \in D : \E i \in 1 .. Len(items) : items[i] = c
    BY <1>2, <1>3, OrdersSorted
  <2>2. Len(items) = n
    BY <1>2, <2>1
  <2> QED  BY <2>1, <2>2
<1> DEFINE first == RoundRobin(items, alpha)
           second == arrangeCollisionFree(batch, items, alpha)
<1>5. items \in Seq(1 .. n) /\ alpha \in Nat /\ alpha > 0
  <2>1. items \in Seq(1 .. n)
    BY <1>4 DEF D
  <2> HIDE DEF alpha
  <2> QED  BY <1>1, <2>1
<1>6. arrangeBatch(batch, items) = IF NoCollision(batch, first) THEN first
                                   ELSE IF NoCollision(batch, second) THEN second ELSE <<>>
  BY DEF arrangeBatch
<1> HIDE DEF alpha
<1>7. Placed(first, items, n, alpha, n)
  <2>1. \A i, j \in 1 .. n : i < j => items[i] # items[j]
    BY <1>4
  <2> QED  BY <1>4, <1>5, <2>1, RoundRobinPlaced, Zenon
<1>8. Placed(second, items, n, alpha, n) /\ NoCollision(batch, second)
  <2>1. \A i, j \in 1 .. n : i < j => items[i] # items[j]
    BY <1>4
  <2> QED  BY <1>1, <1>4, <1>5, <2>1, CollisionFreePlaced, Zenon
<1> HIDE DEF first, second
<1>9. arrangeBatch(batch, items) \in {first, second} /\ NoCollision(batch, arrangeBatch(batch, items))
  BY <1>6, <1>8
<1>10. Placed(arrangeBatch(batch, items), items, n, alpha, n)
  BY <1>7, <1>8, <1>9
<1> QED  BY <1>1, <1>4, <1>9, <1>10 DEF alpha, D

-----------------------------------------------------------------------------
(* What a node makes of the accepted lists.                                *)

AcceptedOK ==
    accepted # None =>
        /\ Len(accepted) \in Nat
        /\ \A i \in 1 .. Len(accepted) : accepted[i].list.items \in Seq(Item)

Outcomes ==
    IF Decodes(accepted)
    THEN UNION {Planned(Select(order)) : order \in sortCandidates(Candidates(accepted))}
    ELSE {Failed("decode")}

MergeInv ==
    /\ AcceptedOK
    /\ DOMAIN outcome = Node
    /\ \A n \in Node : outcome[n] # None => accepted # None /\ outcome[n] \in Outcomes

\* What is planned is what was selected.
LEMMA PlannedItems ==
    ASSUME NEW items, NEW o \in Planned(items), o.status = "planned"
    PROVE  o.items = items
BY DEF Planned, Arranged, Failed

LEMMA IndexesOf ==
    ASSUME NEW items \in Seq(Item)
    PROVE  /\ Len(items) \in Nat /\ DOMAIN items = 1 .. Len(items)
           /\ DOMAIN Indexes(items) = 1 .. Len(items)
           /\ Len(Indexes(items)) = Len(items)
BY DEF Indexes

\* Ties between positions are broken too, and the rest leaves no choice.
LEMMA PlannedOne ==
    ASSUME NEW items \in Seq(Item)
    PROVE  \A o, q \in Planned(items) : o = q
<1> DEFINE batch == Indexes(items)
           n == Len(items)
           D == 1 .. n
           less == {p \in D \X D : Oftener(batch, p[1], p[2])}
<1>1. n \in Nat /\ DOMAIN batch = D
  BY IndexesOf
<1>2. IsFiniteSet(D)
  BY <1>1, FS_Interval
<1>3. ByCount(batch) = Orders(D, less)
  BY <1>1 DEF ByCount
<1>4. \A p, q \in D : p # q => <<p, q>> \in less \/ <<q, p>> \in less
  <2> SUFFICES ASSUME NEW p \in D, NEW q \in D, p # q
               PROVE  Oftener(batch, p, q) \/ Oftener(batch, q, p)
    OBVIOUS
  <2> HIDE DEF batch
  <2>1. Count(batch, p) \in 1 .. n /\ Count(batch, q) \in 1 .. n
    BY <1>1, CountBound
  <2> QED  BY <2>1 DEF Oftener
<1> HIDE DEF less, D
<1>5. \A s, t \in Orders(D, less) : s = t
  BY <1>2, <1>4, OrdersUnique
<1> HIDE DEF batch
<1>6. \A s, t \in ByCount(batch) : s = t
  BY <1>3, <1>5
<1> QED  BY <1>6 DEF Planned, batch

\* The ordering of the candidates is strict and total.
LEMMA CandidatesOrdered ==
    ASSUME NEW batches, Len(batches) \in Nat,
           \A i \in 1 .. Len(batches) : batches[i].list.items \in Seq(Item)
    PROVE  /\ IsFiniteSet(Candidates(batches))
           /\ \A c \in Candidates(batches) :
                /\ c \in Item /\ c.ct = c.hash
                /\ \E d \in OfferedIn(batches) : Normal(d) /\ c = Normalized(d)
           /\ \A c, d \in Candidates(batches) :
                c # d => c.ct # d.ct /\ (Before(c, d) \/ Before(d, c))
           /\ \A c, d \in Candidates(batches) : ~(Before(c, d) /\ Before(d, c))
           /\ \A d \in OfferedIn(batches) :
                Normal(d) => \E c \in Candidates(batches) : c.ct = d.ct
<1>1. PICK acc : acc.unique = Candidates(batches) /\ Collected(acc, OfferedIn(batches))
  BY CandidatesResult
<1> DEFINE S == Candidates(batches)
<1>2. IsFiniteSet(S) /\ S \subseteq Item /\ \A c, d \in S : c.hash = d.hash => c = d
  BY <1>1 DEF Collected, Acc
<1>3. \A c \in S : \E d \in OfferedIn(batches) : Normal(d) /\ c = Normalized(d)
  BY <1>1 DEF Collected
<1>4. OfferedIn(batches) \subseteq Item
  BY DEF OfferedIn, ToSet
<1>5. \A d \in OfferedIn(batches) : Normal(d) => \E c \in S : c.ct = d.ct
  BY <1>1 DEF Collected
<1> HIDE DEF S
<1>6. ASSUME NEW c \in S PROVE c.ct = c.hash /\ c.hash \in Nat
  <2>1. PICK o \in OfferedIn(batches) : Normal(o) /\ c = Normalized(o)
    BY <1>3
  <2>2. o \in Item /\ c.hash = o.ct /\ c.ct = o.ct
    BY <1>4, <2>1, NormalizedItem
  <2>3. o.ct \in Ciphertext
    BY <2>1, <2>2 DEF Normal, Item
  <2> QED  BY <2>2, <2>3, IndexAssumption
<1>7. \A c \in S : c.fee \in Int /\ c.from \in Nat /\ c.nonce \in Nat
  BY <1>2 DEF Item
<1>8. ASSUME NEW c \in S, NEW d \in S, c # d
      PROVE  c.ct # d.ct /\ (Before(c, d) \/ Before(d, c))
  <2>1. c.hash # d.hash
    BY <1>2, <1>8
  <2> QED  BY <1>6, <1>7, <2>1 DEF Before
<1>9. \A c, d \in S : ~(Before(c, d) /\ Before(d, c))
  BY <1>6, <1>7 DEF Before
<1> QED  BY <1>2, <1>3, <1>5, <1>6, <1>8, <1>9 DEF S

\* Hash breaks every tie of sortCandidates, so that the order in which a map
\* returns the candidates does not matter (merge.go:73-78).
LEMMA OneOrder ==
    ASSUME NEW batches, Len(batches) \in Nat,
           \A i \in 1 .. Len(batches) : batches[i].list.items \in Seq(Item)
    PROVE  \A s, t \in sortCandidates(Candidates(batches)) : s = t
<1> DEFINE S == Candidates(batches)
           less == {p \in S \X S : Before(p[1], p[2])}
<1>1. IsFiniteSet(S) /\ \A c, d \in S : c # d => Before(c, d) \/ Before(d, c)
  BY CandidatesOrdered
<1>2. sortCandidates(S) = Orders(S, less)
  BY DEF sortCandidates
<1> HIDE DEF S
<1>3. \A c, d \in S : c # d => <<c, d>> \in less \/ <<d, c>> \in less
  BY <1>1
<1> HIDE DEF less
<1>4. \A s, t \in Orders(S, less) : s = t
  BY <1>1, <1>3, OrdersUnique
<1> QED  BY <1>2, <1>4 DEF S

\* Every candidate is in its place.
LEMMA SortedCandidates ==
    ASSUME NEW batches, Len(batches) \in Nat,
           \A i \in 1 .. Len(batches) : batches[i].list.items \in Seq(Item),
           NEW order \in sortCandidates(Candidates(batches))
    PROVE  /\ order \in Seq(Item)
           /\ \A i \in 1 .. Len(order) : order[i] \in Candidates(batches)
           /\ \A c \in Candidates(batches) : \E i \in 1 .. Len(order) : order[i] = c
           /\ \A i, j \in 1 .. Len(order) :
                i < j => Before(order[i], order[j]) /\ ~Before(order[j], order[i])
<1> DEFINE S == Candidates(batches)
           less == {p \in S \X S : Before(p[1], p[2])}
<1>1. /\ IsFiniteSet(S) /\ S \subseteq Item
      /\ \A c, d \in S : c # d => Before(c, d) \/ Before(d, c)
  BY CandidatesOrdered
<1>2. order \in Orders(S, less)
  BY DEF sortCandidates
<1> HIDE DEF S
<1>3. \A c, d \in S : <<c, d>> \in less <=> Before(c, d)
  OBVIOUS
<1> HIDE DEF less
<1>4. /\ order \in Seq(S)
      /\ \A i, j \in 1 .. Len(order) : i < j => order[i] # order[j] /\ <<order[j], order[i]>> \notin less
      /\ \A c \in S : \E i \in 1 .. Len(order) : order[i] = c
  BY <1>1, <1>2, OrdersSorted
<1>5. \A i \in 1 .. Len(order) : order[i] \in S
  BY <1>4
<1>6. order \in Seq(Item)
  BY <1>1, <1>4
<1>7. ASSUME NEW i \in 1 .. Len(order), NEW j \in 1 .. Len(order), i < j
      PROVE  Before(order[i], order[j]) /\ ~Before(order[j], order[i])
  BY <1>1, <1>3, <1>4, <1>5, <1>7
<1> QED  BY <1>4, <1>5, <1>6, <1>7 DEF S

\* The items that precede one with room for m before it are m.
LEMMA CrowdedCount ==
    ASSUME NEW items \in Seq(Item), NEW c, NEW m \in 0 .. Len(items), Crowded(items, c, m)
    PROVE  Cardinality({i \in DOMAIN items : Before(items[i], c)}) = m
<1>1. {i \in DOMAIN items : Before(items[i], c)} = 1 .. m
  <2>1. DOMAIN items = 1 .. Len(items) /\ Len(items) \in Nat /\ m \in Nat /\ m <= Len(items)
    OBVIOUS
  <2>2. \A i \in 1 .. Len(items) : i \in 1 .. m \/ i \in m + 1 .. Len(items)
    BY <2>1
  <2>3. 1 .. m \subseteq 1 .. Len(items)
    BY <2>1
  <2> QED  BY <2>1, <2>2, <2>3 DEF Crowded
<1>2. Cardinality(1 .. m) = m
  BY FS_Interval
<1> QED  BY <1>1, <1>2

\* What a plan selects is what Merge promises.
LEMMA CorrectHolds == MergeInv => MergeCorrect
<1> SUFFICES ASSUME MergeInv, NEW n \in Node, outcome[n] # None, outcome[n].status = "planned"
             PROVE  LET items == outcome[n].items
                    IN  /\ IsInjective([i \in DOMAIN items |-> items[i].ct])
                        /\ Len(items) <= EffectiveMaxDecryptedTxs
                        /\ MaxDecryptedGas > 0 => GasOf(items, Len(items)) <= MaxDecryptedGas
                        /\ \A i \in 1 .. Len(items) - 1 : Before(items[i], items[i + 1])
                        /\ \A c \in Offered :
                             \/ \E i \in DOMAIN items : items[i].ct = c.ct
                             \/ Len(items) = EffectiveMaxDecryptedTxs
                             \/ MaxDecryptedGas > 0 /\
                                \E d \in Offered :
                                   /\ d.ct = c.ct
                                   /\ LET k == Cardinality({i \in DOMAIN items :
                                                  Before(items[i], [d EXCEPT !.hash = d.ct])})
                                      IN  GasOf(items, k) + d.gas > MaxDecryptedGas
  BY DEF MergeCorrect
<1> DEFINE S == Candidates(accepted)
           items == outcome[n].items
<1>1. accepted # None /\ outcome[n] \in Outcomes
  BY DEF MergeInv
<1>2. Len(accepted) \in Nat /\ \A i \in 1 .. Len(accepted) : accepted[i].list.items \in Seq(Item)
  BY <1>1 DEF MergeInv, AcceptedOK
<1>3. PICK order \in sortCandidates(S) : outcome[n] \in Planned(Select(order))
  BY <1>1 DEF Outcomes, Failed
<1>4. items = Select(order)
  BY <1>3, PlannedItems
<1> HIDE DEF items
<1>5. /\ order \in Seq(Item)
      /\ \A i \in 1 .. Len(order) : order[i] \in S
      /\ \A c \in S : \E i \in 1 .. Len(order) : order[i] = c
      /\ \A i, j \in 1 .. Len(order) :
           i < j => Before(order[i], order[j]) /\ ~Before(order[j], order[i])
  BY <1>2, SortedCandidates
<1>6. /\ items \in Seq(Item)
      /\ \A i \in 1 .. Len(items) : \E j \in 1 .. Len(order) : items[i] = order[j]
      /\ \A i, j \in 1 .. Len(items) : i < j => Before(items[i], items[j])
      /\ Len(items) <= EffectiveMaxDecryptedTxs
      /\ MaxDecryptedGas > 0 => GasOf(items, Len(items)) <= MaxDecryptedGas
      /\ \A j \in 1 .. Len(order) : Settled(items, order[j])
  <2>1. \A i, j \in 1 .. Len(order) :
           i < j => Before(order[i], order[j]) /\ ~Before(order[j], order[i])
    BY <1>5
  <2>2. /\ Select(order) \in Seq(Item)
        /\ \A i \in 1 .. Len(Select(order)) : \E j \in 1 .. Len(order) : Select(order)[i] = order[j]
        /\ \A i, j \in 1 .. Len(Select(order)) : i < j => Before(Select(order)[i], Select(order)[j])
        /\ Len(Select(order)) <= EffectiveMaxDecryptedTxs
        /\ MaxDecryptedGas > 0 => GasOf(Select(order), Len(Select(order))) <= MaxDecryptedGas
        /\ \A j \in 1 .. Len(order) : Settled(Select(order), order[j])
    BY <1>5, <2>1, SelectResult, Zenon
  <2> QED  BY <1>4, <2>2, Zenon
<1>7. /\ \A c \in S : c \in Item /\ c.ct = c.hash
                      /\ \E d \in OfferedIn(accepted) : Normal(d) /\ c = Normalized(d)
      /\ \A c, d \in S : c # d => c.ct # d.ct
      /\ \A c, d \in S : ~(Before(c, d) /\ Before(d, c))
      /\ \A d \in OfferedIn(accepted) : Normal(d) => \E c \in S : c.ct = d.ct
  BY <1>2, CandidatesOrdered
<1>8. Offered = {d \in OfferedIn(accepted) : Normal(d)}
  BY DEF Offered, OfferedIn
<1> HIDE DEF S
<1>9. DOMAIN items = 1 .. Len(items) /\ Len(items) \in Nat
  BY <1>6
<1>10. \A i \in 1 .. Len(items) : items[i] \in S
  BY <1>5, <1>6
<1>11. IsInjective([i \in DOMAIN items |-> items[i].ct])
  <2>1. ASSUME NEW i \in 1 .. Len(items), NEW j \in 1 .. Len(items), i # j
        PROVE  items[i].ct # items[j].ct
    <3>1. i < j \/ j < i
      BY <1>9, <2>1
    <3>2. Before(items[i], items[j]) \/ Before(items[j], items[i])
      BY <1>6, <3>1
    <3>3. items[i] # items[j]
      BY <1>7, <1>10, <3>2
    <3> QED  BY <1>7, <1>10, <3>3
  <2> QED  BY <1>9, <2>1 DEF IsInjective
<1>12. \A i \in 1 .. Len(items) - 1 : Before(items[i], items[i + 1])
  <2> SUFFICES ASSUME NEW i \in 1 .. Len(items) - 1 PROVE Before(items[i], items[i + 1])
    OBVIOUS
  <2>1. i \in 1 .. Len(items) /\ i + 1 \in 1 .. Len(items) /\ i < i + 1
    BY <1>9
  <2> QED  BY <1>6, <2>1
<1>13. ASSUME NEW c \in Offered
       PROVE  \/ \E i \in DOMAIN items : items[i].ct = c.ct
              \/ Len(items) = EffectiveMaxDecryptedTxs
              \/ MaxDecryptedGas > 0 /\
                 \E d \in Offered :
                    /\ d.ct = c.ct
                    /\ LET k == Cardinality({i \in DOMAIN items :
                                   Before(items[i], [d EXCEPT !.hash = d.ct])})
                       IN  GasOf(items, k) + d.gas > MaxDecryptedGas
  <2>1. PICK u \in S : u.ct = c.ct
    BY <1>7, <1>8
  <2>2. PICK d \in OfferedIn(accepted) : Normal(d) /\ u = Normalized(d)
    BY <1>7
  <2>3. d \in Offered /\ d \in Item
    <3>1. OfferedIn(accepted) \subseteq Item
      BY <1>2 DEF OfferedIn, ToSet
    <3> QED  BY <1>8, <2>2, <3>1
  <2>4. d.ct = c.ct /\ u = [d EXCEPT !.hash = d.ct] /\ u.gas = d.gas
    BY <2>1, <2>2, <2>3, NormalizedItem DEF Normalized, Item
  <2>5. PICK j \in 1 .. Len(order) : order[j] = u
    BY <1>5
  <2>6. Settled(items, u)
    BY <1>6, <2>5
  <2>7. CASE \E i \in 1 .. Len(items) : items[i] = u
    BY <1>9, <2>1, <2>7
  <2>8. CASE Len(items) >= EffectiveMaxDecryptedTxs
    <3>1. EffectiveMaxDecryptedTxs \in Nat
      BY BMaxAssumption, MergeAssumption DEF EffectiveMaxDecryptedTxs
    <3> QED  BY <1>6, <1>9, <2>8, <3>1
  <2>9. CASE MaxDecryptedGas > 0 /\ \E m \in 0 .. Len(items) : Crowded(items, u, m)
    <3>1. PICK m \in 0 .. Len(items) : Crowded(items, u, m)
      BY <2>9
    <3>2. Cardinality({i \in DOMAIN items : Before(items[i], u)}) = m
      BY <1>6, <3>1, CrowdedCount
    <3>3. GasOf(items, m) + d.gas > MaxDecryptedGas
      BY <2>4, <3>1 DEF Crowded
    <3> QED  BY <2>3, <2>4, <2>9, <3>2, <3>3
  <2> QED  BY <2>6, <2>7, <2>8, <2>9 DEF Settled
<1> QED  BY <1>6, <1>11, <1>12, <1>13 DEF items

\* A plan is found for what can be decoded, and has everything in one place.
LEMMA SoundHolds == MergeInv => PlanSound
<1> SUFFICES ASSUME MergeInv, NEW m \in Node, outcome[m] # None
             PROVE  /\ outcome[m].status # "planning"
                    /\ outcome[m].status = "planned" =>
                         LET items == outcome[m].items
                             plan == outcome[m].plan
                             where == {w \in (DOMAIN plan) \X (DOMAIN items) :
                                         w[2] \in DOMAIN plan[w[1]]}
                         IN  /\ \A s \in DOMAIN plan : plan[s] # <<>>
                             /\ NoCollision(Indexes(items), plan)
                             /\ \A p \in DOMAIN items :
                                  Cardinality({w \in where : plan[w[1]][w[2]] = p}) = 1
  BY DEF PlanSound
<1>1. accepted # None /\ outcome[m] \in Outcomes
  BY DEF MergeInv
<1>2. CASE outcome[m] \in {Failed("decode"), Failed("empty")}
  BY <1>2 DEF Failed
<1>3. CASE outcome[m] \notin {Failed("decode"), Failed("empty")}
  <2>1. PICK order \in sortCandidates(Candidates(accepted)) : outcome[m] \in Planned(Select(order))
    BY <1>1, <1>3 DEF Outcomes
  <2> DEFINE items == Select(order)
             batch == Indexes(items)
             n == Len(items)
             alpha == Alpha(batch)
  <2>2. items \in Seq(Item)
    <3>1. /\ order \in Seq(Item)
          /\ \A i, j \in 1 .. Len(order) :
               i < j => Before(order[i], order[j]) /\ ~Before(order[j], order[i])
      BY <1>1, SortedCandidates DEF MergeInv, AcceptedOK
    <3> QED  BY <3>1, SelectResult
  <2>3. items # <<>> /\ outcome[m] \in {Arranged(items, arrangeBatch(batch, sorted)) :
                                           sorted \in ByCount(batch)}
    BY <1>3, <2>1 DEF Planned
  <2> HIDE DEF items
  <2>4. n \in Nat /\ DOMAIN items = 1 .. n /\ DOMAIN batch = 1 .. n /\ Len(batch) = n
    BY <2>2, IndexesOf
  <2>5. n > 0
    BY <2>2, <2>3
  <2> HIDE DEF batch, n
  <2>6. PICK sorted \in ByCount(batch) : outcome[m] = Arranged(items, arrangeBatch(batch, sorted))
    BY <2>3
  <2> DEFINE plan == arrangeBatch(batch, sorted)
  <2>7. /\ alpha \in 1 .. n
        /\ Placed(plan, sorted, n, alpha, n)
        /\ NoCollision(batch, plan)
        /\ \A p \in 1 .. n : \E i \in 1 .. n : sorted[i] = p
    BY <2>4, <2>5, Arrangement
  <2> HIDE DEF plan, alpha
  <2>8. plan \in [1 .. alpha -> Seq(1 .. n)]
    BY <2>7 DEF Placed
  <2>9. DOMAIN plan = 1 .. alpha /\ \A s \in 1 .. alpha : plan[s] \in Seq(1 .. n)
    BY <2>8
  <2>10. \A s \in 1 .. alpha : Len(plan[s]) \in Nat /\ DOMAIN plan[s] = 1 .. Len(plan[s])
    BY <2>9
  <2>11. plan # <<>>
    <3>1. DOMAIN <<>> = {} /\ 1 \in 1 .. alpha
      BY <2>7
    <3> QED  BY <2>9, <3>1
  <2>12. /\ outcome[m].status = "planned"
         /\ outcome[m].items = items /\ outcome[m].plan = plan
    BY <2>6, <2>11 DEF Arranged, plan
  <2>13. ASSUME NEW s \in 1 .. alpha PROVE plan[s] # <<>>
    <3>1. s <= n
      BY <2>4, <2>7
    <3>2. s <= n <=> Len(plan[s]) > 0
      BY <2>7 DEF Placed
    <3>3. Len(<<>>) = 0
      OBVIOUS
    <3> QED  BY <3>1, <3>2, <3>3
  <2> DEFINE where == {w \in (DOMAIN plan) \X (DOMAIN items) : w[2] \in DOMAIN plan[w[1]]}
  <2>14. ASSUME NEW p \in 1 .. n
         PROVE  Cardinality({w \in where : plan[w[1]][w[2]] = p}) = 1
    <3>1. PICK i \in 1 .. n : sorted[i] = p
      BY <2>7
    <3>2. PICK s \in 1 .. alpha : \E j \in 1 .. Len(plan[s]) : plan[s][j] = sorted[i]
      BY <2>7 DEF Placed
    <3>3. PICK j \in 1 .. Len(plan[s]) : plan[s][j] = p
      BY <3>1, <3>2
    <3>4. Len(plan[s]) <= n
      BY <2>7 DEF Placed
    <3>5. j \in 1 .. n
      BY <2>4, <2>10, <3>4
    <3>6. \A t \in 1 .. alpha : \A l \in 1 .. Len(plan[t]) : plan[t][l] = p => t = s /\ l = j
      <4>1. \A a, b \in 1 .. alpha : \A l \in 1 .. Len(plan[a]), r \in 1 .. Len(plan[b]) :
               plan[a][l] = plan[b][r] => a = b /\ l = r
        BY <2>7 DEF Placed
      <4> QED  BY <3>3, <4>1, Zenon
    <3>7. <<s, j>> \in where /\ plan[s][j] = p
      BY <2>4, <2>9, <2>10, <3>3, <3>5
    <3>8. ASSUME NEW w \in where, plan[w[1]][w[2]] = p PROVE w = <<s, j>>
      <4>1. PICK t \in 1 .. alpha, l \in 1 .. n : w = <<t, l>>
        BY <2>4, <2>9
      <4>2. l \in 1 .. Len(plan[t]) /\ plan[t][l] = p
        BY <2>10, <3>8, <4>1
      <4> QED  BY <3>6, <4>1, <4>2
    <3> HIDE DEF where
    <3>9. {w \in where : plan[w[1]][w[2]] = p} = {<<s, j>>}
      BY <3>7, <3>8
    <3> QED  BY <3>9, FS_Singleton
  <2>15. \A s \in DOMAIN plan : plan[s] # <<>>
    BY <2>9, <2>13
  <2>16. NoCollision(Indexes(items), plan)
    BY <2>7 DEF batch
  <2>17. \A p \in DOMAIN items : Cardinality({w \in where : plan[w[1]][w[2]] = p}) = 1
    BY <2>4, <2>14
  <2> QED  BY <2>12, <2>15, <2>16, <2>17
<1> QED  BY <1>2, <1>3

\* The nodes' outcomes are equal.
LEMMA AgreementHolds == MergeInv => MergeAgreement
<1> SUFFICES ASSUME MergeInv, NEW m \in Node, NEW n \in Node, outcome[m] # None, outcome[n] # None
             PROVE  outcome[m] = outcome[n]
  BY DEF MergeAgreement
<1>1. accepted # None /\ outcome[m] \in Outcomes /\ outcome[n] \in Outcomes
  BY DEF MergeInv
<1>2. \A s, t \in sortCandidates(Candidates(accepted)) : s = t
  BY <1>1, OneOrder DEF MergeInv, AcceptedOK
<1>3. CASE Decodes(accepted)
  <2>1. PICK s \in sortCandidates(Candidates(accepted)) : outcome[m] \in Planned(Select(s))
    BY <1>1, <1>3 DEF Outcomes
  <2>2. PICK t \in sortCandidates(Candidates(accepted)) : outcome[n] \in Planned(Select(t))
    BY <1>1, <1>3 DEF Outcomes
  <2>3. s = t
    BY <1>2
  <2>4. /\ s \in Seq(Item)
        /\ \A i, j \in 1 .. Len(s) : i < j => Before(s[i], s[j]) /\ ~Before(s[j], s[i])
    BY <1>1, SortedCandidates DEF MergeInv, AcceptedOK
  <2>5. Select(s) \in Seq(Item)
    BY <2>4, SelectResult
  <2> QED  BY <2>1, <2>2, <2>3, <2>5, PlannedOne
<1>4. CASE ~Decodes(accepted)
  BY <1>1, <1>4 DEF Outcomes
<1> QED  BY <1>3, <1>4

\* bySenderNonce has a transaction under its own sender and nonce.
KeyInv == \A k \in Key : bySenderNonce[k] # None => NonceKey(bySenderNonce[k]) = k

\* The cache proper, and the store that is made of it.
ViewInv == ViewTypeOK /\ KeyInv /\ CacheConsistent /\ StoreFresh

cacheVars == <<byHash, bySenderNonce, fetchedAt>>

\* A cached transaction has a time.
LEMMA NoneIsNoTime == None \notin Time /\ Time \subseteq Nat
BY NoneAssumption, TimeAssumption DEF Time

\* The keys are those of the transactions.
LEMMA KeyOfHash == \A h \in Hash : NonceKey(h) \in Key
BY DEF Key

\* upsert keeps the two maps of the cache together.
LEMMA UpsertKeeps ==
    ASSUME ViewTypeOK, KeyInv, CacheConsistent, NEW h \in Hash, upsert(h)
    PROVE  /\ byHash' \in [Hash -> Time \union {None}]
           /\ bySenderNonce' \in [Key -> Hash \union {None}]
           /\ KeyInv' /\ CacheConsistent'
<1> DEFINE old == bySenderNonce[NonceKey(h)]
<1>1. NonceKey(h) \in Key /\ old \in Hash \union {None} /\ fetchedAt \in Time
  BY KeyOfHash DEF ViewTypeOK
<1>2. CASE UNCHANGED <<byHash, bySenderNonce>>
  BY <1>2 DEF ViewTypeOK, KeyInv, CacheConsistent
<1>3. CASE /\ byHash' = [g \in Hash |-> IF g = h THEN fetchedAt
                                         ELSE IF g = old THEN None ELSE byHash[g]]
           /\ bySenderNonce' = [bySenderNonce EXCEPT ![NonceKey(h)] = h]
  <2>1. byHash' \in [Hash -> Time \union {None}]
    BY <1>1, <1>3 DEF ViewTypeOK
  <2>2. bySenderNonce' \in [Key -> Hash \union {None}]
    BY <1>1, <1>3 DEF ViewTypeOK
  <2>3. KeyInv'
    BY <1>1, <1>3 DEF KeyInv, ViewTypeOK
  <2>4. ASSUME NEW g \in Hash
        PROVE  byHash'[g] # None <=> bySenderNonce'[NonceKey(g)] = g
    <3>1. NonceKey(g) \in Key
      BY KeyOfHash
    <3>2. CASE g = h
      BY <1>1, <1>3, <3>2, NoneIsNoTime DEF ViewTypeOK
    <3>3. CASE g # h /\ NonceKey(g) = NonceKey(h)
      <4>1. bySenderNonce'[NonceKey(g)] = h
        BY <1>1, <1>3, <3>3 DEF ViewTypeOK
      <4>2. g # old => byHash[g] = None
        BY <3>3 DEF CacheConsistent
      <4> QED  BY <1>3, <3>3, <4>1, <4>2
    <3>4. CASE g # h /\ NonceKey(g) # NonceKey(h)
      <4>1. bySenderNonce'[NonceKey(g)] = bySenderNonce[NonceKey(g)]
        BY <1>3, <3>1, <3>4 DEF ViewTypeOK
      <4>2. g # old
        BY <1>1, <3>4, NoneAssumption DEF KeyInv
      <4> QED  BY <1>3, <3>4, <4>1, <4>2 DEF CacheConsistent
    <3> QED  BY <3>2, <3>3, <3>4
  <2> QED  BY <2>1, <2>2, <2>3, <2>4 DEF CacheConsistent
<1> QED  BY <1>2, <1>3 DEF upsert

\* expire drops a transaction from both maps or from neither.
LEMMA ExpireKeeps ==
    ASSUME ViewTypeOK, KeyInv, CacheConsistent, expire
    PROVE  /\ byHash' \in [Hash -> Time \union {None}]
           /\ bySenderNonce' \in [Key -> Hash \union {None}]
           /\ KeyInv' /\ CacheConsistent'
<1>1. /\ byHash' = [h \in Hash |-> IF Expired(h) THEN None ELSE byHash[h]]
      /\ bySenderNonce' =
           [k \in Key |->
              IF \E h \in Hash : Expired(h) /\ NonceKey(h) = k /\ bySenderNonce[k] = h
              THEN None ELSE bySenderNonce[k]]
  BY DEF expire
<1>2. byHash' \in [Hash -> Time \union {None}]
  BY <1>1 DEF ViewTypeOK
<1>3. bySenderNonce' \in [Key -> Hash \union {None}]
  BY <1>1 DEF ViewTypeOK
<1>4. KeyInv'
  <2> SUFFICES ASSUME NEW k \in Key, bySenderNonce'[k] # None
               PROVE  NonceKey(bySenderNonce'[k]) = k
    BY DEF KeyInv
  <2>1. bySenderNonce'[k] = bySenderNonce[k]
    BY <1>1
  <2> QED  BY <2>1 DEF KeyInv
<1>5. ASSUME NEW g \in Hash
      PROVE  byHash'[g] # None <=> bySenderNonce'[NonceKey(g)] = g
  <2>1. NonceKey(g) \in Key /\ g # None
    BY KeyOfHash, NoneAssumption
  <2>2. byHash[g] # None <=> bySenderNonce[NonceKey(g)] = g
    BY DEF CacheConsistent
  <2>3. CASE Expired(g)
    <3>1. bySenderNonce[NonceKey(g)] = g
      BY <2>2, <2>3 DEF Expired
    <3>2. bySenderNonce'[NonceKey(g)] = None
      BY <1>1, <2>1, <2>3, <3>1
    <3>3. byHash'[g] = None
      BY <1>1, <2>3
    <3> QED  BY <2>1, <3>2, <3>3
  <2>4. CASE ~Expired(g)
    <3>1. byHash'[g] = byHash[g]
      BY <1>1, <2>4
    <3>2. CASE bySenderNonce[NonceKey(g)] = g
      <4>1. bySenderNonce'[NonceKey(g)] = g
        BY <1>1, <2>1, <2>4, <3>2
      <4> QED  BY <2>2, <3>1, <3>2, <4>1
    <3>3. CASE bySenderNonce[NonceKey(g)] # g
      <4>1. bySenderNonce'[NonceKey(g)] # g
        BY <1>1, <2>1, <3>3
      <4> QED  BY <2>2, <3>1, <3>3, <4>1
    <3> QED  BY <3>2, <3>3
  <2> QED  BY <2>3, <2>4
<1> QED  BY <1>2, <1>3, <1>4, <1>5 DEF CacheConsistent

\* What the steps outside the lookups do: the cache and its time stay, and with
\* them the store of a filter source.
LEMMA CacheStays ==
    ASSUME ViewInv, UNCHANGED cacheVars, UNCHANGED store \/ source # "filter",
           reader' # "lookup" => reader # "lookup", source' = source
    PROVE  KeyInv' /\ CacheConsistent' /\ StoreFresh'
<1> USE DEF cacheVars
<1>1. KeyInv' /\ CacheConsistent'
  BY DEF ViewInv, KeyInv, CacheConsistent
<1>2. StoreFresh'
  BY DEF ViewInv, StoreFresh, Expired
<1> QED  BY <1>1, <1>2

LEMMA InitViewInv == ViewInit => ViewInv
<1> SUFFICES ASSUME ViewInit PROVE ViewInv
  OBVIOUS
<1> USE DEF ViewInit
<1>1. 0 \in Time
  BY TimeAssumption DEF Time
<1>2. ViewTypeOK
  BY <1>1 DEF ViewTypeOK
<1>3. KeyInv
  BY DEF KeyInv
<1>4. CacheConsistent
  BY KeyOfHash, NoneAssumption DEF CacheConsistent
<1>5. StoreFresh
  BY DEF StoreFresh
<1> QED  BY <1>2, <1>3, <1>4, <1>5 DEF ViewInv

\* A lookup changes the cache alone; the store is what it was before the poll.
LEMMA LookupFoundKeeps ==
    ASSUME ViewInv, NEW h \in Hash, lookupFound(h)
    PROVE  ViewInv'
<1>1. ViewTypeOK /\ KeyInv /\ CacheConsistent /\ StoreFresh
  BY DEF ViewInv
<1>2. /\ reader = "lookup" /\ reader' = "lookup" /\ todo' = todo \ {h} /\ upsert(h)
      /\ UNCHANGED <<source, now, filter, filterID, retried, fetchedAt, store>>
  BY DEF lookupFound
<1>3. /\ byHash' \in [Hash -> Time \union {None}]
      /\ bySenderNonce' \in [Key -> Hash \union {None}]
      /\ KeyInv' /\ CacheConsistent'
  BY <1>1, <1>2, UpsertKeeps
<1>4. ViewTypeOK'
  BY <1>1, <1>2, <1>3 DEF ViewTypeOK
<1>5. StoreFresh'
  BY <1>1, <1>2 DEF StoreFresh
<1> QED  BY <1>3, <1>4, <1>5 DEF ViewInv

\* The store becomes what is left of the cache.
LEMMA FetchEndsKeeps ==
    ASSUME ViewInv, FetchEnds
    PROVE  ViewInv'
<1>1. ViewTypeOK /\ KeyInv /\ CacheConsistent /\ StoreFresh
  BY DEF ViewInv
<1>2. /\ expire /\ store' = {h \in Hash : byHash[h] # None /\ ~Expired(h)} /\ reader' = "idle"
      /\ UNCHANGED <<source, now, filter, filterID, retried, fetchedAt, todo>>
  BY DEF FetchEnds, StoreReplaceAll
<1>3. /\ byHash' \in [Hash -> Time \union {None}]
      /\ bySenderNonce' \in [Key -> Hash \union {None}]
      /\ KeyInv' /\ CacheConsistent'
  BY <1>1, <1>2, ExpireKeeps
<1>4. ViewTypeOK'
  BY <1>1, <1>2, <1>3 DEF ViewTypeOK
<1>5. \A h \in Hash : byHash'[h] = IF Expired(h) THEN None ELSE byHash[h]
  BY <1>2 DEF expire
<1>6. store' = {h \in Hash : byHash'[h] # None /\ ~Expired(h)'}
  BY <1>2, <1>5 DEF Expired
<1>7. \A g, h \in store' : NonceKey(g) = NonceKey(h) => g = h
  <2> SUFFICES ASSUME NEW g \in store', NEW h \in store', NonceKey(g) = NonceKey(h)
               PROVE  g = h
    OBVIOUS
  <2>1. g \in Hash /\ h \in Hash /\ byHash'[g] # None /\ byHash'[h] # None
    BY <1>6
  <2>2. bySenderNonce'[NonceKey(g)] = g /\ bySenderNonce'[NonceKey(h)] = h
    BY <1>3, <2>1 DEF CacheConsistent
  <2> QED  BY <2>2
<1>8. StoreFresh'
  BY <1>6, <1>7 DEF StoreFresh
<1> QED  BY <1>3, <1>4, <1>8 DEF ViewInv

LEMMA StepViewInv == ViewInv /\ [ViewNext]_viewVars => ViewInv'
<1> SUFFICES ASSUME ViewInv, [ViewNext]_viewVars PROVE ViewInv'
  OBVIOUS
<1>1. ViewTypeOK
  BY DEF ViewInv
<1>2. CASE UNCHANGED viewVars
  <2>1. ViewTypeOK'
    BY <1>1, <1>2 DEF ViewTypeOK, viewVars
  <2> QED  BY <1>2, <2>1, CacheStays DEF ViewInv, viewVars, cacheVars
<1>3. CASE FilterExpires \/ Tick \/ PollBegins
  <2> USE <1>3 DEF FilterExpires, Tick, PollBegins
  <2>1. now' \in Time
    BY <1>1, TimeAssumption DEF ViewTypeOK, Time
  <2>2. filter' \in (SUBSET Hash) \union {None} /\ reader' \in {"idle", "ensure", "changes", "lookup"}
    BY <1>1 DEF ViewTypeOK
  <2>3. ViewTypeOK'
    BY <1>1, <2>1, <2>2 DEF ViewTypeOK
  <2> QED  BY <2>3, CacheStays DEF ViewInv, cacheVars
<1>4. CASE ensureFilter \/ ensureFilterFails \/ filterNotFound \/ getFilterChangesFails
  <2> USE <1>4 DEF ensureFilter, ensureFilterFails, filterNotFound, getFilterChangesFails
  <2>1. filter' \in (SUBSET Hash) \union {None} /\ filterID' \in {"unset", "void", "set"}
    BY <1>1 DEF ViewTypeOK
  <2>2. reader' \in {"idle", "ensure", "changes", "lookup"} /\ retried' \in BOOLEAN
    BY <1>1 DEF ViewTypeOK
  <2>3. ViewTypeOK'
    BY <1>1, <2>1, <2>2 DEF ViewTypeOK
  <2> QED  BY <2>3, CacheStays DEF ViewInv, cacheVars
<1>5. CASE getFilterChanges
  <2> USE <1>5 DEF getFilterChanges
  <2>1. ViewTypeOK'
    BY <1>1, NoneAssumption DEF ViewTypeOK
  <2>2. KeyInv' /\ CacheConsistent'
    BY DEF ViewInv, KeyInv, CacheConsistent
  <2>3. StoreFresh'
    BY DEF ViewInv, StoreFresh
  <2> QED  BY <2>1, <2>2, <2>3 DEF ViewInv
<1>6. CASE FetchEnds
  BY <1>6, FetchEndsKeeps
<1>7. ASSUME NEW h \in Hash, Announce(h) \/ lookupSkips(h)
      PROVE  ViewInv'
  <2> USE <1>7 DEF Announce, lookupSkips
  <2>1. ViewTypeOK'
    BY <1>1 DEF ViewTypeOK
  <2> QED  BY <2>1, CacheStays DEF ViewInv, cacheVars
<1>8. ASSUME NEW h \in Hash, lookupFound(h)
      PROVE  ViewInv'
  BY <1>8, LookupFoundKeeps
<1>9. ASSUME NEW S \in SUBSET Hash, NEW T \in SUBSET Hash, publicFetch(S) \/ TxpoolContent(S, T)
      PROVE  ViewInv'
  <2> USE <1>9 DEF publicFetch, TxpoolContent, StoreReplaceAll
  <2>1. ViewTypeOK'
    BY <1>1 DEF ViewTypeOK
  <2> QED  BY <2>1, CacheStays DEF ViewInv, cacheVars
<1> QED  BY <1>2, <1>3, <1>4, <1>5, <1>6, <1>7, <1>8, <1>9 DEF ViewNext

\* The cached transaction that upsert removes pays less, or the same with a
\* larger hash, than the one that replaces it.
LEMMA UpsertForBetter ==
    ASSUME ViewInv, NEW g \in Hash, upsert(g)
    PROVE  LeavesForBetter
<1>1. ViewTypeOK /\ KeyInv
  BY DEF ViewInv
<1> SUFFICES ASSUME NEW h \in Hash, byHash[h] # None, byHash'[h] = None
             PROVE  /\ NonceKey(g) = NonceKey(h)
                    /\ byHash'[g] # None
                    /\ Info[g].fee > Info[h].fee \/ (Info[g].fee = Info[h].fee /\ g < h)
  BY DEF LeavesForBetter
<1> DEFINE old == bySenderNonce[NonceKey(g)]
<1>2. /\ ~(old # None /\ byHash[old] # None /\ Outbids(old, g))
      /\ byHash' = [f \in Hash |-> IF f = g THEN fetchedAt
                                   ELSE IF f = old THEN None ELSE byHash[f]]
  BY DEF upsert
<1>3. byHash'[g] = fetchedAt /\ fetchedAt # None
  BY <1>1, <1>2, NoneIsNoTime DEF ViewTypeOK
<1>4. h = old /\ h # g
  BY <1>2, <1>3
<1>5. NonceKey(g) = NonceKey(h)
  BY <1>1, <1>4, KeyOfHash, NoneAssumption DEF KeyInv
<1>6. ~Outbids(h, g)
  BY <1>2, <1>4, NoneAssumption
<1>7. g \in Nat /\ h \in Nat /\ Info[g].fee \in Nat /\ Info[h].fee \in Nat
  BY HashAssumption
<1>8. Info[g].fee > Info[h].fee \/ (Info[g].fee = Info[h].fee /\ g < h)
  BY <1>4, <1>6, <1>7 DEF Outbids
<1> QED  BY <1>3, <1>5, <1>8

-----------------------------------------------------------------------------
(* What the builder and the provider make of a corpus.                     *)

ListState == [items : Seq(Candidate), gas : Int, seen : SUBSET Hash]

\* One candidate is taken or passed over.
LEMMA TakeKeeps ==
    ASSUME NEW list \in ListState, NEW c \in Candidate
    PROVE  /\ Take(list, c) \in ListState
           /\ Take(list, c).items \in {list.items, Append(list.items, c)}
<1>1. /\ list.items \in Seq(Candidate) /\ list.gas \in Int /\ list.seen \in SUBSET Hash
      /\ c.tx \in Hash /\ c.gas \in Nat
  BY DEF ListState, Candidate
<1>2. list.seen \union {c.tx} \in SUBSET Hash /\ Append(list.items, c) \in Seq(Candidate)
      /\ list.gas + c.gas \in Int
  BY <1>1
<1>3. Take(list, c) \in {list, [list EXCEPT !.seen = @ \union {c.tx}],
                         [items |-> Append(list.items, c), gas |-> list.gas + c.gas,
                          seen |-> list.seen \union {c.tx}]}
  BY DEF Take
<1>4. [list EXCEPT !.seen = @ \union {c.tx}] \in ListState
      /\ [list EXCEPT !.seen = @ \union {c.tx}].items = list.items
  BY <1>1, <1>2 DEF ListState
<1>5. [items |-> Append(list.items, c), gas |-> list.gas + c.gas,
       seen |-> list.seen \union {c.tx}] \in ListState
  BY <1>2 DEF ListState
<1>6. CASE Take(list, c) = list
  BY <1>6
<1>7. CASE Take(list, c) = [list EXCEPT !.seen = @ \union {c.tx}]
  BY <1>4, <1>7
<1>8. CASE Take(list, c) = [items |-> Append(list.items, c), gas |-> list.gas + c.gas,
                           seen |-> list.seen \union {c.tx}]
  BY <1>5, <1>8
<1> QED  BY <1>3, <1>6, <1>7, <1>8

\* The loop of Build, state by state.
LEMMA BuildRuns ==
    ASSUME NEW cands \in Seq(Candidate)
    PROVE  \E f : /\ Build(cands) = f[Len(cands)].items
                  /\ f[0] = [items |-> <<>>, gas |-> 0, seen |-> {}]
                  /\ \A k \in 1 .. Len(cands) : f[k] = Take(f[k - 1], cands[k])
<1> DEFINE n == Len(cands)
           base == [items |-> <<>>, gas |-> 0, seen |-> {}]
           Run(f) == f = [k \in 0 .. n |-> IF k = 0 THEN base ELSE Take(f[k - 1], cands[k])]
           step == [p \in ListState \X Candidate |-> Take(p[1], p[2])]
<1>1. n \in Nat /\ cands \in [1 .. n -> Candidate]
  OBVIOUS
<1>2. base \in ListState
  BY DEF ListState
<1>3. step \in [ListState \X Candidate -> ListState]
  BY TakeKeeps
<1>4. \A a \in ListState, c \in Candidate : step[<<a, c>>] = Take(a, c)
  OBVIOUS
<1> HIDE DEF n, base, step
<1>5. PICK f \in [0 .. n -> ListState] : LoopRun(f, base, step, cands, n)
  BY <1>1, <1>2, <1>3, LoopExists
<1>6. \A k \in 0 .. n : f[k] = IF k = 0 THEN base ELSE Take(f[k - 1], cands[k])
  <2> SUFFICES ASSUME NEW k \in 0 .. n, k # 0 PROVE f[k] = Take(f[k - 1], cands[k])
    BY <1>5 DEF LoopRun
  <2>1. f[k - 1] \in ListState /\ cands[k] \in Candidate
    BY <1>1
  <2> QED  BY <1>4, <1>5, <2>1 DEF LoopRun
<1>7. Run(f)
  BY <1>6
<1>8. Run(CHOOSE g : Run(g))
  <2> HIDE DEF Run
  <2> QED  BY <1>7
<1> DEFINE F == CHOOSE g : Run(g)
<1>9. Build(cands) = F[n].items
  BY DEF Build, n, base
<1> HIDE DEF F
<1>10. F = [k \in 0 .. n |-> IF k = 0 THEN base ELSE Take(F[k - 1], cands[k])]
  BY <1>8 DEF F
<1>11. F[0] = base /\ \A k \in 1 .. n : F[k] = Take(F[k - 1], cands[k])
  BY <1>1, <1>10
<1> QED  BY <1>9, <1>11 DEF n, base

\* The list holds candidates, no more than there are, and all of them in order if
\* it is as long (inclusion/builder.go).
LEMMA BuildResult ==
    ASSUME NEW cands \in Seq(Candidate)
    PROVE  /\ Build(cands) \in Seq(Candidate)
           /\ Len(Build(cands)) <= Len(cands)
           /\ Len(Build(cands)) = Len(cands) => Build(cands) = cands
<1>1. PICK f : /\ Build(cands) = f[Len(cands)].items
               /\ f[0] = [items |-> <<>>, gas |-> 0, seen |-> {}]
               /\ \A k \in 1 .. Len(cands) : f[k] = Take(f[k - 1], cands[k])
  BY BuildRuns
<1> DEFINE Good(k) == /\ f[k] \in ListState
                      /\ Len(f[k].items) <= k
                      /\ Len(f[k].items) = k => \A i \in 1 .. k : f[k].items[i] = cands[i]
           T == {k \in 0 .. Len(cands) : Good(k)}
<1>2. Len(cands) \in Nat /\ \A k \in 1 .. Len(cands) : cands[k] \in Candidate
  OBVIOUS
<1>3. Good(0)
  BY <1>1 DEF ListState
<1>4. ASSUME NEW k \in 1 .. Len(cands), Good(k - 1)
      PROVE  Good(k)
  <2> DEFINE old == f[k - 1].items
  <2>1. old \in Seq(Candidate) /\ Len(old) \in Nat
    BY <1>4 DEF ListState
  <2>2. f[k] \in ListState /\ f[k].items \in {old, Append(old, cands[k])}
    BY <1>1, <1>2, <1>4, TakeKeeps
  <2>3. CASE f[k].items = old
    BY <1>4, <2>1, <2>2, <2>3
  <2>4. CASE f[k].items = Append(old, cands[k])
    <3>1. Len(f[k].items) = Len(old) + 1
      BY <2>1, <2>4
    <3>2. ASSUME Len(f[k].items) = k, NEW i \in 1 .. k
          PROVE  f[k].items[i] = cands[i]
      <4>1. Len(old) = k - 1
        BY <2>1, <3>1, <3>2
      <4>2. CASE i = k
        BY <2>1, <2>4, <4>1, <4>2
      <4>3. CASE i # k
        <5>1. i \in 1 .. k - 1
          BY <4>3
        <5>2. old[i] = cands[i]
          BY <1>4, <4>1, <5>1
        <5>3. f[k].items[i] = old[i]
          BY <2>1, <2>4, <4>1, <5>1
        <5> QED  BY <5>2, <5>3
      <4> QED  BY <4>2, <4>3
    <3> QED  BY <1>4, <2>1, <2>2, <3>1, <3>2
  <2> QED  BY <2>2, <2>3, <2>4
<1>5. Good(Len(cands))
  <2>1. 0 \in T
    BY <1>2, <1>3
  <2>2. \A k \in 1 .. Len(cands) : k - 1 \in T => k \in T
    <3> HIDE DEF Good
    <3> QED  BY <1>2, <1>4
  <2> HIDE DEF T
  <2>3. \A k \in 0 .. Len(cands) : k \in T
    BY <1>2, <2>1, <2>2, UpTo
  <2>4. Len(cands) \in T
    BY <1>2, <2>3
  <2> HIDE DEF Good
  <2> QED  BY <2>4 DEF T
<1>6. Build(cands) \in Seq(Candidate)
  BY <1>1, <1>5 DEF ListState
<1> QED  BY <1>1, <1>5, <1>6

\* A candidate that is no placeholder is passed over.
LEMMA DecodeKeeps ==
    ASSUME NEW items \in Seq(Item), NEW c \in Candidate
    PROVE  /\ Decode(items, c) \in Seq(Item)
           /\ \/ Decode(items, c) = items
              \/ /\ Len(Decode(items, c)) = Len(items) + 1
                 /\ \A i \in 1 .. Len(items) : Decode(items, c)[i] = items[i]
                 /\ Decode(items, c)[Len(items) + 1].ct = Info[c.tx].ct
<1> DEFINE t == Info[c.tx]
           item == [hash |-> t.ct, ct |-> t.ct, gas |-> c.gas, fee |-> t.fee,
                    from |-> t.from, nonce |-> t.nonce]
<1>1. c.tx \in Hash /\ c.gas \in Nat
  BY DEF Candidate
<1>2. t \in [from : Nat, nonce : Nat, fee : Nat, gas : Nat, requested : Nat,
             ct : Ciphertext \union {None}]
  BY <1>1, HashAssumption
<1>3. item \in Item /\ item.ct = Info[c.tx].ct
  BY <1>1, <1>2 DEF Item
<1>4. Decode(items, c) = IF t.ct = None THEN items ELSE Append(items, item)
  BY DEF Decode
<1> HIDE DEF item, t
<1>5. Append(items, item) \in Seq(Item) /\ Len(Append(items, item)) = Len(items) + 1
      /\ (\A i \in 1 .. Len(items) : Append(items, item)[i] = items[i])
      /\ Append(items, item)[Len(items) + 1] = item
  BY <1>3
<1>6. CASE t.ct = None
  BY <1>4, <1>6
<1>7. CASE t.ct # None
  BY <1>3, <1>4, <1>5, <1>7
<1> QED  BY <1>6, <1>7

\* The loop of Placeholders, state by state.
LEMMA PlaceholdersRuns ==
    ASSUME NEW list \in Seq(Candidate)
    PROVE  \E f : /\ Placeholders(list) = f[Len(list)]
                  /\ f[0] = <<>>
                  /\ \A k \in 1 .. Len(list) : f[k] = Decode(f[k - 1], list[k])
<1> DEFINE n == Len(list)
           Run(f) == f = [k \in 0 .. n |-> IF k = 0 THEN <<>> ELSE Decode(f[k - 1], list[k])]
           step == [p \in Seq(Item) \X Candidate |-> Decode(p[1], p[2])]
<1>1. n \in Nat /\ list \in [1 .. n -> Candidate] /\ <<>> \in Seq(Item)
  OBVIOUS
<1>2. step \in [Seq(Item) \X Candidate -> Seq(Item)]
  BY DecodeKeeps
<1>3. \A a \in Seq(Item), c \in Candidate : step[<<a, c>>] = Decode(a, c)
  OBVIOUS
<1> HIDE DEF n, step
<1>4. PICK f \in [0 .. n -> Seq(Item)] : LoopRun(f, <<>>, step, list, n)
  BY <1>1, <1>2, LoopExists
<1>5. \A k \in 0 .. n : f[k] = IF k = 0 THEN <<>> ELSE Decode(f[k - 1], list[k])
  <2> SUFFICES ASSUME NEW k \in 0 .. n, k # 0 PROVE f[k] = Decode(f[k - 1], list[k])
    BY <1>4 DEF LoopRun
  <2>1. f[k - 1] \in Seq(Item) /\ list[k] \in Candidate
    BY <1>1
  <2> QED  BY <1>3, <1>4, <2>1 DEF LoopRun
<1>6. Run(f)
  BY <1>5
<1>7. Run(CHOOSE g : Run(g))
  <2> HIDE DEF Run
  <2> QED  BY <1>6
<1> DEFINE F == CHOOSE g : Run(g)
<1>8. Placeholders(list) = F[n]
  BY DEF Placeholders, n
<1> HIDE DEF F
<1>9. F = [k \in 0 .. n |-> IF k = 0 THEN <<>> ELSE Decode(F[k - 1], list[k])]
  BY <1>7 DEF F
<1>10. F[0] = <<>> /\ \A k \in 1 .. n : F[k] = Decode(F[k - 1], list[k])
  BY <1>1, <1>9
<1> QED  BY <1>8, <1>10 DEF n

\* The placeholders of a list, all of the list's if they are as many
\* (provider.go:151-191).
LEMMA PlaceholdersResult ==
    ASSUME NEW list \in Seq(Candidate)
    PROVE  /\ Placeholders(list) \in Seq(Item)
           /\ Len(Placeholders(list)) = Len(list) =>
                \A i \in 1 .. Len(list) : Placeholders(list)[i].ct = Info[list[i].tx].ct
<1>1. PICK f : /\ Placeholders(list) = f[Len(list)]
               /\ f[0] = <<>>
               /\ \A k \in 1 .. Len(list) : f[k] = Decode(f[k - 1], list[k])
  BY PlaceholdersRuns
<1> DEFINE Good(k) == /\ f[k] \in Seq(Item)
                      /\ Len(f[k]) <= k
                      /\ Len(f[k]) = k => \A i \in 1 .. k : f[k][i].ct = Info[list[i].tx].ct
           T == {k \in 0 .. Len(list) : Good(k)}
<1>2. Len(list) \in Nat /\ \A k \in 1 .. Len(list) : list[k] \in Candidate
  OBVIOUS
<1>3. Good(0)
  BY <1>1
<1>4. ASSUME NEW k \in 1 .. Len(list), Good(k - 1)
      PROVE  Good(k)
  <2>1. f[k] = Decode(f[k - 1], list[k]) /\ f[k - 1] \in Seq(Item) /\ list[k] \in Candidate
    BY <1>1, <1>2, <1>4
  <2> DEFINE old == f[k - 1]
  <2>2. Len(old) \in Nat /\ Len(old) <= k - 1
    BY <1>4
  <2>3. /\ f[k] \in Seq(Item)
        /\ \/ f[k] = old
           \/ /\ Len(f[k]) = Len(old) + 1
              /\ \A i \in 1 .. Len(old) : f[k][i] = old[i]
              /\ f[k][Len(old) + 1].ct = Info[list[k].tx].ct
    BY <2>1, DecodeKeeps
  <2>4. CASE f[k] = old
    BY <2>2, <2>3, <2>4
  <2>5. CASE f[k] # old
    <3>1. ASSUME Len(f[k]) = k, NEW i \in 1 .. k
          PROVE  f[k][i].ct = Info[list[i].tx].ct
      <4>1. Len(old) = k - 1 /\ Len(old) + 1 = k
        BY <2>2, <2>3, <2>5, <3>1
      <4>2. CASE i = k
        BY <2>3, <2>5, <4>1, <4>2
      <4>3. CASE i # k
        <5>1. i \in 1 .. k - 1
          BY <4>3
        <5>2. old[i].ct = Info[list[i].tx].ct
          BY <1>4, <4>1, <5>1
        <5>3. f[k][i] = old[i]
          BY <2>3, <2>5, <4>1, <5>1
        <5> QED  BY <5>2, <5>3
      <4> QED  BY <4>2, <4>3
    <3> QED  BY <2>2, <2>3, <2>5, <3>1
  <2> QED  BY <2>4, <2>5
<1>5. Good(Len(list))
  <2>1. 0 \in T
    BY <1>2, <1>3
  <2>2. \A k \in 1 .. Len(list) : k - 1 \in T => k \in T
    <3> HIDE DEF Good
    <3> QED  BY <1>2, <1>4
  <2> HIDE DEF T
  <2>3. \A k \in 0 .. Len(list) : k \in T
    BY <1>2, <2>1, <2>2, UpTo
  <2>4. Len(list) \in T
    BY <1>2, <2>3
  <2> HIDE DEF Good
  <2> QED  BY <2>4 DEF T
<1> QED  BY <1>1, <1>5

-----------------------------------------------------------------------------
(* The composition.                                                        *)

\* The manifests hold candidates; one that is served was validated.
SourceInv ==
    /\ file # None => file.candidates \in Seq(Candidate)
    /\ serving # None => /\ serving.candidates \in Seq(Candidate)
                         /\ serving.id = encryptedCandidateSetID(serving.candidates)
    /\ proposal # None => proposal.client \in Client /\ proposal.items \in Seq(Item)

ProposersOK ==
    accepted # None =>
        \A i \in 1 .. Len(accepted) : accepted[i].proposer \in DOMAIN OtherList \union {Self}

IInv == ViewInv /\ SourceInv /\ CorpusPrefix /\ ProposersOK /\ MergeInv

\* What a node bound to a corpus takes from a sidecar that serves the manifest m.
LEMMA PageIsPrefix ==
    ASSUME NEW m, NEW c, m.candidates \in Seq(Candidate), c.limit \in Nat,
           m.id = encryptedCandidateSetID(m.candidates)
    PROVE  LET list == Build(FetchSlot(m, c.limit))
               items == Placeholders(list)
           IN  /\ items \in Seq(Item)
               /\ /\ c.config # None /\ c.limit > 0
                  /\ Provenance(c, m, FetchSlot(m, c.limit))
                  /\ Len(list) = Len(items)
                  /\ CountsAgree(c, items)
                  => /\ Len(items) = c.limit
                     /\ \A i \in 1 .. c.limit : items[i].ct = Info[c.config.id[i][1]].ct
<1> DEFINE cands == m.candidates
           page == FetchSlot(m, c.limit)
           list == Build(page)
           items == Placeholders(list)
<1>1. PICK L \in Nat : L = Len(cands)
  OBVIOUS
<1>2. PICK r \in 0 .. L : r <= c.limit /\ page = SubSeq(cands, 1, r)
  <2> DEFINE r == IF c.limit > L THEN L ELSE c.limit
  <2>1. r \in 0 .. L /\ r <= c.limit
    BY <1>1
  <2>2. page = SubSeq(cands, 1, r)
    BY <1>1 DEF FetchSlot, Prefix
  <2> QED  BY <2>1, <2>2
<1>3. page \in Seq(Candidate) /\ Len(page) = r /\ \A i \in 1 .. r : page[i] = cands[i]
  <2> HIDE DEF page
  <2> QED  BY <1>1, <1>2
<1> HIDE DEF page
<1>4. /\ list \in Seq(Candidate) /\ Len(list) <= Len(page)
      /\ Len(list) = Len(page) => list = page
  BY <1>3, BuildResult
<1> HIDE DEF list
<1>5. /\ items \in Seq(Item)
      /\ Len(items) = Len(list) => \A i \in 1 .. Len(list) : items[i].ct = Info[list[i].tx].ct
  BY <1>4, PlaceholdersResult
<1> HIDE DEF items
<1>6. ASSUME c.config # None, c.limit > 0, Provenance(c, m, page), Len(list) = Len(items),
             CountsAgree(c, items)
      PROVE  /\ Len(items) = c.limit
             /\ \A i \in 1 .. c.limit : items[i].ct = Info[c.config.id[i][1]].ct
  <2>1. Len(items) = c.limit
    BY <1>6 DEF CountsAgree
  <2>2. Len(list) = c.limit /\ r = c.limit /\ list = page
    BY <1>2, <1>3, <1>4, <1>6, <2>1
  <2>3. c.config.id = encryptedCandidateSetID(cands)
    BY <1>6 DEF Provenance
  <2>4. ASSUME NEW i \in 1 .. c.limit PROVE items[i].ct = Info[c.config.id[i][1]].ct
    <3>1. items[i].ct = Info[cands[i].tx].ct
      BY <1>3, <1>5, <1>6, <2>2
    <3>2. i \in DOMAIN cands
      BY <1>1, <1>2, <2>2
    <3>3. c.config.id[i] = <<cands[i].tx, cands[i].index>>
      BY <2>3, <3>2 DEF encryptedCandidateSetID
    <3> QED  BY <3>1, <3>3
  <2> QED  BY <2>1, <2>4
<1> QED  BY <1>5, <1>6 DEF items, list, page

\* What a provider returns keeps the invariant of the source.
LEMMA ProposalKeeps ==
    ASSUME SourceInv, NEW c \in Client, NEW items \in Seq(Item), NEW served,
           buildInclusionList(c, items, served),
           served /\ CountsAgree(c, items) /\ c.config # None /\ c.limit > 0 =>
             /\ Len(items) = c.limit
             /\ \A i \in 1 .. c.limit : items[i].ct = Info[c.config.id[i][1]].ct
    PROVE  SourceInv' /\ CorpusPrefix' /\ UNCHANGED viewVars
<1>1. /\ proposal' = [client |-> c, items |-> items,
                      ok |-> served /\ CountsAgree(c, items) /\ InBounds(items)]
      /\ UNCHANGED <<viewVars, file, serving>>
  BY DEF buildInclusionList
<1>2. proposal'.client = c /\ proposal'.items = items
  BY <1>1
<1>3. proposal'.ok => served /\ CountsAgree(c, items)
  BY <1>1
<1>4. SourceInv'
  BY <1>1, <1>2 DEF SourceInv
<1>5. CorpusPrefix'
  BY <1>2, <1>3 DEF CorpusPrefix
<1> QED  BY <1>1, <1>4, <1>5

\* A sorted view of the store is a list of candidates.
LEMMA BuildListType ==
    ASSUME ViewTypeOK, NEW snapshot \in Snapshots
    PROVE  Placeholders(BuildList(snapshot)) \in Seq(Item)
<1> DEFINE S == {h \in store : Gas(h) > 0}
           cands == [i \in 1 .. Len(snapshot) |->
                       [tx |-> snapshot[i], index |-> 0, gas |-> Gas(snapshot[i])]]
<1>1. IsFiniteSet(S) /\ S \subseteq Hash
  <2>1. S \subseteq Hash
    BY DEF ViewTypeOK
  <2> QED  BY <2>1, HashAssumption, FS_Subset
<1>2. snapshot \in Seq(S)
  <2> DEFINE less == {p \in S \X S : Precedes(p[1], p[2])}
  <2>1. Snapshots = Orders(S, less)
    BY DEF Snapshots
  <2> HIDE DEF S, less
  <2> QED  BY <1>1, <2>1, OrdersType
<1>3. \A i \in 1 .. Len(snapshot) : snapshot[i] \in Hash
  <2> HIDE DEF S
  <2> QED  BY <1>1, <1>2
<1>4. \A h \in Hash : Gas(h) \in Nat
  BY HashAssumption DEF Gas
<1>5. Len(snapshot) \in Nat
  <2> HIDE DEF S
  <2> QED  BY <1>2
<1>6. cands \in [1 .. Len(snapshot) -> Candidate]
  BY <1>3, <1>4 DEF Candidate
<1>7. cands \in Seq(Candidate)
  <2> HIDE DEF cands
  <2> QED  BY <1>5, <1>6
<1>8. BuildList(snapshot) = Build(cands)
  BY DEF BuildList
<1> HIDE DEF cands
<1>9. Build(cands) \in Seq(Candidate)
  BY <1>7, BuildResult
<1> QED  BY <1>8, <1>9, PlaceholdersResult

\* The steps of the sidecar, the tool and the provider.
LEMMA SourceStep ==
    ASSUME ViewInv, SourceInv, CorpusPrefix, SourceNext
    PROVE  ViewInv' /\ SourceInv' /\ CorpusPrefix'
<1>1. UNCHANGED viewVars => ViewInv'
  BY StepViewInv
<1>2. UNCHANGED proposal => CorpusPrefix'
  BY DEF CorpusPrefix
<1>3. CASE ViewNext /\ UNCHANGED sourceVars
  <2>1. ViewInv'
    BY <1>3, StepViewInv
  <2>2. SourceInv'
    BY <1>3 DEF SourceInv, sourceVars
  <2> QED  BY <1>2, <1>3, <2>1, <2>2 DEF sourceVars
<1>4. CASE replayFetch
  <2>1. /\ source = "replay" /\ store' = ToSet(Target)
        /\ UNCHANGED <<source, now, filter, filterID, reader, retried, fetchedAt, todo,
                       byHash, bySenderNonce>>
        /\ UNCHANGED <<file, serving, proposal>>
    BY <1>4 DEF replayFetch, StoreReplaceAll, sourceVars
  <2>2. ToSet(Target) \subseteq Hash
    BY CorpusAssumption DEF ToSet
  <2>3. ViewTypeOK'
    BY <2>1, <2>2 DEF ViewInv, ViewTypeOK
  <2>4. KeyInv' /\ CacheConsistent' /\ StoreFresh'
    BY <2>1, CacheStays DEF cacheVars
  <2>5. SourceInv'
    BY <2>1 DEF SourceInv
  <2> QED  BY <1>2, <2>1, <2>3, <2>4, <2>5 DEF ViewInv
<1>5. CASE LoadEncryptedCorpus
  <2>1. /\ file # None /\ validateEncryptedCorpusManifest(file) /\ serving' = file
        /\ UNCHANGED <<viewVars, file, proposal>>
    BY <1>5 DEF LoadEncryptedCorpus
  <2>2. SourceInv'
    BY <2>1 DEF SourceInv, validateEncryptedCorpusManifest
  <2> QED  BY <1>1, <1>2, <2>1, <2>2
<1>6. ASSUME NEW size \in 1 .. BMax, EncryptCorpus(size)
      PROVE  ViewInv' /\ SourceInv' /\ CorpusPrefix'
  <2>1. /\ size <= Len(Target) /\ file' = GenerateEncryptedCorpus(size)
        /\ UNCHANGED <<viewVars, serving, proposal>>
    BY <1>6 DEF EncryptCorpus
  <2> DEFINE cands == [i \in 1 .. size |-> buildMockPlaceholder(i - 1)]
  <2>2. \A i \in 1 .. size : buildMockPlaceholder(i - 1) \in Candidate
    <3> SUFFICES ASSUME NEW i \in 1 .. size PROVE buildMockPlaceholder(i - 1) \in Candidate
      OBVIOUS
    <3>1. Target[i - 1 + 1] \in Hash
      BY <2>1, CorpusAssumption, BMaxAssumption
    <3>2. (i - 1) % BMax \in Nat
      BY BMaxAssumption
    <3>3. Gas(Target[i - 1 + 1]) \in Nat
      BY <3>1, HashAssumption DEF Gas
    <3> QED  BY <3>1, <3>2, <3>3 DEF buildMockPlaceholder, Candidate
  <2>3. cands \in Seq(Candidate)
    <3>1. cands \in [1 .. size -> Candidate] /\ size \in Nat
      BY <2>2, BMaxAssumption
    <3> HIDE DEF cands
    <3> QED  BY <3>1
  <2>4. file'.candidates = cands
    BY <2>1 DEF GenerateEncryptedCorpus
  <2> HIDE DEF cands
  <2>5. SourceInv'
    BY <2>1, <2>3, <2>4 DEF SourceInv
  <2> QED  BY <1>1, <1>2, <2>1, <2>5
<1>7. CASE ProposeFromStore
  <2>1. PICK snapshot \in Snapshots, c \in Client :
          buildInclusionList(c, Placeholders(BuildList(snapshot)), c.config = None)
    BY <1>7 DEF ProposeFromStore
  <2>2. Placeholders(BuildList(snapshot)) \in Seq(Item)
    BY BuildListType DEF ViewInv
  <2>3. SourceInv' /\ CorpusPrefix' /\ UNCHANGED viewVars
    BY <2>1, <2>2, ProposalKeeps
  <2> QED  BY <1>1, <2>3
<1>8. ASSUME NEW c \in Client, ProposeFromCorpus(c)
      PROVE  ViewInv' /\ SourceInv' /\ CorpusPrefix'
  <2> DEFINE page == FetchSlot(serving, c.limit)
             list == Build(page)
             items == Placeholders(list)
             served == /\ c.limit \in 1 .. serving.bmax
                       /\ Provenance(c, serving, page)
                       /\ Len(list) = Len(items)
  <2>1. serving # None /\ buildInclusionList(c, items, served)
    BY <1>8 DEF ProposeFromCorpus
  <2>2. c.limit \in Nat
    BY CorpusAssumption DEF Client
  <2>3. serving.candidates \in Seq(Candidate)
        /\ serving.id = encryptedCandidateSetID(serving.candidates)
    BY <2>1 DEF SourceInv
  <2>4. /\ items \in Seq(Item)
        /\ /\ c.config # None /\ c.limit > 0
           /\ Provenance(c, serving, page)
           /\ Len(list) = Len(items)
           /\ CountsAgree(c, items)
           => /\ Len(items) = c.limit
              /\ \A i \in 1 .. c.limit : items[i].ct = Info[c.config.id[i][1]].ct
    BY <2>2, <2>3, PageIsPrefix
  <2>5. served => Provenance(c, serving, page) /\ Len(list) = Len(items)
    OBVIOUS
  <2> HIDE DEF page, list, items, served
  <2>6. SourceInv' /\ CorpusPrefix' /\ UNCHANGED viewVars
    BY <2>1, <2>4, <2>5, ProposalKeeps
  <2> QED  BY <1>1, <2>6
<1>9. ASSUME NEW c \in Client, ProposeUnreachable(c)
      PROVE  ViewInv' /\ SourceInv' /\ CorpusPrefix'
  <2> DEFINE served == FALSE
             items == <<>>
  <2>1. buildInclusionList(c, items, served)
    BY <1>9, Zenon DEF ProposeUnreachable
  <2>2. ~served /\ items \in Seq(Item)
    OBVIOUS
  <2> HIDE DEF served, items
  <2>3. SourceInv' /\ CorpusPrefix' /\ UNCHANGED viewVars
    BY <2>1, <2>2, ProposalKeeps
  <2> QED  BY <1>1, <2>3
<1> QED  BY <1>3, <1>4, <1>5, <1>6, <1>7, <1>8, <1>9 DEF SourceNext

\* ACS accepts lists of items.
LEMMA AgreeKeeps ==
    ASSUME SourceInv, MergeInv, Agree
    PROVE  MergeInv' /\ ProposersOK'
<1>1. PICK S \in SUBSET Proposers, lists \in Proposed :
        \E order \in Orders(S, {p \in S \X S : p[1] < p[2]}) : Accept(order, lists)
  BY DEF Agree
<1> DEFINE less == {p \in S \X S : p[1] < p[2]}
<1>2. PICK order \in Orders(S, less) : Accept(order, lists)
  BY <1>1
<1> HIDE DEF less
<1>3. S \subseteq DOMAIN OtherList \union {Self} /\ IsFiniteSet(S)
  <2>1. S \subseteq DOMAIN OtherList \union {Self}
    BY DEF Proposers
  <2>2. IsFiniteSet(DOMAIN OtherList \union {Self})
    BY ListAssumption, FS_AddElement
  <2> QED  BY <2>1, <2>2, FS_Subset
<1>4. order \in Seq(S)
  BY <1>2, <1>3, OrdersType
<1>5. Len(order) \in Nat /\ \A i \in 1 .. Len(order) : order[i] \in S
  BY <1>4
<1>6. accepted = None /\ proposal # None /\ UNCHANGED outcome
  BY DEF Agree
<1>7. \A n \in Node : outcome[n] = None
  BY <1>6 DEF MergeInv
<1> DEFINE own == [slot |-> Slot, operator |-> Self, items |-> proposal.items]
           List(o) == IF o = Self THEN own ELSE lists[o]
<1>8. /\ Len(accepted') = Len(order)
      /\ \A i \in 1 .. Len(order) :
           accepted'[i].proposer = order[i] /\ accepted'[i].list = List(order[i])
  <2>1. accepted' = [i \in 1 .. Len(order) |-> [proposer |-> order[i], list |-> List(order[i])]]
    BY <1>2 DEF Accept
  <2> HIDE DEF List
  <2> QED  BY <1>5, <2>1
<1>9. ASSUME NEW i \in 1 .. Len(order)
      PROVE  /\ accepted'[i].proposer \in DOMAIN OtherList \union {Self}
             /\ accepted'[i].list.items \in Seq(Item)
  <2>1. accepted'[i].proposer = order[i] /\ order[i] \in DOMAIN OtherList \union {Self}
    BY <1>3, <1>5, <1>8
  <2>2. CASE order[i] = Self
    <3>1. accepted'[i].list = own /\ own.items = proposal.items
      BY <1>8, <2>2
    <3> QED  BY <1>6, <2>1, <3>1 DEF SourceInv
  <2>3. CASE order[i] # Self
    <3>1. order[i] \in DOMAIN OtherList /\ accepted'[i].list = lists[order[i]]
      BY <1>8, <2>1, <2>3
    <3>2. lists[order[i]] \in OtherList[order[i]]
      BY <3>1 DEF Proposed
    <3> QED  BY <2>1, <3>1, <3>2, ListAssumption
  <2> QED  BY <2>2, <2>3
<1>10. AcceptedOK' /\ ProposersOK'
  BY <1>5, <1>8, <1>9 DEF AcceptedOK, ProposersOK
<1> QED  BY <1>6, <1>7, <1>10 DEF MergeInv

\* A node's outcome is one of those the accepted lists allow.
LEMMA OutcomeKeeps ==
    ASSUME MergeInv, NEW n \in Node, handleACSOutput(n)
    PROVE  MergeInv'
<1>1. accepted # None /\ accepted' = accepted
  BY DEF handleACSOutput
<1>2. PICK o \in Outcomes : outcome' = [outcome EXCEPT ![n] = o]
  BY DEF handleACSOutput, Outcomes
<1>3. Outcomes' = Outcomes /\ AcceptedOK'
  BY <1>1 DEF Outcomes, AcceptedOK, MergeInv
<1>4. DOMAIN outcome' = Node /\ \A m \in Node : outcome'[m] = IF m = n THEN o ELSE outcome[m]
  BY <1>2 DEF MergeInv
<1> QED  BY <1>1, <1>2, <1>3, <1>4 DEF MergeInv

LEMMA InitIInv == Init => IInv
<1> SUFFICES ASSUME Init PROVE IInv
  OBVIOUS
<1>1. ViewInv
  BY InitViewInv DEF Init, SourceInit
<1>2. SourceInv /\ CorpusPrefix
  BY CorpusAssumption DEF Init, SourceInit, SourceInv, CorpusPrefix
<1>3. MergeInv /\ ProposersOK
  BY DEF Init, MergeInit, MergeInv, AcceptedOK, ProposersOK
<1> QED  BY <1>1, <1>2, <1>3 DEF IInv

LEMMA StepIInv == IInv /\ [Next]_vars => IInv'
<1> SUFFICES ASSUME IInv, [Next]_vars PROVE IInv'
  OBVIOUS
<1> USE DEF IInv
<1>1. UNCHANGED viewVars => ViewInv'
  BY StepViewInv
<1>2. UNCHANGED sourceVars => SourceInv' /\ CorpusPrefix'
  BY DEF sourceVars, SourceInv, CorpusPrefix
<1>3. UNCHANGED mergeVars => MergeInv' /\ ProposersOK'
  BY DEF mergeVars, MergeInv, AcceptedOK, ProposersOK, Outcomes
<1>4. CASE SourceNext /\ UNCHANGED mergeVars
  BY <1>3, <1>4, SourceStep
<1>5. CASE Agree
  <2>1. UNCHANGED viewVars /\ UNCHANGED sourceVars
    BY <1>5 DEF Agree
  <2> QED  BY <1>1, <1>2, <1>5, <2>1, AgreeKeeps
<1>6. ASSUME NEW n \in Node, handleACSOutput(n), UNCHANGED <<viewVars, sourceVars>>
      PROVE  IInv'
  <2>1. accepted' = accepted
    BY <1>6 DEF handleACSOutput
  <2>2. ProposersOK'
    BY <2>1 DEF ProposersOK
  <2> QED  BY <1>1, <1>2, <1>6, <2>2, OutcomeKeeps
<1>7. CASE UNCHANGED vars
  BY <1>1, <1>2, <1>3, <1>7 DEF vars
<1> QED  BY <1>4, <1>5, <1>6, <1>7 DEF Next

\* From the endpoint to the plan of the batch, everything keeps together, whatever
\* the endpoint answers, the sidecar serves and the other operators propose.
THEOREM Invariance == Spec => []IInv
<1> QED  BY InitIInv, StepIInv, PTL DEF Spec

\* The state of the sidecar, the provider and the merge keeps its types.
THEOREM TypeCorrectness == Spec => []TypeOK
<1>1. IInv => TypeOK
  <2> SUFFICES ASSUME IInv PROVE TypeOK
    OBVIOUS
  <2>1. \A items : \A o \in Planned(items) :
           o.status \in {"decode", "empty", "planning", "planned"}
    BY DEF Planned, Arranged, Failed
  <2>2. \A o \in Outcomes : o.status \in {"decode", "empty", "planning", "planned"}
    BY <2>1 DEF Outcomes, Failed
  <2> QED  BY <2>2 DEF IInv, ViewInv, SourceInv, ProposersOK, MergeInv, AcceptedOK, TypeOK
<1> QED  BY <1>1, Invariance, PTL

\* byHash and bySenderNonce describe one cache (alchemy_pending.go:136-165).
THEOREM CacheConsistentTheorem == Spec => []CacheConsistent
<1>1. IInv => CacheConsistent
  BY DEF IInv, ViewInv
<1> QED  BY <1>1, Invariance, PTL

\* Between polls the handlers read what the cache held at the last poll that
\* succeeded, one transaction of a sender and nonce (reader.go:44, store.go:22).
THEOREM StoreFreshTheorem == Spec => []StoreFresh
<1>1. IInv => StoreFresh
  BY DEF IInv, ViewInv
<1> QED  BY <1>1, Invariance, PTL

\* A node bound to a corpus proposes exactly the prefix it asked for, or nothing,
\* whatever file its sidecar serves (fetchMempoolInclusionListContext).
THEOREM CorpusPrefixTheorem == Spec => []CorpusPrefix
<1>1. IInv => CorpusPrefix
  BY DEF IInv
<1> QED  BY <1>1, Invariance, PTL

\* Nodes with the same accepted lists have the same batch and the same plan, in
\* whatever order their maps return the candidates (Merge, PlanDecodedBatch).
THEOREM MergeAgreementTheorem == Spec => []MergeAgreement
<1>1. IInv => MergeAgreement
  BY AgreementHolds DEF IInv
<1> QED  BY <1>1, Invariance, PTL

\* The batch has no ciphertext twice, respects the limits, is in canonical order,
\* and leaves out only what had no room (Merge).
THEOREM MergeCorrectTheorem == Spec => []MergeCorrect
<1>1. IInv => MergeCorrect
  BY CorrectHolds DEF IInv
<1> QED  BY <1>1, Invariance, PTL

\* A batch that can be decoded is always arranged: every position is in one place
\* of one sub-batch, none of which is empty or has an index twice (arrangeBatch).
THEOREM PlanSoundTheorem == Spec => []PlanSound
<1>1. IInv => PlanSound
  BY SoundHolds DEF IInv
<1> QED  BY <1>1, Invariance, PTL

\* A transaction leaves the cache when its retention is over or for a better one
\* of its sender and nonce, in whatever order they are announced and looked up
\* (alchemy_pending.go:136-165).
THEOREM OnlyForBetterTheorem == Spec => OnlyForBetter
<1>1. ViewInv /\ [ViewNext]_viewVars => [LeavesForBetter]_viewVars
  <2> SUFFICES ASSUME ViewInv, ViewNext PROVE LeavesForBetter
    OBVIOUS
  <2>1. byHash' = byHash => LeavesForBetter
    BY DEF LeavesForBetter
  <2>2. CASE FilterExpires \/ Tick \/ PollBegins \/ ensureFilter \/ ensureFilterFails
             \/ filterNotFound \/ getFilterChangesFails \/ getFilterChanges
    BY <2>1, <2>2 DEF FilterExpires, Tick, PollBegins, ensureFilter, ensureFilterFails,
                      filterNotFound, getFilterChangesFails, getFilterChanges
  <2>3. ASSUME NEW h \in Hash, Announce(h) \/ lookupSkips(h) PROVE LeavesForBetter
    BY <2>1, <2>3 DEF Announce, lookupSkips
  <2>4. ASSUME NEW S \in SUBSET Hash, NEW T \in SUBSET Hash, publicFetch(S) \/ TxpoolContent(S, T)
        PROVE  LeavesForBetter
    BY <2>1, <2>4 DEF publicFetch, TxpoolContent
  <2>5. ASSUME NEW h \in Hash, lookupFound(h) PROVE LeavesForBetter
    BY <2>5, UpsertForBetter DEF lookupFound
  <2>6. CASE FetchEnds
    BY <2>6 DEF FetchEnds, expire, Expired, LeavesForBetter
  <2> QED  BY <2>2, <2>3, <2>4, <2>5, <2>6 DEF ViewNext
<1>2. IInv /\ [Next]_vars => [LeavesForBetter]_viewVars
  <2> SUFFICES ASSUME IInv, [Next]_vars PROVE [LeavesForBetter]_viewVars
    OBVIOUS
  <2>1. ViewInv
    BY DEF IInv
  <2>2. CASE replayFetch
    BY <2>2 DEF replayFetch, LeavesForBetter
  <2>3. UNCHANGED viewVars \/ ViewNext \/ replayFetch
    BY DEF Next, vars, SourceNext, Agree, ProposeFromStore, ProposeFromCorpus,
           ProposeUnreachable, buildInclusionList, EncryptCorpus, LoadEncryptedCorpus
  <2> QED  BY <1>1, <2>1, <2>2, <2>3
<1> QED  BY <1>2, Invariance, PTL DEF Spec, OnlyForBetter
=============================================================================
