--------------------------- MODULE SchedRR_proofs ---------------------------
(***************************************************************************)
(* Lemmas about the functions of SchedRR: what the lists of the scheduler  *)
(* hold after each of them, and that each of them keeps the lists and the  *)
(* thread states in agreement.  The proofs about systems that use the      *)
(* scheduler cite them.                                                    *)
(***************************************************************************)
EXTENDS SchedRR, TLAPS, FiniteSetTheorems, SequenceTheorems

----------------------------------------------------------------------------
\* Lists.

\* The threads on a list.
On(list) == {list[i] : i \in DOMAIN list}

\* No thread is on the list twice.
Once(list) == \A i, j \in DOMAIN list : list[i] = list[j] => i = j

LEMMA ListIs ==
    ASSUME NEW list \in Seq(Thread)
    PROVE  /\ Len(list) \in Nat
           /\ DOMAIN list = 1..Len(list)
           /\ list \in [1..Len(list) -> Thread]
           /\ On(list) \subseteq Thread
  BY DEF On

LEMMA AppendList ==
    ASSUME NEW list \in Seq(Thread), NEW t \in Thread
    PROVE  /\ Append(list, t) \in Seq(Thread)
           /\ On(Append(list, t)) = On(list) \cup {t}
           /\ Once(list) /\ t \notin On(list) => Once(Append(list, t))
  <1> DEFINE n == Len(list)
             new == Append(list, t)
  <1>1. /\ n \in Nat /\ DOMAIN list = 1..n /\ DOMAIN new = 1..(n + 1)
        /\ \A i \in 1..n : new[i] = list[i]
        /\ new[n + 1] = t /\ new \in Seq(Thread)
    OBVIOUS
  <1> HIDE DEF new
  <1>2. \A i \in 1..(n + 1) : i \in 1..n \/ i = n + 1
    BY <1>1
  <1>3. On(new) = On(list) \cup {t}
    <2>1. On(new) \subseteq On(list) \cup {t}
      BY <1>1, <1>2 DEF On
    <2>2. On(list) \subseteq On(new) /\ t \in On(new)
      <3>1. 1..n \subseteq 1..(n + 1) /\ n + 1 \in 1..(n + 1)
        BY <1>1
      <3> QED
        BY <1>1, <3>1 DEF On
    <2> QED
      BY <2>1, <2>2
  <1>4. Once(list) /\ t \notin On(list) => Once(new)
    BY <1>1, <1>2 DEF On, Once
  <1> QED
    BY <1>1, <1>3, <1>4 DEF new

LEMMA ConcatList ==
    ASSUME NEW a \in Seq(Thread), NEW b \in Seq(Thread)
    PROVE  /\ a \o b \in Seq(Thread)
           /\ On(a \o b) = On(a) \cup On(b)
           /\ Once(a) /\ Once(b) /\ On(a) \cap On(b) = {} => Once(a \o b)
  <1> DEFINE n == Len(a)
             m == Len(b)
             new == a \o b
  <1>1. /\ n \in Nat /\ m \in Nat /\ DOMAIN a = 1..n /\ DOMAIN b = 1..m
        /\ DOMAIN new = 1..(n + m) /\ new \in Seq(Thread)
        /\ \A i \in 1..n : new[i] = a[i]
        /\ \A i \in 1..(n + m) : i > n => new[i] = b[i - n]
    OBVIOUS
  <1> HIDE DEF new
  <1>2. \A i \in 1..(n + m) : i \in 1..n \/ (i > n /\ i - n \in 1..m)
    BY <1>1
  <1>3. \A j \in 1..m : n + j \in 1..(n + m) /\ n + j > n /\ (n + j) - n = j
    BY <1>1
  <1>4. On(new) = On(a) \cup On(b)
    <2>1. On(new) \subseteq On(a) \cup On(b)
      BY <1>1, <1>2 DEF On
    <2>2. On(a) \subseteq On(new)
      <3>1. 1..n \subseteq 1..(n + m)
        BY <1>1
      <3> QED
        BY <1>1, <3>1 DEF On
    <2>3. On(b) \subseteq On(new)
      <3>1. \A j \in 1..m : b[j] = new[n + j] /\ n + j \in DOMAIN new
        BY <1>1, <1>3
      <3>2. \A j \in 1..m : b[j] \in On(new)
        BY <3>1 DEF On
      <3> QED
        BY <1>1, <3>2 DEF On
    <2> QED
      BY <2>1, <2>2, <2>3
  <1>5. ASSUME Once(a), Once(b), On(a) \cap On(b) = {}
        PROVE  Once(new)
    <2> SUFFICES ASSUME NEW i \in 1..(n + m), NEW j \in 1..(n + m), new[i] = new[j]
                 PROVE  i = j
      BY <1>1 DEF Once
    <2>1. \A x \in 1..n : a[x] \in On(a)
      BY <1>1 DEF On
    <2>2. \A x \in 1..m : b[x] \in On(b)
      BY <1>1 DEF On
    <2>3. CASE i \in 1..n /\ j \in 1..n
      BY <1>1, <1>5, <2>3 DEF Once
    <2>4. CASE i > n /\ j > n
      <3>1. b[i - n] = b[j - n] /\ i - n \in 1..m /\ j - n \in 1..m
        BY <1>1, <1>2, <2>4
      <3>2. i - n = j - n
        BY <1>1, <1>5, <3>1 DEF Once
      <3> QED
        BY <1>1, <3>2
    <2>5. CASE i \in 1..n /\ j > n
      BY <1>1, <1>2, <1>5, <2>1, <2>2, <2>5
    <2>6. CASE i > n /\ j \in 1..n
      BY <1>1, <1>2, <1>5, <2>1, <2>2, <2>6
    <2> QED
      BY <1>2, <2>3, <2>4, <2>5, <2>6
  <1> QED
    BY <1>1, <1>4, <1>5 DEF new

LEMMA TailList ==
    ASSUME NEW list \in Seq(Thread), list # <<>>, Once(list)
    PROVE  /\ Head(list) \in On(list)
           /\ Tail(list) \in Seq(Thread) /\ Once(Tail(list))
           /\ On(Tail(list)) = On(list) \ {Head(list)}
  <1> DEFINE n == Len(list)
             new == Tail(list)
  <1>1. /\ n \in Nat /\ n > 0 /\ DOMAIN list = 1..n /\ DOMAIN new = 1..(n - 1)
        /\ new \in Seq(Thread) /\ Head(list) = list[1]
        /\ \A i \in 1..(n - 1) : new[i] = list[i + 1]
    OBVIOUS
  <1> HIDE DEF new
  <1>2. \A i \in 1..(n - 1) : i + 1 \in 1..n /\ i + 1 # 1
    BY <1>1
  <1>3. \A i \in 1..n : i = 1 \/ (i - 1 \in 1..(n - 1) /\ (i - 1) + 1 = i)
    BY <1>1
  <1>4. 1 \in 1..n
    BY <1>1
  <1>5. Once(new)
    <2> SUFFICES ASSUME NEW i \in 1..(n - 1), NEW j \in 1..(n - 1), new[i] = new[j]
                 PROVE  i = j
      BY <1>1 DEF Once
    <2>1. i + 1 = j + 1
      BY <1>1, <1>2 DEF Once
    <2> QED
      BY <1>1, <2>1
  <1>6. On(new) = On(list) \ {list[1]}
    <2>1. On(new) \subseteq On(list) \ {list[1]}
      <3> SUFFICES ASSUME NEW i \in 1..(n - 1)
                   PROVE  new[i] \in On(list) /\ new[i] # list[1]
        BY <1>1 DEF On
      <3>1. new[i] = list[i + 1] /\ i + 1 \in DOMAIN list /\ 1 \in DOMAIN list /\ i + 1 # 1
        BY <1>1, <1>2, <1>4
      <3> QED
        BY <3>1 DEF On, Once
    <2>2. On(list) \ {list[1]} \subseteq On(new)
      <3>1. \A i \in 1..n : i # 1 => list[i] = new[i - 1] /\ i - 1 \in DOMAIN new
        BY <1>1, <1>3
      <3>2. \A i \in 1..n : i # 1 => list[i] \in On(new)
        BY <3>1 DEF On
      <3> QED
        BY <1>1, <3>2 DEF On
    <2> QED
      BY <2>1, <2>2
  <1> QED
    BY <1>1, <1>4, <1>5, <1>6 DEF On, new

\* The place of i among the elements of I, which Nth inverts.
Rank(I, i) == Cardinality({j \in I : j <= i})

LEMMA RankOrders ==
    ASSUME NEW n \in Nat, NEW I \in SUBSET (1..n)
    PROVE  /\ IsFiniteSet(I) /\ Cardinality(I) \in Nat
           /\ \A i \in I : Rank(I, i) \in 1..Cardinality(I) /\ Rank(I, i) <= i
           /\ \A i, j \in I : i < j => Rank(I, i) < Rank(I, j)
  <1> DEFINE upto(i) == {j \in I : j <= i}
  <1>0. \A i \in I : i \in Nat /\ i >= 1
    OBVIOUS
  <1>1. IsFiniteSet(I)
    <2>1. IsFiniteSet(1..n)
      BY FS_Interval
    <2> QED
      BY <2>1, FS_Subset
  <1>2. Cardinality(I) \in Nat
    BY <1>1, FS_CardinalityType
  <1>3. ASSUME NEW i \in I
        PROVE  IsFiniteSet(upto(i)) /\ Rank(I, i) \in 1..Cardinality(I) /\ Rank(I, i) <= i
    <2>1. upto(i) \in SUBSET I /\ i \in upto(i) /\ i \in Nat /\ i >= 1
      OBVIOUS
    <2>2. IsFiniteSet(upto(i)) /\ Cardinality(upto(i)) <= Cardinality(I)
      BY <1>1, <2>1, FS_Subset
    <2>3. Cardinality(upto(i)) \in Nat /\ Cardinality(upto(i)) # 0
      BY <2>1, <2>2, FS_CardinalityType, FS_EmptySet
    <2>4. upto(i) \in SUBSET (1..i)
      <3>1. \A j \in I : j <= i => j \in 1..i
        BY <1>0, <2>1
      <3> QED
        BY <3>1
    <2>5. IsFiniteSet(1..i) /\ Cardinality(1..i) = i
      BY <2>1, FS_Interval
    <2>6. Cardinality(upto(i)) <= i
      BY <2>4, <2>5, FS_Subset
    <2> QED
      BY <1>2, <2>2, <2>3, <2>6 DEF Rank
  <1>4. ASSUME NEW i \in I, NEW j \in I, i < j
        PROVE  Rank(I, i) < Rank(I, j)
    <2>1. upto(i) \in SUBSET upto(j)
      <3>1. \A x \in I : x <= i => x <= j
        BY <1>0, <1>4
      <3> QED
        BY <3>1
    <2>2. j \in upto(j) /\ j \notin upto(i)
      BY <1>4
    <2>3. /\ Cardinality(upto(i)) <= Cardinality(upto(j))
          /\ Cardinality(upto(j)) # Cardinality(upto(i))
      BY <1>3, <2>1, <2>2, FS_Subset
    <2>4. Cardinality(upto(i)) \in Nat /\ Cardinality(upto(j)) \in Nat
      BY <1>3, FS_CardinalityType
    <2> QED
      BY <2>3, <2>4 DEF Rank
  <1> QED
    BY <1>1, <1>2, <1>3, <1>4

LEMMA NthIs ==
    ASSUME NEW n \in Nat, NEW I \in SUBSET (1..n)
    PROVE  /\ \A k \in 1..Cardinality(I) : Nth(I, k) \in I /\ Rank(I, Nth(I, k)) = k
           /\ \A i \in I : Nth(I, Rank(I, i)) = i
           /\ \A k, l \in 1..Cardinality(I) : k < l => Nth(I, k) < Nth(I, l)
  <1>0. /\ IsFiniteSet(I) /\ Cardinality(I) \in Nat
        /\ \A i \in I : Rank(I, i) \in 1..Cardinality(I)
        /\ \A i, j \in I : i < j => Rank(I, i) < Rank(I, j)
    BY RankOrders
  <1>a. \A i \in I : i \in Int
    OBVIOUS
  <1>1. \A i, j \in I : Rank(I, i) = Rank(I, j) => i = j
    <2> SUFFICES ASSUME NEW i \in I, NEW j \in I, i # j
                 PROVE  Rank(I, i) # Rank(I, j)
      OBVIOUS
    <2>1. i < j \/ j < i
      OBVIOUS
    <2> QED
      BY <1>0, <2>1
  <1> DEFINE r == [i \in I |-> Rank(I, i)]
             m == Cardinality(I)
  <1>2. r \in Injection(I, 1..m)
    <2>1. r \in [I -> 1..m]
      BY <1>0
    <2>2. \A i, j \in I : r[i] = r[j] => i = j
      BY <1>1
    <2> HIDE DEF r, m
    <2> QED
      BY <2>1, <2>2 DEF Injection, IsInjective
  <1>3. IsFiniteSet(1..m) /\ Cardinality(1..m) = m
    BY <1>0, FS_Interval
  <1>4. r \in Surjection(I, 1..m)
    BY <1>2, <1>3, FS_Injection
  <1>5. \A k \in 1..m : \E i \in I : Rank(I, i) = k
    BY <1>4 DEF Surjection
  <1>6. ASSUME NEW k \in 1..m
        PROVE  Nth(I, k) \in I /\ Rank(I, Nth(I, k)) = k
    <2>1. \E i \in I : Cardinality({j \in I : j <= i}) = k
      BY <1>5 DEF Rank
    <2> QED
      BY <2>1 DEF Nth, Rank
  <1>7. \A i \in I : Nth(I, Rank(I, i)) = i
    BY <1>0, <1>1, <1>6
  <1>8. ASSUME NEW k \in 1..m, NEW l \in 1..m, k < l
        PROVE  Nth(I, k) < Nth(I, l)
    <2>1. Nth(I, k) \in Int /\ Nth(I, l) \in Int
      BY <1>6, <1>a
    <2>a. /\ Rank(I, Nth(I, k)) = k /\ Rank(I, Nth(I, l)) = l
          /\ Nth(I, k) \in I /\ Nth(I, l) \in I /\ k \in Int /\ l \in Int
      BY <1>0, <1>6
    <2>2. ~(Nth(I, l) < Nth(I, k)) /\ Nth(I, l) # Nth(I, k)
      <3>1. Nth(I, l) < Nth(I, k) => l < k
        BY <1>0, <2>a
      <3> QED
        BY <1>8, <2>a, <3>1
    <2> QED
      BY <2>1, <2>2
  <1> QED
    BY <1>6, <1>7, <1>8

\* The places of list that Selected keeps.
Kept(list, S) == {i \in DOMAIN list : list[i] \in S}

LEMMA SelectedIs ==
    ASSUME NEW list \in Seq(Thread), NEW S
    PROVE  LET I == Kept(list, S)
           IN  /\ Len(list) \in Nat /\ DOMAIN list = 1..Len(list)
               /\ I \in SUBSET (1..Len(list)) /\ Cardinality(I) \in Nat
               /\ Selected(list, S) \in Seq(Thread)
               /\ Len(Selected(list, S)) = Cardinality(I)
               /\ DOMAIN Selected(list, S) = 1..Cardinality(I)
               /\ \A k \in 1..Cardinality(I) : Selected(list, S)[k] = list[Nth(I, k)]
  <1> DEFINE I == Kept(list, S)
             m == Cardinality(I)
  <1>1. /\ Len(list) \in Nat /\ DOMAIN list = 1..Len(list)
        /\ \A i \in DOMAIN list : list[i] \in Thread
    BY ListIs
  <1>2. I \in SUBSET (1..Len(list))
    BY <1>1 DEF Kept
  <1>3. m \in Nat
    BY <1>1, <1>2, RankOrders
  <1>4. Selected(list, S) = [k \in 1..m |-> list[Nth(I, k)]]
    BY DEF Selected, Kept
  <1>5. \A k \in 1..m : list[Nth(I, k)] \in Thread
    BY <1>1, <1>2, NthIs
  <1> QED
    BY <1>1, <1>2, <1>3, <1>4, <1>5

LEMMA SelectedList ==
    ASSUME NEW list \in Seq(Thread), NEW S
    PROVE  /\ Selected(list, S) \in Seq(Thread)
           /\ On(Selected(list, S)) = On(list) \cap S
           /\ Once(list) => Once(Selected(list, S))
  <1> DEFINE I == Kept(list, S)
             m == Cardinality(I)
             new == Selected(list, S)
  <1>1. /\ Len(list) \in Nat /\ DOMAIN list = 1..Len(list)
        /\ I \in SUBSET (1..Len(list)) /\ m \in Nat
        /\ new \in Seq(Thread) /\ DOMAIN new = 1..m
        /\ \A k \in 1..m : new[k] = list[Nth(I, k)]
    BY SelectedIs
  <1>2. /\ \A k \in 1..m : Nth(I, k) \in I /\ Rank(I, Nth(I, k)) = k
        /\ \A i \in I : Nth(I, Rank(I, i)) = i
    BY <1>1, NthIs
  <1>3. \A i \in I : Rank(I, i) \in 1..m
    BY <1>1, RankOrders
  <1>4. \A i \in I : i \in DOMAIN list /\ list[i] \in S
    BY DEF Kept
  <1>5. \A i \in DOMAIN list : list[i] \in S => i \in I
    BY DEF Kept
  <1> HIDE DEF I, m, new
  <1>6. On(new) \subseteq On(list) \cap S
    BY <1>1, <1>2, <1>4 DEF On
  <1>7. On(list) \cap S \subseteq On(new)
    <2>1. \A i \in I : list[i] = new[Rank(I, i)] /\ Rank(I, i) \in DOMAIN new
      BY <1>1, <1>2, <1>3
    <2>2. \A i \in I : list[i] \in On(new)
      BY <2>1 DEF On
    <2> QED
      BY <1>5, <2>2 DEF On
  <1>8. Once(list) => Once(new)
    <2> SUFFICES ASSUME Once(list), NEW k \in 1..m, NEW l \in 1..m, new[k] = new[l]
                 PROVE  k = l
      BY <1>1 DEF Once
    <2>1. Nth(I, k) = Nth(I, l)
      BY <1>1, <1>2, <1>4 DEF Once
    <2> QED
      BY <1>2, <2>1
  <1> QED
    BY <1>1, <1>6, <1>7, <1>8 DEF new

\* A cursor stops somewhere.
LEMMA LeadingIs ==
    ASSUME NEW list \in Seq(Thread), NEW S
    PROVE  /\ Leading(list, S) \in 0..Len(list)
           /\ \A i \in 1..Leading(list, S) : list[i] \in S
           /\ Leading(list, S) < Len(list) => list[Leading(list, S) + 1] \notin S
  <1> DEFINE Stop == {n \in 0..Len(list) : n < Len(list) => list[n + 1] \notin S}
             R == {p \in Nat \X Nat : p[1] < p[2]}
  <1>1. IsWellFoundedOn(R, Nat)
    BY NatLessThanWellFounded DEF OpToRel
  <1>2. \A x, n \in Nat : x < n => <<x, n>> \in R
    OBVIOUS
  <1>3. Len(list) \in Nat /\ Stop \subseteq Nat /\ Len(list) \in Stop
    OBVIOUS
  <1> HIDE DEF R
  <1>4. PICK n \in Stop : \A x \in Stop : ~(<<x, n>> \in R)
    <2> HIDE DEF Stop
    <2> QED
      BY <1>1, <1>3, WFMin
  <1>5. \A x \in Stop : ~(x < n)
    BY <1>2, <1>3, <1>4
  <1>6. ASSUME NEW i \in 1..n PROVE list[i] \in S
    <2>1. i - 1 \in 0..Len(list) /\ i - 1 < n /\ i - 1 < Len(list) /\ (i - 1) + 1 = i
      BY <1>3, <1>4
    <2>2. i - 1 \notin Stop
      BY <1>5, <2>1
    <2> QED
      BY <2>1, <2>2
  <1> DEFINE Stops(m) == /\ \A i \in 1..m : list[i] \in S
                         /\ m < Len(list) => list[m + 1] \notin S
  <1>7. \E m \in 0..Len(list) : Stops(m)
    BY <1>4, <1>6
  <1>8. Leading(list, S) = CHOOSE m \in 0..Len(list) : Stops(m)
    BY DEF Leading
  <1>9. Leading(list, S) \in 0..Len(list) /\ Stops(Leading(list, S))
    <2> HIDE DEF Stops
    <2> QED
      BY <1>7, <1>8
  <1> QED
    BY <1>9

LEMMA CutList ==
    ASSUME NEW list \in Seq(Thread), NEW k \in 0..Len(list)
    PROVE  LET a == SubSeq(list, 1, k)
               b == SubSeq(list, k + 1, Len(list))
           IN  /\ a \in Seq(Thread) /\ b \in Seq(Thread)
               /\ Len(a) = k /\ Len(b) = Len(list) - k
               /\ \A i \in 1..k : a[i] = list[i]
               /\ \A i \in 1..(Len(list) - k) : b[i] = list[k + i]
               /\ On(list) = On(a) \cup On(b)
               /\ Once(list) => Once(a) /\ Once(b) /\ On(a) \cap On(b) = {}
  <1> DEFINE n == Len(list)
             a == SubSeq(list, 1, k)
             b == SubSeq(list, k + 1, Len(list))
  <1>1. n \in Nat /\ k \in Nat /\ k <= n /\ DOMAIN list = 1..n
    OBVIOUS
  <1>2. /\ a \in Seq(Thread) /\ Len(a) = k /\ DOMAIN a = 1..k
        /\ \A i \in 1..k : a[i] = list[i]
    BY <1>1
  <1>3. /\ b \in Seq(Thread) /\ Len(b) = n - k /\ DOMAIN b = 1..(n - k)
        /\ \A i \in 1..(n - k) : b[i] = list[k + i]
    <2>1. \A i \in (k + 1)..n : list[i] \in Thread
      BY <1>1
    <2>2. b = [i \in 1..(n - k) |-> list[i + (k + 1) - 1]]
      BY <1>1
    <2>3. \A i \in 1..(n - k) : i + (k + 1) - 1 = k + i /\ k + i \in (k + 1)..n
      BY <1>1
    <2>4. n - k \in Nat
      BY <1>1
    <2> HIDE DEF b, n
    <2>5. b \in [1..(n - k) -> Thread] /\ \A i \in 1..(n - k) : b[i] = list[k + i]
      BY <2>1, <2>2, <2>3
    <2>6. b \in Seq(Thread) /\ Len(b) = n - k
      BY <2>4, <2>5
    <2> QED
      BY <2>5, <2>6
  <1> HIDE DEF a, b
  <1>4. 1..k \subseteq 1..n /\ \A i \in 1..(n - k) : k + i \in 1..n /\ k + i > k
    BY <1>1
  <1>5. \A i \in 1..n : i \in 1..k \/ (i - k \in 1..(n - k) /\ k + (i - k) = i)
    BY <1>1
  <1>6. On(a) \subseteq On(list)
    BY <1>1, <1>2, <1>4 DEF On
  <1>7. On(b) \subseteq On(list)
    BY <1>1, <1>3, <1>4 DEF On
  <1>8. On(list) \subseteq On(a) \cup On(b)
    <2>1. \A i \in 1..n : i \in 1..k => list[i] = a[i]
      BY <1>2
    <2>2. \A i \in 1..n : i - k \in 1..(n - k) /\ k + (i - k) = i => list[i] = b[i - k]
      BY <1>3
    <2>3. \A i \in 1..n : list[i] \in On(a) \cup On(b)
      BY <1>2, <1>3, <1>5, <2>1, <2>2 DEF On
    <2> QED
      BY <1>1, <2>3 DEF On
  <1>9. ASSUME Once(list) PROVE Once(a) /\ Once(b) /\ On(a) \cap On(b) = {}
    <2>1. Once(a)
      BY <1>1, <1>2, <1>4, <1>9 DEF Once
    <2>2. Once(b)
      <3> SUFFICES ASSUME NEW i \in 1..(n - k), NEW j \in 1..(n - k), b[i] = b[j]
                   PROVE  i = j
        BY <1>3 DEF Once
      <3>1. k + i = k + j
        BY <1>1, <1>3, <1>4, <1>9 DEF Once
      <3> QED
        BY <1>1, <3>1
    <2>3. \A i \in 1..k, j \in 1..(n - k) : a[i] # b[j]
      <3> SUFFICES ASSUME NEW i \in 1..k, NEW j \in 1..(n - k), list[i] = list[k + j]
                   PROVE  FALSE
        BY <1>2, <1>3
      <3>1. i = k + j
        BY <1>1, <1>4, <1>9 DEF Once
      <3> QED
        BY <1>1, <3>1
    <2>4. On(a) \cap On(b) = {}
      BY <1>2, <1>3, <2>3 DEF On
    <2> QED
      BY <2>1, <2>2, <2>4
  <1> QED
    BY <1>2, <1>3, <1>6, <1>7, <1>8, <1>9 DEF a, b

LEMMA OneList ==
    ASSUME NEW t \in Thread
    PROVE  <<t>> \in Seq(Thread) /\ On(<<t>>) = {t} /\ Once(<<t>>)
  BY DEF On, Once

LEMMA InsertList ==
    ASSUME NEW list \in Seq(Thread), NEW k \in 0..Len(list), NEW t \in Thread
    PROVE  LET new == SubSeq(list, 1, k) \o <<t>> \o SubSeq(list, k + 1, Len(list))
           IN  /\ new \in Seq(Thread)
               /\ On(new) = On(list) \cup {t}
               /\ Once(list) /\ t \notin On(list) => Once(new)
  <1> DEFINE a == SubSeq(list, 1, k)
             b == SubSeq(list, k + 1, Len(list))
             c == <<t>>
  <1>1. /\ a \in Seq(Thread) /\ b \in Seq(Thread) /\ On(list) = On(a) \cup On(b)
        /\ Once(list) => Once(a) /\ Once(b) /\ On(a) \cap On(b) = {}
    BY CutList
  <1>2. c \in Seq(Thread) /\ On(c) = {t} /\ Once(c)
    BY OneList
  <1> HIDE DEF a, b, c
  <1>3. /\ a \o c \in Seq(Thread) /\ On(a \o c) = On(a) \cup {t}
        /\ Once(a) /\ t \notin On(a) => Once(a \o c)
    BY <1>1, <1>2, ConcatList
  <1>4. /\ (a \o c) \o b \in Seq(Thread)
        /\ On((a \o c) \o b) = On(a \o c) \cup On(b)
        /\ Once(a \o c) /\ Once(b) /\ On(a \o c) \cap On(b) = {}
              => Once((a \o c) \o b)
    BY <1>1, <1>3, ConcatList
  <1>5. On((a \o c) \o b) = On(list) \cup {t}
    BY <1>1, <1>3, <1>4
  <1>6. Once(list) /\ t \notin On(list) => Once((a \o c) \o b)
    BY <1>1, <1>3, <1>4
  <1> QED
    BY <1>4, <1>5, <1>6 DEF a, b, c

\* A thread on both lists is not farther from the head of the new one.
Ahead(q, new) ==
    \A i \in DOMAIN q, j \in DOMAIN new : new[j] = q[i] => j <= i

LEMMA AheadSame ==
    ASSUME NEW q \in Seq(Thread), Once(q)
    PROVE  Ahead(q, q)
  BY DEF Ahead, Once

LEMMA AheadTail ==
    ASSUME NEW q \in Seq(Thread), NEW a \in Seq(Thread), a # <<>>, Ahead(q, a)
    PROVE  Ahead(q, Tail(a))
  <1> DEFINE n == Len(a)
             new == Tail(a)
  <1>1. /\ n \in Nat /\ DOMAIN a = 1..n /\ DOMAIN new = 1..(n - 1)
        /\ \A i \in 1..(n - 1) : new[i] = a[i + 1]
        /\ DOMAIN q = 1..Len(q) /\ Len(q) \in Nat
    OBVIOUS
  <1> HIDE DEF new
  <1>2. \A j \in 1..(n - 1) : j + 1 \in 1..n
    BY <1>1
  <1>3. \A i \in DOMAIN q, j \in 1..(n - 1) : new[j] = q[i] => j + 1 <= i
    BY <1>1, <1>2 DEF Ahead
  <1>4. \A i \in DOMAIN q, j \in 1..(n - 1) : j + 1 <= i => j <= i
    BY <1>1
  <1>5. Ahead(q, new)
    BY <1>1, <1>3, <1>4 DEF Ahead
  <1> QED
    BY <1>5 DEF new

LEMMA AheadConcat ==
    ASSUME NEW q \in Seq(Thread), NEW b \in Seq(Thread), Once(q),
           On(q) \cap On(b) = {}
    PROVE  Ahead(q, q \o b)
  <1> DEFINE n == Len(q)
             m == Len(b)
             new == q \o b
  <1>1. /\ n \in Nat /\ m \in Nat /\ DOMAIN q = 1..n /\ DOMAIN b = 1..m
        /\ DOMAIN new = 1..(n + m)
        /\ \A i \in 1..n : new[i] = q[i]
        /\ \A i \in 1..(n + m) : i > n => new[i] = b[i - n]
    OBVIOUS
  <1> HIDE DEF new
  <1>2. \A i \in 1..(n + m) : i \in 1..n \/ (i > n /\ i - n \in 1..m)
    BY <1>1
  <1>3. SUFFICES ASSUME NEW i \in 1..n, NEW j \in 1..(n + m), new[j] = q[i]
                 PROVE  j <= i
    BY <1>1 DEF Ahead, new
  <1>4. CASE j \in 1..n
    BY <1>1, <1>3, <1>4 DEF Once
  <1>5. CASE j > n /\ j - n \in 1..m
    <2>1. b[j - n] \in On(b) /\ q[i] \in On(q)
      BY <1>1, <1>5 DEF On
    <2> QED
      BY <1>1, <1>3, <1>5, <2>1
  <1> QED
    BY <1>2, <1>4, <1>5

LEMMA AheadAppend ==
    ASSUME NEW q \in Seq(Thread), NEW t \in Thread, Once(q), t \notin On(q)
    PROVE  Ahead(q, Append(q, t))
  <1>1. <<t>> \in Seq(Thread) /\ On(<<t>>) = {t}
    BY DEF On
  <1>2. Append(q, t) = q \o <<t>>
    OBVIOUS
  <1>3. Ahead(q, q \o <<t>>)
    BY <1>1, AheadConcat
  <1> QED
    BY <1>2, <1>3

LEMMA AheadSelected ==
    ASSUME NEW q \in Seq(Thread), NEW S, Once(q)
    PROVE  Ahead(q, Selected(q, S))
  <1> DEFINE I == Kept(q, S)
             m == Cardinality(I)
             new == Selected(q, S)
  <1>1. /\ Len(q) \in Nat /\ DOMAIN q = 1..Len(q)
        /\ I \in SUBSET (1..Len(q)) /\ m \in Nat
        /\ DOMAIN new = 1..m
        /\ \A k \in 1..m : new[k] = q[Nth(I, k)]
    BY SelectedIs
  <1>2. \A k \in 1..m : Nth(I, k) \in I /\ Rank(I, Nth(I, k)) = k
    BY <1>1, NthIs
  <1>3. \A i \in I : Rank(I, i) <= i
    BY <1>1, RankOrders
  <1> HIDE DEF I, m, new
  <1>4. SUFFICES ASSUME NEW i \in DOMAIN q, NEW k \in 1..m, new[k] = q[i]
                 PROVE  k <= i
    BY <1>1 DEF Ahead, new
  <1>5. Nth(I, k) = i
    BY <1>1, <1>2, <1>4 DEF Once
  <1> QED
    BY <1>2, <1>3, <1>5

----------------------------------------------------------------------------
\* The state of the scheduler.

\* The threads on the lists, and the thread that runs.
Agrees(s) ==
    /\ Once(s.ready) /\ Once(s.blocked) /\ Once(s.sleep)
    /\ \A t \in On(s.ready) : s.st[t] = "READY"
    /\ \A t \in On(s.blocked) : s.st[t] = "BLOCKED" /\ s.wait[t] # NoKey
    /\ \A t \in On(s.sleep) : s.st[t] = "SLEEPING"
    /\ \A t \in Thread : s.st[t] = "RUNNING" => s.cur = t

\* Every thread outside R is where its state says.
Placed(s, R) ==
    \A t \in Thread \ R :
        /\ s.st[t] = "READY" => t \in On(s.ready)
        /\ s.st[t] = "BLOCKED" => t \in On(s.blocked)
        /\ s.st[t] = "SLEEPING" => t \in On(s.sleep)

Good(s, R) == s \in SchedState /\ Agrees(s) /\ Placed(s, R)

LEMMA AgreesIsCoherent == ASSUME NEW s, s \in SchedState
                          PROVE  Coherent(s) <=> Agrees(s)
  <1>1. /\ DOMAIN Lists(s) = 1..3
        /\ Lists(s)[1] = s.ready /\ Lists(s)[2] = s.blocked /\ Lists(s)[3] = s.sleep
    BY DEF Lists
  <1>2. (\A l \in 1..3 : \A i, j \in DOMAIN Lists(s)[l] :
            Lists(s)[l][i] = Lists(s)[l][j] => i = j)
          <=> Once(s.ready) /\ Once(s.blocked) /\ Once(s.sleep)
    <2>1. \A l \in 1..3 : l = 1 \/ l = 2 \/ l = 3
      OBVIOUS
    <2> QED
      BY <1>1, <2>1 DEF Once
  <1>3. /\ (\A i \in DOMAIN s.ready : s.st[s.ready[i]] = "READY")
             <=> \A t \in On(s.ready) : s.st[t] = "READY"
        /\ (\A i \in DOMAIN s.blocked : /\ s.st[s.blocked[i]] = "BLOCKED"
                                        /\ s.wait[s.blocked[i]] # NoKey)
             <=> \A t \in On(s.blocked) : s.st[t] = "BLOCKED" /\ s.wait[t] # NoKey
        /\ (\A i \in DOMAIN s.sleep : s.st[s.sleep[i]] = "SLEEPING")
             <=> \A t \in On(s.sleep) : s.st[t] = "SLEEPING"
    BY DEF On
  <1> QED
    BY <1>2, <1>3 DEF Coherent, Agrees

LEMMA StateIs ==
    ASSUME NEW s, s \in SchedState
    PROVE  /\ s.cur \in Task \cup {NoThread}
           /\ s.ready \in Seq(Thread) /\ s.blocked \in Seq(Thread)
           /\ s.sleep \in Seq(Thread)
           /\ s.st \in [Task -> State] /\ s.wait \in [Thread -> Key \cup {NoKey}]
           /\ s.due \in [Thread -> 0..MaxSleep] /\ s.left \in [Task -> 0..Quantum]
           /\ s.pending \in BOOLEAN /\ s.depth \in 0..MaxDepth
           /\ On(s.ready) \subseteq Thread /\ On(s.blocked) \subseteq Thread
           /\ On(s.sleep) \subseteq Thread
           /\ Thread \subseteq Task /\ Idle \in Task /\ Idle \notin Thread
           /\ NoThread \notin Thread
  BY ListIs, SchedAssumption DEF SchedState, Task

\* What n keeps of s.
SameWaits(s, n) ==
    /\ n.blocked = s.blocked /\ n.sleep = s.sleep
    /\ n.wait = s.wait /\ n.due = s.due

SameControl(s, n) ==
    n.cur = s.cur /\ n.left = s.left /\ n.pending = s.pending /\ n.depth = s.depth

\* n is s with t behind the ready threads.
Inserted(s, t, n) ==
    /\ n \in SchedState /\ SameWaits(s, n) /\ SameControl(s, n)
    /\ n.ready = Append(s.ready, t)
    /\ n.st = [s.st EXCEPT ![t] = "READY"]
    /\ On(n.ready) = On(s.ready) \cup {t}
    /\ Once(s.ready) /\ t \notin On(s.ready) => Once(n.ready)

LEMMA InsertIs ==
    ASSUME NEW s, s \in SchedState, NEW t \in Thread
    PROVE  Inserted(s, t, ready_insert_tail(s, t))
  <1>1. /\ Append(s.ready, t) \in Seq(Thread)
        /\ On(Append(s.ready, t)) = On(s.ready) \cup {t}
        /\ Once(s.ready) /\ t \notin On(s.ready) => Once(Append(s.ready, t))
    BY StateIs, AppendList
  <1>2. [s.st EXCEPT ![t] = "READY"] \in [Task -> State]
    BY StateIs DEF State
  <1>3. ready_insert_tail(s, t)
          = [s EXCEPT !.ready = Append(s.ready, t), !.st = [s.st EXCEPT ![t] = "READY"]]
    BY DEF ready_insert_tail, SchedState
  <1> QED
    BY <1>1, <1>2, <1>3 DEF SchedState, Inserted, SameWaits, SameControl

\* What a reschedule does with the thread that leaves the processor.
Put(s) ==
    IF s.cur \in Thread /\ s.st[s.cur] = "RUNNING" THEN ready_insert_tail(s, s.cur)
    ELSE IF s.cur = Idle THEN [s EXCEPT !.st[Idle] = "READY"] ELSE s

LeftBy(s, n) ==
    /\ SameWaits(s, n) /\ SameControl(s, n)
    /\ \A t \in Thread : /\ n.st[t] # "RUNNING"
                         /\ \/ n.st[t] = s.st[t]
                            \/ t = s.cur /\ s.st[t] = "RUNNING" /\ n.st[t] = "READY"
    /\ \/ n.ready = s.ready
       \/ /\ s.cur \in Thread /\ s.cur \notin On(s.ready)
          /\ n.ready = Append(s.ready, s.cur)

LEMMA PutGood ==
    ASSUME NEW R, NEW s, Good(s, R)
    PROVE  Good(Put(s), R) /\ LeftBy(s, Put(s))
  <1>0. s \in SchedState /\ Agrees(s) /\ Placed(s, R)
    BY DEF Good
  <1>a. \A t \in Thread : s.st[t] = "RUNNING" => /\ s.cur = t /\ t \notin On(s.ready)
                                                 /\ t \notin On(s.blocked)
                                                 /\ t \notin On(s.sleep)
    BY <1>0 DEF Agrees
  <1>1. CASE s.cur \in Thread /\ s.st[s.cur] = "RUNNING"
    <2> DEFINE n == ready_insert_tail(s, s.cur)
    <2>1. Put(s) = n
      BY <1>1 DEF Put
    <2>a. Inserted(s, s.cur, n)
      BY <1>0, <1>1, InsertIs
    <2> HIDE DEF n
    <2>2. /\ n \in SchedState /\ SameWaits(s, n) /\ SameControl(s, n)
          /\ n.ready = Append(s.ready, s.cur)
          /\ n.st = [s.st EXCEPT ![s.cur] = "READY"]
          /\ On(n.ready) = On(s.ready) \cup {s.cur}
          /\ Once(n.ready)
      BY <1>0, <1>1, <1>a, <2>a DEF Inserted, Agrees
    <2>3. \A t \in Thread : n.st[t] = IF t = s.cur THEN "READY" ELSE s.st[t]
      BY <1>0, <2>2, StateIs
    <2>4. Agrees(n)
      BY <1>0, <1>1, <1>a, <2>2, <2>3, StateIs
         DEF Agrees, SameWaits, SameControl
    <2>5. Placed(n, R)
      BY <1>0, <1>1, <2>2, <2>3 DEF Placed, SameWaits
    <2> QED
      BY <1>1, <1>a, <2>1, <2>2, <2>3, <2>4, <2>5 DEF Good, LeftBy
  <1>2. CASE s.cur = Idle
    <2> DEFINE n == [s EXCEPT !.st[Idle] = "READY"]
    <2>1. Put(s) = n
      BY <1>2, StateIs, <1>0 DEF Put
    <2>2. /\ n \in SchedState /\ SameWaits(s, n) /\ SameControl(s, n)
          /\ n.ready = s.ready /\ \A t \in Thread : n.st[t] = s.st[t]
      BY <1>0, StateIs DEF SchedState, State, SameWaits, SameControl
    <2> HIDE DEF n
    <2>3. Agrees(n) /\ Placed(n, R)
      BY <1>0, <2>2, StateIs DEF Agrees, Placed, SameWaits, SameControl
    <2>4. \A t \in Thread : n.st[t] # "RUNNING"
      BY <1>0, <1>2, <2>2, StateIs DEF Agrees
    <2> QED
      BY <2>1, <2>2, <2>3, <2>4 DEF Good, LeftBy
  <1>3. CASE ~(s.cur \in Thread /\ s.st[s.cur] = "RUNNING") /\ s.cur # Idle
    <2>1. Put(s) = s
      BY <1>3 DEF Put
    <2>2. \A t \in Thread : s.st[t] # "RUNNING"
      BY <1>a, <1>3
    <2> QED
      BY <1>0, <2>1, <2>2 DEF Good, LeftBy, SameWaits, SameControl
  <1> QED
    BY <1>1, <1>2, <1>3

\* n is s running next, with the run queue list.
Switched(s, list, next, n) ==
    /\ n \in SchedState /\ SameWaits(s, n)
    /\ n.cur = next /\ n.pending = FALSE /\ n.depth = s.depth /\ n.ready = list
    /\ n.st = [s.st EXCEPT ![next] = "RUNNING"]

LEMMA SwitchIs ==
    ASSUME NEW s, s \in SchedState, NEW list \in Seq(Thread), NEW next \in Task
    PROVE  Switched(s, list, next,
             switch_to([[s EXCEPT !.pending = FALSE] EXCEPT !.ready = list], next))
  <1>1. [s.st EXCEPT ![next] = "RUNNING"] \in [Task -> State]
    BY StateIs DEF State
  <1>2. [s.left EXCEPT ![next] = Quantum] \in [Task -> 0..Quantum]
    BY StateIs, SchedAssumption
  <1>3. switch_to([[s EXCEPT !.pending = FALSE] EXCEPT !.ready = list], next)
          = [s EXCEPT !.pending = FALSE, !.ready = list, !.cur = next,
                      !.st = [s.st EXCEPT ![next] = "RUNNING"],
                      !.left = [s.left EXCEPT ![next] = Quantum]]
    BY DEF switch_to, SchedState
  <1> QED
    BY <1>1, <1>2, <1>3 DEF SchedState, Switched, SameWaits

\* A reschedule with preemption enabled changes the current thread, the run
\* queue, and which of the threads there is running.
Rescheduled(s, n) ==
    /\ SameWaits(s, n) /\ n.pending = FALSE /\ n.depth = 0
    /\ Ahead(s.ready, n.ready)
    /\ n.cur = Idle \/ (n.cur \in Thread /\ n.st[n.cur] = "RUNNING")
    /\ \A t \in Thread :
         \/ n.st[t] = s.st[t]
         \/ s.st[t] \in {"READY", "RUNNING"} /\ n.st[t] \in {"READY", "RUNNING"}

LEMMA SwitchGood ==
    ASSUME NEW R, NEW s, Good(s, R), s.depth = 0
    PROVE  Good(ns_sched_reschedule(s), R) /\ Rescheduled(s, ns_sched_reschedule(s))
  <1> DEFINE put == Put(s)
  <1>0. Good(put, R) /\ LeftBy(s, put)
    BY PutGood
  <1>a. put \in SchedState /\ Agrees(put) /\ Placed(put, R)
    BY <1>0 DEF Good
  <1>b. ns_sched_reschedule(s)
          = LET off == [put EXCEPT !.pending = FALSE]
            IN  IF put.ready = <<>> THEN switch_to(off, Idle)
                ELSE switch_to([off EXCEPT !.ready = Tail(@)], Head(put.ready))
    BY DEF ns_sched_reschedule, Put
  <1> HIDE DEF put
  <1>1. /\ SameWaits(s, put) /\ put.depth = s.depth
        /\ \A t \in Thread : /\ put.st[t] # "RUNNING"
                             /\ \/ put.st[t] = s.st[t]
                                \/ s.st[t] = "RUNNING" /\ put.st[t] = "READY"
    BY <1>0 DEF LeftBy, SameControl
  <1>c. Ahead(s.ready, put.ready)
    <2>1. s.ready \in Seq(Thread) /\ Once(s.ready)
      BY StateIs DEF Good, Agrees
    <2>2. CASE put.ready = s.ready
      BY <2>1, <2>2, AheadSame
    <2>3. CASE /\ s.cur \in Thread /\ s.cur \notin On(s.ready)
               /\ put.ready = Append(s.ready, s.cur)
      BY <2>1, <2>3, AheadAppend
    <2> QED
      BY <1>0, <2>2, <2>3 DEF LeftBy
  <1>2. CASE put.ready = <<>>
    <2> DEFINE n == switch_to([[put EXCEPT !.pending = FALSE] EXCEPT !.ready = <<>>], Idle)
    <2>1. [[put EXCEPT !.pending = FALSE] EXCEPT !.ready = <<>>] = [put EXCEPT !.pending = FALSE]
      BY <1>2, <1>a DEF SchedState
    <2>2. ns_sched_reschedule(s) = n
      BY <1>2, <1>b, <2>1
    <2>a. <<>> \in Seq(Thread) /\ Idle \in Task
      BY DEF Task
    <2>3. Switched(put, <<>>, Idle, n)
      BY <1>a, <2>a, SwitchIs
    <2> HIDE DEF n
    <2>4. \A t \in Thread : n.st[t] = put.st[t]
      BY <1>a, <2>3, StateIs DEF Switched
    <2>5. Agrees(n) /\ Placed(n, R)
      BY <1>1, <1>2, <1>a, <2>3, <2>4, StateIs
         DEF Agrees, Placed, Switched, SameWaits
    <2>6. Ahead(s.ready, n.ready)
      BY <1>2, <1>c, <2>3 DEF Switched
    <2> QED
      BY <1>1, <2>2, <2>3, <2>4, <2>5, <2>6
         DEF Good, Rescheduled, Switched, SameWaits
  <1>3. CASE put.ready # <<>>
    <2> DEFINE next == Head(put.ready)
               n == switch_to([[put EXCEPT !.pending = FALSE] EXCEPT !.ready = Tail(put.ready)], next)
    <2>1. ns_sched_reschedule(s) = n
      BY <1>3, <1>a, <1>b DEF SchedState
    <2>a. /\ next \in On(put.ready)
          /\ Tail(put.ready) \in Seq(Thread) /\ Once(Tail(put.ready))
          /\ On(Tail(put.ready)) = On(put.ready) \ {next}
      BY <1>3, <1>a, StateIs, TailList DEF Agrees
    <2>b. next \in Thread /\ put.st[next] = "READY" /\ next \in Task
      BY <1>a, <2>a, StateIs DEF Agrees
    <2> HIDE DEF next
    <2>2. Switched(put, Tail(put.ready), next, n)
      BY <1>a, <2>a, <2>b, SwitchIs
    <2> HIDE DEF n
    <2>3. \A t \in Thread : n.st[t] = IF t = next THEN "RUNNING" ELSE put.st[t]
      BY <1>a, <2>2, StateIs DEF Switched
    <2>4. Agrees(n)
      BY <1>1, <1>a, <2>2, <2>3, <2>a, <2>b, StateIs DEF Agrees, Switched, SameWaits
    <2>5. Placed(n, R)
      BY <1>1, <1>a, <2>2, <2>3, <2>a, <2>b, StateIs DEF Placed, Switched, SameWaits
    <2>6. Ahead(s.ready, n.ready)
      <3>1. s.ready \in Seq(Thread) /\ put.ready \in Seq(Thread)
        BY <1>a, StateIs DEF Good
      <3>2. Ahead(s.ready, Tail(put.ready))
        BY <1>3, <1>c, <3>1, AheadTail
      <3> QED
        BY <2>2, <3>2 DEF Switched
    <2> QED
      BY <1>1, <2>1, <2>2, <2>3, <2>4, <2>5, <2>6, <2>b
         DEF Good, Rescheduled, Switched, SameWaits
  <1> QED
    BY <1>2, <1>3

\* Good does not look at deadlines, quanta and the preemption control.
LEMMA GoodSame ==
    ASSUME NEW R, NEW s, Good(s, R), NEW n, n \in SchedState,
           n.cur = s.cur, n.ready = s.ready, n.blocked = s.blocked,
           n.sleep = s.sleep, n.wait = s.wait,
           \A t \in Thread : n.st[t] = s.st[t]
    PROVE  Good(n, R)
  BY StateIs DEF Good, Agrees, Placed

LEMMA PendingIs ==
    ASSUME NEW s, s \in SchedState, NEW b \in BOOLEAN
    PROVE  LET n == [s EXCEPT !.pending = b]
           IN  /\ n \in SchedState /\ SameWaits(s, n) /\ n.ready = s.ready
               /\ n.cur = s.cur /\ n.st = s.st /\ n.left = s.left
               /\ n.depth = s.depth /\ n.pending = b
  BY DEF SchedState, SameWaits

\* A reschedule that is put off only leaves its mark.
PutOff(s, n) ==
    /\ SameWaits(s, n) /\ n.cur = s.cur /\ n.st = s.st /\ n.ready = s.ready
    /\ n.depth = s.depth

LEMMA RescheduleGood ==
    ASSUME NEW R, NEW s, Good(s, R)
    PROVE  LET n == ns_sched_reschedule(s)
           IN  /\ Good(n, R)
               /\ s.depth = 0 => Rescheduled(s, n)
               /\ s.depth # 0 => PutOff(s, n)
  <1>1. CASE s.depth = 0
    BY <1>1, SwitchGood
  <1>2. CASE s.depth # 0
    <2> DEFINE n == [s EXCEPT !.pending = TRUE]
    <2>1. ns_sched_reschedule(s) = n
      BY <1>2 DEF ns_sched_reschedule
    <2>2. /\ n \in SchedState /\ SameWaits(s, n) /\ n.ready = s.ready
          /\ n.cur = s.cur /\ n.st = s.st /\ n.depth = s.depth
      BY PendingIs DEF Good
    <2> HIDE DEF n
    <2>3. Good(n, R)
      BY <2>2, GoodSame DEF SameWaits
    <2> QED
      BY <1>2, <2>1, <2>2, <2>3 DEF PutOff
  <1> QED
    BY <1>1, <1>2

LEMMA ReschedGood ==
    ASSUME NEW R, NEW s, Good(s, R)
    PROVE  /\ Good(Resched(s), R)
           /\ s.depth = 0 => Rescheduled(s, Resched(s))
           /\ s.depth # 0 => PutOff(s, Resched(s))
  <1> DEFINE m == [s EXCEPT !.pending = TRUE]
  <1>1. /\ m \in SchedState /\ SameWaits(s, m) /\ m.ready = s.ready
        /\ m.cur = s.cur /\ m.st = s.st /\ m.depth = s.depth
    BY PendingIs DEF Good
  <1>2. Resched(s) = ns_sched_reschedule(m)
    BY DEF Resched
  <1> HIDE DEF m
  <1>3. Good(m, R)
    BY <1>1, GoodSame DEF SameWaits
  <1>4. /\ Good(ns_sched_reschedule(m), R)
        /\ m.depth = 0 => Rescheduled(m, ns_sched_reschedule(m))
        /\ m.depth # 0 => PutOff(m, ns_sched_reschedule(m))
    BY <1>3, RescheduleGood
  <1>5. s.depth = 0 => Rescheduled(s, Resched(s))
    BY <1>1, <1>2, <1>4 DEF Rescheduled, SameWaits
  <1>6. s.depth # 0 => PutOff(s, Resched(s))
    BY <1>1, <1>2, <1>4 DEF PutOff, SameWaits
  <1> QED
    BY <1>2, <1>4, <1>5, <1>6

LEMMA WithoutList ==
    ASSUME NEW list \in Seq(Thread), NEW t
    PROVE  /\ Without(list, t) \in Seq(Thread)
           /\ On(Without(list, t)) = On(list) \ {t}
           /\ Once(list) => Once(Without(list, t))
  <1>1. On(list) \subseteq Thread
    BY ListIs
  <1>2. /\ Selected(list, Thread \ {t}) \in Seq(Thread)
        /\ On(Selected(list, Thread \ {t})) = On(list) \cap (Thread \ {t})
        /\ Once(list) => Once(Selected(list, Thread \ {t}))
    BY SelectedList
  <1> QED
    BY <1>1, <1>2 DEF Without

\* ns_sched_add, ns_sched_wake_thread: t is taken off the other lists first.
LEMMA AddGood ==
    ASSUME NEW R, NEW s, Good(s, R), NEW t \in Thread, MayAdd(s, t)
    PROVE  LET n == ns_sched_add(s, t)
           IN  /\ Good(n, R \ {t})
               /\ n.cur = s.cur /\ n.depth = s.depth /\ n.pending = s.pending
               /\ n.ready = Append(s.ready, t)
               /\ n.due = s.due /\ n.sleep = Without(s.sleep, t)
               /\ \A u \in Thread : n.st[u] = IF u = t THEN "READY" ELSE s.st[u]
               /\ \A u \in Thread : u # t => n.wait[u] = s.wait[u]
  <1>0. s \in SchedState /\ Agrees(s) /\ Placed(s, R)
    BY DEF Good
  <1> DEFINE m == [s EXCEPT !.blocked = Without(s.blocked, t),
                            !.sleep = Without(s.sleep, t),
                            !.wait = [s.wait EXCEPT ![t] = NoKey]]
             n == ready_insert_tail(m, t)
  <1>1. ns_sched_add(s, t) = n
    BY <1>0 DEF ns_sched_add, SchedState
  <1>2. /\ Without(s.blocked, t) \in Seq(Thread) /\ Without(s.sleep, t) \in Seq(Thread)
        /\ On(Without(s.blocked, t)) = On(s.blocked) \ {t}
        /\ On(Without(s.sleep, t)) = On(s.sleep) \ {t}
        /\ Once(Without(s.blocked, t)) /\ Once(Without(s.sleep, t))
    BY <1>0, StateIs, WithoutList DEF Agrees
  <1>3. /\ m \in SchedState /\ m.cur = s.cur /\ m.ready = s.ready /\ m.st = s.st
        /\ m.due = s.due /\ m.left = s.left /\ m.pending = s.pending
        /\ m.depth = s.depth
        /\ m.blocked = Without(s.blocked, t) /\ m.sleep = Without(s.sleep, t)
        /\ m.wait = [s.wait EXCEPT ![t] = NoKey]
    BY <1>0, <1>2 DEF SchedState
  <1> HIDE DEF m
  <1>4. Inserted(m, t, n)
    BY <1>3, InsertIs
  <1>5. t \notin On(s.ready) /\ s.st[t] # "RUNNING"
    BY DEF MayAdd, Listed, On
  <1> HIDE DEF n
  <1>6. /\ n \in SchedState /\ n.cur = s.cur /\ n.due = s.due /\ n.left = s.left
        /\ n.pending = s.pending /\ n.depth = s.depth
        /\ n.blocked = Without(s.blocked, t) /\ n.sleep = Without(s.sleep, t)
        /\ n.ready = Append(s.ready, t) /\ On(n.ready) = On(s.ready) \cup {t}
        /\ Once(n.ready)
    BY <1>0, <1>3, <1>4, <1>5 DEF Inserted, SameWaits, SameControl, Agrees
  <1>7. /\ \A u \in Thread : n.st[u] = IF u = t THEN "READY" ELSE s.st[u]
        /\ \A u \in Thread : n.wait[u] = IF u = t THEN NoKey ELSE s.wait[u]
    BY <1>0, <1>3, <1>4, StateIs DEF Inserted, SameWaits
  <1>8. Agrees(n)
    <2>1. /\ On(s.ready) \subseteq Thread /\ On(s.blocked) \subseteq Thread
          /\ On(s.sleep) \subseteq Thread
      BY <1>0, StateIs
    <2>2. \A u \in On(n.ready) : n.st[u] = "READY"
      BY <1>0, <1>6, <1>7, <2>1 DEF Agrees
    <2>3. \A u \in On(n.blocked) : n.st[u] = "BLOCKED" /\ n.wait[u] # NoKey
      BY <1>0, <1>2, <1>6, <1>7, <2>1 DEF Agrees
    <2>4. \A u \in On(n.sleep) : n.st[u] = "SLEEPING"
      BY <1>0, <1>2, <1>6, <1>7, <2>1 DEF Agrees
    <2>5. \A u \in Thread : n.st[u] = "RUNNING" => n.cur = u
      BY <1>0, <1>6, <1>7 DEF Agrees
    <2> QED
      BY <1>2, <1>6, <2>2, <2>3, <2>4, <2>5 DEF Agrees
  <1>9. Placed(n, R \ {t})
    BY <1>0, <1>2, <1>6, <1>7 DEF Placed
  <1> QED
    BY <1>1, <1>6, <1>7, <1>8, <1>9 DEF Good

\* n is s with the waiting thread t ready.
Woken(s, t, n) ==
    /\ n.cur = s.cur /\ n.depth = s.depth /\ n.pending = s.pending
    /\ n.ready = Append(s.ready, t) /\ t \notin On(s.ready)
    /\ n.due = [s.due EXCEPT ![t] = 0] /\ n.sleep = Without(s.sleep, t)
    /\ \A u \in Thread : n.st[u] = IF u = t THEN "READY" ELSE s.st[u]
    /\ \A u \in Thread : u # t => n.wait[u] = s.wait[u]

LEMMA WakeThreadGood ==
    ASSUME NEW R, NEW s, Good(s, R), NEW t \in Thread,
           s.st[t] \in {"BLOCKED", "SLEEPING"}
    PROVE  /\ Good(ns_sched_wake_thread(s, t), R \ {t})
           /\ Woken(s, t, ns_sched_wake_thread(s, t))
  <1>0. s \in SchedState /\ Agrees(s)
    BY DEF Good
  <1> DEFINE m == [s EXCEPT !.due = [s.due EXCEPT ![t] = 0]]
  <1>1. [s.due EXCEPT ![t] = 0] \in [Thread -> 0..MaxSleep]
    BY <1>0, StateIs, SchedAssumption
  <1>2. /\ m \in SchedState /\ m.cur = s.cur /\ m.ready = s.ready /\ m.st = s.st
        /\ m.blocked = s.blocked /\ m.sleep = s.sleep /\ m.wait = s.wait
        /\ m.pending = s.pending /\ m.depth = s.depth
        /\ m.due = [s.due EXCEPT ![t] = 0]
    BY <1>0, <1>1 DEF SchedState
  <1>3. ns_sched_wake_thread(s, t) = ns_sched_add(m, t)
    BY <1>0 DEF ns_sched_wake_thread, ns_sched_add, SchedState
  <1>a. t \notin On(s.ready)
    BY <1>0 DEF Agrees
  <1>4. MayAdd(m, t)
    BY <1>0, <1>2, <1>a DEF MayAdd, Listed, On
  <1> HIDE DEF m
  <1>5. Good(m, R)
    BY <1>2, GoodSame
  <1>6. LET n == ns_sched_add(m, t)
        IN  /\ Good(n, R \ {t})
            /\ n.cur = m.cur /\ n.depth = m.depth /\ n.pending = m.pending
            /\ n.ready = Append(m.ready, t)
            /\ n.due = m.due /\ n.sleep = Without(m.sleep, t)
            /\ \A u \in Thread : n.st[u] = IF u = t THEN "READY" ELSE m.st[u]
            /\ \A u \in Thread : u # t => n.wait[u] = m.wait[u]
    BY <1>4, <1>5, AddGood, SMTT(30)
  <1> QED
    BY <1>2, <1>3, <1>6, <1>a DEF Woken

LEMMA RemoveGood ==
    ASSUME NEW R, NEW s, Good(s, R), NEW t \in Thread
    PROVE  LET n == ns_sched_remove(s, t)
           IN  /\ Good(n, R \cup {t})
               /\ s.st[t] = "RUNNING" => Good(n, R)
               /\ n.cur = s.cur /\ n.depth = s.depth /\ n.st = s.st
               /\ s.cur # t => n.pending = s.pending
               /\ n.ready = Without(s.ready, t)
               /\ n.due = s.due /\ n.sleep = Without(s.sleep, t)
  <1>0. s \in SchedState /\ Agrees(s) /\ Placed(s, R)
    BY DEF Good
  <1> DEFINE n == ns_sched_remove(s, t)
  <1>1. /\ Without(s.ready, t) \in Seq(Thread)
        /\ Without(s.blocked, t) \in Seq(Thread) /\ Without(s.sleep, t) \in Seq(Thread)
        /\ On(Without(s.ready, t)) = On(s.ready) \ {t}
        /\ On(Without(s.blocked, t)) = On(s.blocked) \ {t}
        /\ On(Without(s.sleep, t)) = On(s.sleep) \ {t}
        /\ Once(Without(s.ready, t))
        /\ Once(Without(s.blocked, t)) /\ Once(Without(s.sleep, t))
    BY <1>0, StateIs, WithoutList DEF Agrees
  <1>a. (s.pending \/ s.cur = t) \in BOOLEAN
    OBVIOUS
  <1>2. /\ n \in SchedState /\ n.cur = s.cur /\ n.st = s.st /\ n.wait = s.wait
        /\ n.due = s.due /\ n.depth = s.depth
        /\ s.cur # t => n.pending = s.pending
        /\ n.ready = Without(s.ready, t)
        /\ n.blocked = Without(s.blocked, t) /\ n.sleep = Without(s.sleep, t)
    BY <1>0, <1>1, <1>a DEF SchedState, ns_sched_remove
  <1> HIDE DEF n
  <1>3. Agrees(n)
    BY <1>0, <1>1, <1>2 DEF Agrees
  <1>4. Placed(n, R \cup {t})
    BY <1>0, <1>1, <1>2 DEF Placed
  <1>5. ASSUME s.st[t] = "RUNNING" PROVE Placed(n, R)
    BY <1>0, <1>1, <1>2, <1>5 DEF Placed
  <1> QED
    BY <1>2, <1>3, <1>4, <1>5 DEF Good, n

LEMMA PrepareGood ==
    ASSUME NEW R, NEW s, Good(s, R), NEW key \in Key,
           s.cur \in Thread, s.st[s.cur] = "RUNNING"
    PROVE  LET n == ns_sched_prepare_block(s, key)
           IN  /\ Good(n, R)
               /\ n.cur = s.cur /\ n.depth = s.depth /\ n.pending = s.pending
               /\ n.ready = s.ready /\ n.sleep = s.sleep /\ n.due = s.due
               /\ \A u \in Thread : n.st[u] = IF u = s.cur THEN "BLOCKED" ELSE s.st[u]
               /\ \A u \in Thread : n.wait[u] = IF u = s.cur THEN key ELSE s.wait[u]
  <1>0. s \in SchedState /\ Agrees(s) /\ Placed(s, R)
    BY DEF Good
  <1> DEFINE n == ns_sched_prepare_block(s, key)
             c == <<s.cur>>
             list == c \o s.blocked
  <1>a. s.cur \notin On(s.ready) /\ s.cur \notin On(s.blocked) /\ s.cur \notin On(s.sleep)
    BY <1>0 DEF Agrees
  <1>1. c \in Seq(Thread) /\ On(c) = {s.cur} /\ Once(c)
    BY OneList
  <1>2. list \in Seq(Thread) /\ On(list) = On(s.blocked) \cup {s.cur} /\ Once(list)
    <2> HIDE DEF c
    <2>1. /\ list \in Seq(Thread) /\ On(list) = On(c) \cup On(s.blocked)
          /\ Once(c) /\ Once(s.blocked) /\ On(c) \cap On(s.blocked) = {} => Once(list)
      BY <1>0, <1>1, StateIs, ConcatList
    <2> QED
      BY <1>0, <1>1, <1>a, <2>1 DEF Agrees
  <1>3. /\ [s.st EXCEPT ![s.cur] = "BLOCKED"] \in [Task -> State]
        /\ [s.wait EXCEPT ![s.cur] = key] \in [Thread -> Key \cup {NoKey}]
    BY <1>0, StateIs DEF State
  <1>4. n = [s EXCEPT !.st = [s.st EXCEPT ![s.cur] = "BLOCKED"],
                      !.wait = [s.wait EXCEPT ![s.cur] = key], !.blocked = list]
    BY <1>0 DEF ns_sched_prepare_block, SchedState
  <1> HIDE DEF list
  <1>5. /\ n \in SchedState /\ n.cur = s.cur /\ n.depth = s.depth
        /\ n.pending = s.pending /\ n.ready = s.ready /\ n.sleep = s.sleep
        /\ n.due = s.due /\ n.blocked = list
        /\ n.st = [s.st EXCEPT ![s.cur] = "BLOCKED"]
        /\ n.wait = [s.wait EXCEPT ![s.cur] = key]
    BY <1>0, <1>2, <1>3, <1>4 DEF SchedState
  <1> HIDE DEF n
  <1>6. /\ \A u \in Thread : n.st[u] = IF u = s.cur THEN "BLOCKED" ELSE s.st[u]
        /\ \A u \in Thread : n.wait[u] = IF u = s.cur THEN key ELSE s.wait[u]
    BY <1>0, <1>5, StateIs
  <1>7. On(s.ready) \subseteq Thread /\ On(s.blocked) \subseteq Thread
        /\ On(s.sleep) \subseteq Thread /\ key # NoKey
    BY <1>0, StateIs, SchedAssumption
  <1>8. Agrees(n)
    BY <1>0, <1>2, <1>5, <1>6, <1>7, <1>a DEF Agrees
  <1>9. Placed(n, R)
    BY <1>0, <1>2, <1>5, <1>6 DEF Placed
  <1> QED
    BY <1>5, <1>6, <1>8, <1>9 DEF Good, n

\* A reschedule that was asked for is made, unless preemption is disabled.
MadeUp(s, n) == n.pending => n.depth > 0 \/ (s.pending /\ s.depth = 0)

\* The deadlines and the list of sleepers are as they were.
SameSleep(s, n) == n.sleep = s.sleep /\ n.due = s.due

LEMMA SwitchesMakeUp ==
    ASSUME NEW s, s \in SchedState, NEW m, m \in SchedState, m.depth = s.depth,
           NEW n, m.depth = 0 => Rescheduled(m, n), m.depth # 0 => PutOff(m, n),
           Once(m.ready)
    PROVE  MadeUp(s, n) /\ SameWaits(m, n) /\ Ahead(m.ready, n.ready)
  <1>1. m.depth \in Nat /\ m.ready \in Seq(Thread)
    BY StateIs
  <1>2. CASE m.depth = 0
    BY <1>2 DEF Rescheduled, MadeUp
  <1>3. CASE m.depth # 0
    <2>1. SameWaits(m, n) /\ n.ready = m.ready /\ n.depth = m.depth
      BY <1>3 DEF PutOff
    <2> QED
      BY <1>1, <1>3, <2>1, AheadSame DEF MadeUp
  <1> QED
    BY <1>2, <1>3

LEMMA YieldGood ==
    ASSUME NEW R, NEW s, Good(s, R)
    PROVE  LET n == Resched(s)
           IN  /\ Good(n, R) /\ MadeUp(s, n)
               /\ SameWaits(s, n) /\ Ahead(s.ready, n.ready)
  <1>1. /\ Good(Resched(s), R)
        /\ s.depth = 0 => Rescheduled(s, Resched(s))
        /\ s.depth # 0 => PutOff(s, Resched(s))
    BY ReschedGood
  <1>2. s \in SchedState /\ Once(s.ready)
    BY DEF Good, Agrees
  <1> QED
    BY <1>1, <1>2, SwitchesMakeUp

\* ns_sched_reschedule as the boot path calls it.
LEMMA StartGood ==
    ASSUME NEW R, NEW s, Good(s, R)
    PROVE  LET n == ns_sched_reschedule(s)
           IN  /\ Good(n, R) /\ MadeUp(s, n)
               /\ SameWaits(s, n) /\ Ahead(s.ready, n.ready)
  <1>1. /\ Good(ns_sched_reschedule(s), R)
        /\ s.depth = 0 => Rescheduled(s, ns_sched_reschedule(s))
        /\ s.depth # 0 => PutOff(s, ns_sched_reschedule(s))
    BY RescheduleGood
  <1>2. s \in SchedState /\ Once(s.ready)
    BY DEF Good, Agrees
  <1> QED
    BY <1>1, <1>2, SwitchesMakeUp

LEMMA CommitGood ==
    ASSUME NEW R, NEW s, Good(s, R), s.cur \in Thread
    PROVE  LET n == ns_sched_commit_block(s)
           IN  /\ Good(n, R) /\ MadeUp(s, n)
               /\ SameSleep(s, n) /\ Ahead(s.ready, n.ready)
  <1>0. s \in SchedState /\ Agrees(s) /\ Placed(s, R) /\ Once(s.ready)
        /\ s.depth \in Nat
    BY StateIs DEF Good, Agrees
  <1> DEFINE n == ns_sched_commit_block(s)
  <1>1. CASE s.st[s.cur] = "BLOCKED"
    <2>1. n = Resched(s)
      BY <1>1 DEF ns_sched_commit_block
    <2> HIDE DEF n
    <2> QED
      BY <2>1, YieldGood DEF SameWaits, SameSleep, n
  <1>2. CASE s.st[s.cur] = "READY" /\ Listed(s.ready, s.cur)
    <2> DEFINE q == Without(s.ready, s.cur)
    <2>1. n = [s EXCEPT !.ready = q, !.st = [s.st EXCEPT ![s.cur] = "RUNNING"]]
      BY <1>0, <1>2 DEF ns_sched_commit_block, SchedState
    <2>2. q \in Seq(Thread) /\ On(q) = On(s.ready) \ {s.cur} /\ Once(q)
      BY <1>0, StateIs, WithoutList
    <2>3. Ahead(s.ready, q)
      BY <1>0, StateIs, AheadSelected DEF Without
    <2> HIDE DEF q
    <2>4. [s.st EXCEPT ![s.cur] = "RUNNING"] \in [Task -> State]
      BY <1>0, StateIs DEF State
    <2>5. /\ n \in SchedState /\ n.cur = s.cur /\ SameWaits(s, n) /\ n.ready = q
          /\ n.pending = s.pending /\ n.depth = s.depth
          /\ n.st = [s.st EXCEPT ![s.cur] = "RUNNING"]
      BY <1>0, <2>1, <2>2, <2>4 DEF SchedState, SameWaits
    <2> HIDE DEF n
    <2>6. \A t \in Thread : n.st[t] = IF t = s.cur THEN "RUNNING" ELSE s.st[t]
      BY <1>0, <2>5, StateIs
    <2>7. /\ On(s.ready) \subseteq Thread /\ On(s.blocked) \subseteq Thread
          /\ On(s.sleep) \subseteq Thread
      BY <1>0, StateIs
    <2>8. Agrees(n)
      BY <1>0, <1>2, <2>2, <2>5, <2>6, <2>7 DEF Agrees, SameWaits
    <2>9. Placed(n, R)
      BY <1>0, <2>2, <2>5, <2>6 DEF Placed, SameWaits
    <2>10. MadeUp(s, n)
      BY <1>0, <2>5 DEF MadeUp
    <2> QED
      BY <2>3, <2>5, <2>8, <2>9, <2>10 DEF Good, SameWaits, SameSleep, n
  <1>3. CASE s.st[s.cur] # "BLOCKED" /\ ~(s.st[s.cur] = "READY" /\ Listed(s.ready, s.cur))
    <2>1. n = s
      BY <1>3 DEF ns_sched_commit_block
    <2>2. MadeUp(s, s) /\ Ahead(s.ready, s.ready)
      BY <1>0, StateIs, AheadSame DEF MadeUp
    <2> QED
      BY <2>1, <2>2 DEF SameSleep
  <1> QED
    BY <1>1, <1>2, <1>3

----------------------------------------------------------------------------
\* The list of sleepers is sorted.

InOrder(list, due) ==
    \A i, j \in DOMAIN list : i < j => due[list[i]] <= due[list[j]]

\* The list is sorted by deadline and no deadline on it has passed.
Timely(s) ==
    /\ InOrder(s.sleep, s.due)
    /\ \A t \in On(s.sleep) : s.due[t] > 0

LEMMA SelectedInOrder ==
    ASSUME NEW list \in Seq(Thread), NEW S, NEW due, InOrder(list, due)
    PROVE  InOrder(Selected(list, S), due)
  <1> DEFINE I == Kept(list, S)
             m == Cardinality(I)
             new == Selected(list, S)
  <1>1. /\ Len(list) \in Nat /\ DOMAIN list = 1..Len(list)
        /\ I \in SUBSET (1..Len(list)) /\ m \in Nat
        /\ DOMAIN new = 1..m
        /\ \A k \in 1..m : new[k] = list[Nth(I, k)]
    BY SelectedIs
  <1>2. /\ \A k \in 1..m : Nth(I, k) \in I
        /\ \A k, l \in 1..m : k < l => Nth(I, k) < Nth(I, l)
    BY <1>1, NthIs
  <1> HIDE DEF I, m, new
  <1>a. I \subseteq DOMAIN list
    BY <1>1
  <1>3. InOrder(new, due)
    <2> SUFFICES ASSUME NEW i \in 1..m, NEW j \in 1..m, i < j
                 PROVE  due[new[i]] <= due[new[j]]
      BY <1>1 DEF InOrder
    <2>1. /\ Nth(I, i) \in DOMAIN list /\ Nth(I, j) \in DOMAIN list
          /\ Nth(I, i) < Nth(I, j)
      BY <1>2, <1>a
    <2>2. due[list[Nth(I, i)]] <= due[list[Nth(I, j)]]
      BY <2>1 DEF InOrder
    <2> QED
      BY <1>1, <2>2
  <1> QED
    BY <1>3 DEF new

\* A list without t is still sorted, whatever becomes of the deadline of t.
LEMMA TimelyWithout ==
    ASSUME NEW s, s \in SchedState, Timely(s), NEW t \in Thread,
           NEW n, n \in SchedState, n.sleep = Without(s.sleep, t),
           \A u \in Thread : u # t => n.due[u] = s.due[u]
    PROVE  Timely(n)
  <1>1. s.sleep \in Seq(Thread) /\ n.sleep \in Seq(Thread)
    BY StateIs
  <1>2. On(n.sleep) = On(s.sleep) \ {t} /\ On(n.sleep) \subseteq Thread
    BY <1>1, WithoutList, ListIs
  <1>3. InOrder(n.sleep, s.due)
    BY <1>1, SelectedInOrder DEF Timely, Without
  <1>4. \A i \in DOMAIN n.sleep : n.due[n.sleep[i]] = s.due[n.sleep[i]]
    BY <1>2 DEF On
  <1>5. InOrder(n.sleep, n.due)
    BY <1>3, <1>4 DEF InOrder
  <1> QED
    BY <1>2, <1>5 DEF Timely

LEMMA CutInOrder ==
    ASSUME NEW list \in Seq(Thread), NEW k \in 0..Len(list), NEW due,
           InOrder(list, due)
    PROVE  InOrder(SubSeq(list, k + 1, Len(list)), due)
  <1> DEFINE n == Len(list)
             b == SubSeq(list, k + 1, Len(list))
  <1>1. /\ b \in Seq(Thread) /\ Len(b) = n - k
        /\ \A i \in 1..(n - k) : b[i] = list[k + i]
    BY CutList
  <1>2. n \in Nat /\ DOMAIN list = 1..n /\ DOMAIN b = 1..(n - k)
    BY <1>1, ListIs
  <1> HIDE DEF b
  <1>3. \A i \in 1..(n - k) : k + i \in 1..n
    BY <1>2
  <1>4. \A i, j \in 1..(n - k) : i < j => k + i < k + j
    BY <1>2
  <1>5. InOrder(b, due)
    <2> SUFFICES ASSUME NEW i \in 1..(n - k), NEW j \in 1..(n - k), i < j
                 PROVE  due[b[i]] <= due[b[j]]
      BY <1>2 DEF InOrder
    <2>1. k + i \in DOMAIN list /\ k + j \in DOMAIN list /\ k + i < k + j
      BY <1>2, <1>3, <1>4
    <2>2. due[list[k + i]] <= due[list[k + j]]
      BY <2>1 DEF InOrder
    <2> QED
      BY <1>1, <2>2
  <1> QED
    BY <1>5 DEF b

LEMMA PlacedAt ==
    ASSUME NEW list \in Seq(Thread), NEW k \in 0..Len(list), NEW t \in Thread
    PROVE  LET new == SubSeq(list, 1, k) \o <<t>> \o SubSeq(list, k + 1, Len(list))
           IN  /\ DOMAIN new = 1..(Len(list) + 1)
               /\ \A i \in 1..k : new[i] = list[i]
               /\ new[k + 1] = t
               /\ \A i \in 1..(Len(list) + 1) : i > k + 1 => new[i] = list[i - 1]
  <1> DEFINE a == SubSeq(list, 1, k)
             b == SubSeq(list, k + 1, Len(list))
             c == <<t>>
             n == Len(list)
             new == (a \o c) \o b
  <1>1. /\ a \in Seq(Thread) /\ b \in Seq(Thread)
        /\ Len(a) = k /\ Len(b) = Len(list) - k
        /\ \A i \in 1..k : a[i] = list[i]
        /\ \A i \in 1..(Len(list) - k) : b[i] = list[k + i]
    BY CutList
  <1>2. c \in Seq(Thread) /\ Len(c) = 1 /\ c[1] = t
    OBVIOUS
  <1>3. n \in Nat /\ k \in Nat /\ k <= n
    OBVIOUS
  <1> HIDE DEF a, b, c, n
  <1>4. /\ a \o c \in Seq(Thread) /\ Len(a \o c) = k + 1
        /\ \A i \in 1..k : (a \o c)[i] = a[i]
        /\ (a \o c)[k + 1] = c[1]
    <2>a. a \in Seq(Thread) /\ c \in Seq(Thread)
      BY <1>1, <1>2
    <2>1. /\ a \o c \in Seq(Thread) /\ Len(a \o c) = Len(a) + Len(c)
          /\ \A i \in 1..(Len(a) + Len(c)) :
                (a \o c)[i] = IF i <= Len(a) THEN a[i] ELSE c[i - Len(a)]
      BY ONLY <2>a
    <2>2. k + 1 \in 1..(k + 1) /\ ~(k + 1 <= k) /\ (k + 1) - k = 1
          /\ \A i \in 1..k : i \in 1..(k + 1) /\ i <= k
      BY <1>3
    <2>3. a \o c \in Seq(Thread) /\ Len(a \o c) = k + 1
      BY <1>1, <1>2, <2>1
    <2> QED
      BY <1>1, <1>2, <2>1, <2>2, <2>3
  <1>5. /\ DOMAIN new = 1..((k + 1) + (n - k))
        /\ \A i \in 1..(k + 1) : new[i] = (a \o c)[i]
        /\ \A i \in 1..((k + 1) + (n - k)) : i > k + 1 => new[i] = b[i - (k + 1)]
    <2>1. Len(b) = n - k /\ b \in Seq(Thread)
      BY <1>1 DEF n
    <2>2. /\ Len(new) = Len(a \o c) + Len(b) /\ new \in Seq(Thread)
          /\ \A i \in 1..(Len(a \o c) + Len(b)) :
                new[i] = IF i <= Len(a \o c) THEN (a \o c)[i] ELSE b[i - Len(a \o c)]
      <3>1. a \o c \in Seq(Thread) /\ b \in Seq(Thread)
        BY <1>4, <2>1
      <3> QED
        BY ONLY <3>1
    <2> HIDE DEF new
    <2>3. /\ Len(new) = (k + 1) + (n - k)
          /\ \A i \in 1..((k + 1) + (n - k)) :
                new[i] = IF i <= k + 1 THEN (a \o c)[i] ELSE b[i - (k + 1)]
      BY <1>4, <2>1, <2>2
    <2>4. DOMAIN new = 1..Len(new)
      BY <2>2
    <2>5. \A i \in 1..(k + 1) : i \in 1..((k + 1) + (n - k)) /\ i <= k + 1
      BY <1>3
    <2>6. \A i \in 1..(k + 1) : new[i] = (a \o c)[i]
      BY <2>3, <2>5
    <2>7. \A i \in 1..((k + 1) + (n - k)) : i > k + 1 => new[i] = b[i - (k + 1)]
      BY <1>3, <2>3
    <2> QED
      BY <2>3, <2>4, <2>6, <2>7
  <1> HIDE DEF new
  <1>6. (k + 1) + (n - k) = n + 1
    BY <1>3
  <1>7. \A i \in 1..k : i \in 1..(k + 1)
    BY <1>3
  <1>8. k + 1 \in 1..(k + 1)
    BY <1>3
  <1>9. ASSUME NEW i \in 1..(n + 1), i > k + 1 PROVE new[i] = list[i - 1]
    <2>1. i - (k + 1) \in 1..(n - k) /\ k + (i - (k + 1)) = i - 1
      BY <1>3, <1>9
    <2>2. b[i - (k + 1)] = list[k + (i - (k + 1))]
      BY <1>1, <2>1 DEF n
    <2>3. new[i] = b[i - (k + 1)]
      BY <1>5, <1>6, <1>9
    <2> QED
      BY <2>1, <2>2, <2>3
  <1>10. \A i \in 1..k : new[i] = list[i]
    BY <1>1, <1>4, <1>5, <1>7
  <1>11. new[k + 1] = t
    BY <1>2, <1>4, <1>5, <1>8
  <1> QED
    BY <1>5, <1>6, <1>9, <1>10, <1>11 DEF a, b, c, n, new

LEMMA InsertInOrder ==
    ASSUME NEW list \in Seq(Thread), NEW due \in [Thread -> Nat], NEW d \in Nat,
           NEW t \in Thread, t \notin On(list), InOrder(list, due)
    PROVE  LET k == Leading(list, {u \in Thread : due[u] <= d})
           IN  InOrder(SubSeq(list, 1, k) \o <<t>> \o SubSeq(list, k + 1, Len(list)),
                       [due EXCEPT ![t] = d])
  <1> DEFINE S == {u \in Thread : due[u] <= d}
             k == Leading(list, S)
             n == Len(list)
             new == SubSeq(list, 1, k) \o <<t>> \o SubSeq(list, k + 1, Len(list))
             nd == [due EXCEPT ![t] = d]
  <1>1. /\ k \in 0..n
        /\ \A i \in 1..k : list[i] \in S
        /\ k < n => list[k + 1] \notin S
    BY LeadingIs
  <1>2. /\ n \in Nat /\ DOMAIN list = 1..n
        /\ \A i \in 1..n : list[i] \in Thread
    OBVIOUS
  <1>3. \A i \in 1..n : nd[list[i]] = due[list[i]] /\ due[list[i]] \in Nat
    BY <1>2 DEF On
  <1>4. nd[t] = d
    OBVIOUS
  <1>5. \A i \in 1..k : due[list[i]] <= d
    BY <1>1
  <1>6. ASSUME NEW i \in 1..n, i > k PROVE due[list[i]] > d
    <2>1. k < n /\ k + 1 \in 1..n /\ (i = k + 1 \/ k + 1 < i)
      BY <1>1, <1>2, <1>6
    <2>2. due[list[k + 1]] > d
      BY <1>1, <1>2, <1>3, <2>1
    <2>3. due[list[k + 1]] <= due[list[i]]
      BY <1>2, <1>3, <2>1 DEF InOrder
    <2> QED
      BY <1>3, <2>1, <2>2, <2>3
  <1> HIDE DEF S, k, nd
  <1>7. /\ DOMAIN new = 1..(n + 1)
        /\ \A i \in 1..k : new[i] = list[i]
        /\ new[k + 1] = t
        /\ \A i \in 1..(n + 1) : i > k + 1 => new[i] = list[i - 1]
    BY <1>1, PlacedAt
  <1> HIDE DEF new, n
  <1>8. SUFFICES ASSUME NEW i \in 1..(n + 1), NEW j \in 1..(n + 1), i < j
                 PROVE  nd[new[i]] <= nd[new[j]]
    <2>1. InOrder(new, nd)
      BY <1>7, <1>8 DEF InOrder
    <2> QED
      BY <2>1 DEF new, nd, k, S, n
  <1>9. CASE j <= k
    <2>1. i \in 1..k /\ j \in 1..k /\ i \in 1..n /\ j \in 1..n
      BY <1>1, <1>2, <1>8, <1>9
    <2>2. due[list[i]] <= due[list[j]]
      BY <1>2, <1>8, <2>1 DEF InOrder
    <2> QED
      BY <1>3, <1>7, <2>1, <2>2
  <1>10. CASE j = k + 1
    <2>1. i \in 1..k /\ i \in 1..n
      BY <1>1, <1>2, <1>8, <1>10
    <2> QED
      BY <1>3, <1>4, <1>5, <1>7, <1>10, <2>1
  <1>11. CASE j > k + 1
    <2>1. j - 1 \in 1..n /\ j - 1 > k /\ new[j] = list[j - 1]
      BY <1>1, <1>2, <1>7, <1>8, <1>11
    <2>2. CASE i = k + 1
      <3>1. due[list[j - 1]] > d
        BY <1>6, <2>1
      <3> QED
        BY <1>3, <1>4, <1>7, <2>1, <2>2, <3>1
    <2>3. CASE i <= k
      <3>1. i \in 1..k /\ i \in 1..n /\ i < j - 1
        BY <1>1, <1>2, <2>1, <2>3
      <3>2. due[list[i]] <= due[list[j - 1]]
        BY <1>2, <2>1, <3>1 DEF InOrder
      <3> QED
        BY <1>3, <1>7, <2>1, <3>1, <3>2
    <2>4. CASE i > k + 1
      <3>1. i - 1 \in 1..n /\ i - 1 < j - 1 /\ new[i] = list[i - 1]
        BY <1>1, <1>2, <1>7, <1>8, <2>4
      <3> QED
        BY <1>2, <1>3, <2>1, <3>1 DEF InOrder
    <2> QED
      BY <1>1, <1>2, <2>2, <2>3, <2>4
  <1> QED
    BY <1>1, <1>2, <1>9, <1>10, <1>11

\* Somebody runs.
Runs(s) == s.cur = Idle \/ (s.cur \in Thread /\ s.st[s.cur] = "RUNNING")

\* The current thread of s is in state x in n, and others run.
Away(s, n, x) ==
    /\ n.depth = 0 /\ Runs(n) /\ n.wait = s.wait /\ n.st[s.cur] = x
    /\ \A t \in Thread \ {s.cur} :
         \/ n.st[t] = s.st[t]
         \/ s.st[t] \in {"READY", "RUNNING"} /\ n.st[t] \in {"READY", "RUNNING"}

LEMMA SleepGood ==
    ASSUME NEW R, NEW s, Good(s, R), Timely(s), NEW d \in 1..MaxSleep,
           s.cur \in Thread, s.st[s.cur] = "RUNNING"
    PROVE  LET n == ns_sched_sleep_until(s, d)
           IN  /\ Good(n, R) /\ Timely(n) /\ MadeUp(s, n)
               /\ Ahead(s.ready, n.ready)
               /\ s.depth = 0 => Away(s, n, "SLEEPING")
  <1>0. s \in SchedState /\ Agrees(s) /\ Placed(s, R)
    BY DEF Good
  <1> DEFINE c == s.cur
             k == Leading(s.sleep, {u \in Thread : s.due[u] <= d})
             list == SubSeq(s.sleep, 1, k) \o <<c>> \o SubSeq(s.sleep, k + 1, Len(s.sleep))
             m == [s EXCEPT !.st = [s.st EXCEPT ![c] = "SLEEPING"],
                            !.due = [s.due EXCEPT ![c] = d], !.sleep = list]
  <1>1. ns_sched_sleep_until(s, d) = Resched(m)
    BY <1>0 DEF ns_sched_sleep_until, SleepInsert, SchedState
  <1>2. c \notin On(s.ready) /\ c \notin On(s.blocked) /\ c \notin On(s.sleep)
    BY <1>0 DEF Agrees
  <1>3. s.sleep \in Seq(Thread) /\ Once(s.sleep) /\ k \in 0..Len(s.sleep)
    BY <1>0, StateIs, LeadingIs DEF Agrees
  <1>4. list \in Seq(Thread) /\ On(list) = On(s.sleep) \cup {c} /\ Once(list)
    BY <1>2, <1>3, InsertList
  <1>5. s.due \in [Thread -> Nat] /\ d \in Nat /\ d > 0 /\ d \in 0..MaxSleep
    BY <1>0, StateIs, SchedAssumption
  <1>6. InOrder(list, [s.due EXCEPT ![c] = d])
    BY <1>2, <1>3, <1>5, InsertInOrder DEF Timely
  <1>7. /\ [s.st EXCEPT ![c] = "SLEEPING"] \in [Task -> State]
        /\ [s.due EXCEPT ![c] = d] \in [Thread -> 0..MaxSleep]
    BY <1>0, <1>5, StateIs DEF State
  <1> HIDE DEF list
  <1>8. /\ m \in SchedState /\ m.cur = s.cur /\ m.ready = s.ready
        /\ m.blocked = s.blocked /\ m.sleep = list /\ m.wait = s.wait
        /\ m.pending = s.pending /\ m.depth = s.depth
        /\ m.st = [s.st EXCEPT ![c] = "SLEEPING"]
        /\ m.due = [s.due EXCEPT ![c] = d]
    BY <1>0, <1>4, <1>7 DEF SchedState
  <1> HIDE DEF m
  <1>9. /\ \A t \in Thread : m.st[t] = IF t = c THEN "SLEEPING" ELSE s.st[t]
        /\ \A t \in Thread : m.due[t] = IF t = c THEN d ELSE s.due[t]
    BY <1>0, <1>8, StateIs
  <1>10. /\ On(s.ready) \subseteq Thread /\ On(s.blocked) \subseteq Thread
         /\ On(s.sleep) \subseteq Thread
    BY <1>0, StateIs
  <1>11. Agrees(m)
    BY <1>0, <1>2, <1>4, <1>8, <1>9, <1>10 DEF Agrees
  <1>12. Placed(m, R)
    BY <1>0, <1>4, <1>8, <1>9 DEF Placed
  <1>13. Good(m, R)
    BY <1>8, <1>11, <1>12 DEF Good
  <1>14. Timely(m)
    BY <1>4, <1>5, <1>6, <1>8, <1>9, <1>10 DEF Timely
  <1>15. /\ Good(Resched(m), R) /\ MadeUp(m, Resched(m))
         /\ SameWaits(m, Resched(m)) /\ Ahead(m.ready, Resched(m).ready)
    BY <1>13, YieldGood
  <1>16. s.depth = 0 => Away(s, Resched(m), "SLEEPING")
    <2>1. s.depth = 0 => Rescheduled(m, Resched(m))
      BY <1>8, <1>13, ReschedGood
    <2> QED
      BY <1>8, <1>9, <2>1 DEF Rescheduled, Away, Runs, SameWaits
  <1> QED
    BY <1>1, <1>8, <1>14, <1>15, <1>16 DEF MadeUp, Timely, SameWaits

\* A thread the scheduler no longer runs: it has not started or it has ended.
Quiet == {"EMBRYO", "ZOMBIE"}

\* ns_sched_terminate_current and the release of a thread.
LEMMA QuietGood ==
    ASSUME NEW R, NEW s, Good(s, R), NEW t \in Thread,
           s.st[t] \in {"RUNNING"} \cup Quiet, NEW q \in Quiet
    PROVE  LET n == [s EXCEPT !.st[t] = q]
           IN  /\ Good(n, R) /\ SameWaits(s, n) /\ SameControl(s, n)
               /\ n.ready = s.ready
               /\ \A u \in Thread : n.st[u] = IF u = t THEN q ELSE s.st[u]
  <1>0. s \in SchedState /\ Agrees(s) /\ Placed(s, R)
    BY DEF Good
  <1> DEFINE n == [s EXCEPT !.st[t] = q]
  <1>1. /\ n \in SchedState /\ SameWaits(s, n) /\ SameControl(s, n)
        /\ n.ready = s.ready
    BY <1>0, StateIs DEF SchedState, State, Quiet, SameWaits, SameControl
  <1>2. \A u \in Thread : n.st[u] = IF u = t THEN q ELSE s.st[u]
    BY <1>0, StateIs DEF SchedState
  <1> HIDE DEF n
  <1>3. t \notin On(s.ready) /\ t \notin On(s.blocked) /\ t \notin On(s.sleep)
    BY <1>0 DEF Agrees, Quiet
  <1>4. /\ On(s.ready) \subseteq Thread /\ On(s.blocked) \subseteq Thread
        /\ On(s.sleep) \subseteq Thread
        /\ q # "RUNNING" /\ q # "READY" /\ q # "BLOCKED" /\ q # "SLEEPING"
    BY <1>0, StateIs DEF Quiet
  <1>5. Agrees(n)
    BY <1>0, <1>1, <1>2, <1>3, <1>4 DEF Agrees, SameWaits, SameControl
  <1>6. Placed(n, R)
    BY <1>0, <1>1, <1>2, <1>4 DEF Placed, SameWaits
  <1> QED
    BY <1>1, <1>2, <1>5, <1>6 DEF Good, n

LEMMA TerminateGood ==
    ASSUME NEW R, NEW s, Good(s, R), s.cur \in Thread,
           s.st[s.cur] \in {"RUNNING"} \cup Quiet
    PROVE  LET n == ns_sched_terminate_current(s)
           IN  /\ Good(n, R) /\ MadeUp(s, n)
               /\ SameWaits(s, n) /\ Ahead(s.ready, n.ready)
               /\ s.depth = 0 => Away(s, n, "ZOMBIE")
  <1> DEFINE m == [s EXCEPT !.st[s.cur] = "ZOMBIE"]
  <1>1. /\ Good(m, R) /\ SameWaits(s, m) /\ SameControl(s, m) /\ m.ready = s.ready
        /\ \A u \in Thread : m.st[u] = IF u = s.cur THEN "ZOMBIE" ELSE s.st[u]
    <2>1. "ZOMBIE" \in Quiet
      BY DEF Quiet
    <2> QED
      BY <2>1, QuietGood
  <1>2. ns_sched_terminate_current(s) = Resched(m)
    BY DEF ns_sched_terminate_current
  <1> HIDE DEF m
  <1>3. /\ Good(Resched(m), R) /\ MadeUp(m, Resched(m))
        /\ SameWaits(m, Resched(m)) /\ Ahead(m.ready, Resched(m).ready)
    BY <1>1, YieldGood
  <1>4. s.depth = 0 => Away(s, Resched(m), "ZOMBIE")
    <2>1. s.depth = 0 => Rescheduled(m, Resched(m))
      BY <1>1, ReschedGood DEF SameControl
    <2> QED
      BY <1>1, <2>1 DEF Rescheduled, Away, Runs, SameWaits
  <1> QED
    BY <1>1, <1>2, <1>3, <1>4 DEF MadeUp, SameWaits, SameControl

LEMMA DisableGood ==
    ASSUME NEW R, NEW s, Good(s, R), s.depth < MaxDepth
    PROVE  LET n == ns_sched_preempt_disable(s)
           IN  /\ Good(n, R) /\ SameWaits(s, n) /\ n.ready = s.ready
               /\ n.depth > 0
  <1>0. s \in SchedState
    BY DEF Good
  <1>1. s.depth + 1 \in 0..MaxDepth /\ s.depth + 1 > 0
    BY <1>0, StateIs, SchedAssumption
  <1> DEFINE n == ns_sched_preempt_disable(s)
  <1>2. /\ n \in SchedState /\ SameWaits(s, n) /\ n.ready = s.ready
        /\ n.cur = s.cur /\ n.st = s.st /\ n.depth > 0
    BY <1>0, <1>1 DEF SchedState, ns_sched_preempt_disable, SameWaits
  <1> HIDE DEF n
  <1>3. Good(n, R)
    BY <1>2, GoodSame DEF SameWaits
  <1> QED
    BY <1>2, <1>3 DEF n

LEMMA EnableGood ==
    ASSUME NEW R, NEW s, Good(s, R)
    PROVE  LET n == ns_sched_preempt_enable(s)
           IN  /\ Good(n, R) /\ MadeUp(s, n)
               /\ SameWaits(s, n) /\ Ahead(s.ready, n.ready)
  <1>0. s \in SchedState /\ s.ready \in Seq(Thread) /\ Once(s.ready)
    BY StateIs DEF Good, Agrees
  <1> DEFINE e == IF s.depth # 0 THEN s.depth - 1 ELSE 0
             m == [s EXCEPT !.depth = e]
             n == ns_sched_preempt_enable(s)
  <1>1. e \in 0..MaxDepth /\ e \in Nat /\ (s.depth = 0 => e = 0)
    BY <1>0, StateIs, SchedAssumption
  <1>2. n = IF m.depth = 0 /\ m.pending THEN ns_sched_reschedule(m) ELSE m
    BY <1>0 DEF ns_sched_preempt_enable, SchedState
  <1> HIDE DEF e
  <1>3. /\ m \in SchedState /\ SameWaits(s, m) /\ m.ready = s.ready
        /\ m.cur = s.cur /\ m.st = s.st /\ m.depth = e /\ m.pending = s.pending
    BY <1>0, <1>1 DEF SchedState, SameWaits
  <1> HIDE DEF m, n
  <1>4. Good(m, R)
    BY <1>3, GoodSame DEF SameWaits
  <1>5. CASE m.depth = 0 /\ m.pending
    <2>1. Good(ns_sched_reschedule(m), R) /\ Rescheduled(m, ns_sched_reschedule(m))
      BY <1>4, <1>5, SwitchGood
    <2> QED
      BY <1>2, <1>3, <1>5, <2>1 DEF Rescheduled, SameWaits, MadeUp, n
  <1>6. CASE ~(m.depth = 0 /\ m.pending)
    <2>1. n = m
      BY <1>2, <1>6
    <2>2. MadeUp(s, m)
      BY <1>1, <1>3, <1>6 DEF MadeUp
    <2> QED
      BY <1>0, <1>3, <1>4, <2>1, <2>2, AheadSame DEF n
  <1> QED
    BY <1>5, <1>6

LEMMA AheadThrough ==
    ASSUME NEW q \in Seq(Thread), NEW a \in Seq(Thread), NEW b \in Seq(Thread),
           On(q) \subseteq On(a), Ahead(q, a), Ahead(a, b)
    PROVE  Ahead(q, b)
  <1>1. /\ \A i \in DOMAIN q : i \in Nat
        /\ \A i \in DOMAIN a : i \in Nat
        /\ \A i \in DOMAIN b : i \in Nat
    OBVIOUS
  <1> SUFFICES ASSUME NEW i \in DOMAIN q, NEW j \in DOMAIN b, b[j] = q[i]
               PROVE  j <= i
    BY DEF Ahead
  <1>2. q[i] \in On(a)
    BY DEF On
  <1>3. PICK l \in DOMAIN a : a[l] = q[i]
    BY <1>2 DEF On
  <1>4. l <= i /\ j <= l
    BY <1>3 DEF Ahead
  <1> QED
    BY <1>1, <1>4

LEMMA WakeGood ==
    ASSUME NEW R, NEW s, Good(s, R), NEW key \in Key
    PROVE  LET n == ns_sched_wake(s, key)
           IN  /\ Good(n, R) /\ SameSleep(s, n) /\ SameControl(s, n)
               /\ Ahead(s.ready, n.ready)
               /\ \A t \in Thread :
                    \/ n.st[t] = s.st[t] /\ n.wait[t] = s.wait[t]
                    \/ /\ t \in On(s.blocked) /\ s.wait[t] = key
                       /\ n.st[t] = "READY" /\ n.wait[t] = NoKey
               /\ \A t \in On(n.blocked) : n.wait[t] # key
  <1>0. s \in SchedState /\ Agrees(s) /\ Placed(s, R)
    BY DEF Good
  <1> DEFINE up == Selected(s.blocked, {t \in Thread : s.wait[t] = key})
             rest == Selected(s.blocked, {t \in Thread : s.wait[t] # key})
             st == [t \in Task |-> IF t \in On(up) THEN "READY" ELSE s.st[t]]
             wait == [t \in Thread |-> IF t \in On(up) THEN NoKey ELSE s.wait[t]]
             ready == s.ready \o up
             n == ns_sched_wake(s, key)
  <1>1. n = [s EXCEPT !.blocked = rest, !.ready = ready, !.st = st, !.wait = wait]
    BY <1>0 DEF ns_sched_wake, SchedState, On
  <1>2. /\ up \in Seq(Thread) /\ Once(up)
        /\ On(up) = On(s.blocked) \cap {t \in Thread : s.wait[t] = key}
    BY <1>0, StateIs, SelectedList DEF Agrees
  <1>3. /\ rest \in Seq(Thread) /\ Once(rest)
        /\ On(rest) = On(s.blocked) \cap {t \in Thread : s.wait[t] # key}
    BY <1>0, StateIs, SelectedList DEF Agrees
  <1> HIDE DEF up, rest
  <1>4. On(s.ready) \cap On(up) = {} /\ s.ready \in Seq(Thread) /\ Once(s.ready)
    BY <1>0, <1>2, StateIs DEF Agrees
  <1>5. ready \in Seq(Thread) /\ On(ready) = On(s.ready) \cup On(up) /\ Once(ready)
    BY <1>2, <1>4, ConcatList
  <1>6. Ahead(s.ready, ready)
    BY <1>2, <1>4, AheadConcat
  <1>7. st \in [Task -> State] /\ wait \in [Thread -> Key \cup {NoKey}]
    BY <1>0, StateIs DEF State
  <1> HIDE DEF ready, st, wait
  <1>8. /\ n \in SchedState /\ SameSleep(s, n) /\ SameControl(s, n)
        /\ n.ready = ready /\ n.blocked = rest /\ n.st = st /\ n.wait = wait
    BY <1>0, <1>1, <1>3, <1>5, <1>7 DEF SchedState, SameSleep, SameControl
  <1> HIDE DEF n
  <1>9. /\ \A t \in Thread : n.st[t] = IF t \in On(up) THEN "READY" ELSE s.st[t]
        /\ \A t \in Thread : n.wait[t] = IF t \in On(up) THEN NoKey ELSE s.wait[t]
    BY <1>0, <1>8, StateIs DEF st, wait
  <1>10. /\ On(s.ready) \subseteq Thread /\ On(s.blocked) \subseteq Thread
         /\ On(s.sleep) \subseteq Thread
    BY <1>0, StateIs
  <1>11. Agrees(n)
    <2>1. \A t \in On(n.ready) : n.st[t] = "READY"
      BY <1>0, <1>5, <1>8, <1>9, <1>10, <1>2 DEF Agrees
    <2>2. \A t \in On(n.blocked) : n.st[t] = "BLOCKED" /\ n.wait[t] # NoKey
      BY <1>0, <1>2, <1>3, <1>8, <1>9, <1>10 DEF Agrees
    <2>3. \A t \in On(n.sleep) : n.st[t] = "SLEEPING"
      BY <1>0, <1>2, <1>8, <1>9, <1>10 DEF Agrees, SameSleep
    <2>4. \A t \in Thread : n.st[t] = "RUNNING" => n.cur = t
      BY <1>0, <1>8, <1>9 DEF Agrees, SameControl
    <2> QED
      BY <1>0, <1>3, <1>5, <1>8, <2>1, <2>2, <2>3, <2>4 DEF Agrees, SameSleep
  <1>12. Placed(n, R)
    BY <1>0, <1>2, <1>3, <1>5, <1>8, <1>9 DEF Placed, SameSleep
  <1>13. \A t \in On(n.blocked) : n.wait[t] # key
    BY <1>2, <1>3, <1>8, <1>9
  <1> QED
    BY <1>2, <1>6, <1>8, <1>9, <1>11, <1>12, <1>13 DEF Good, n

LEMMA SpendIs ==
    ASSUME NEW x \in 0..Quantum
    PROVE  Spend(x) \in 0..Quantum
  BY SchedAssumption DEF Spend

\* A tick before the reschedule it may ask for.
Ticked(s, n) ==
    /\ n \in SchedState /\ n.cur = s.cur /\ n.depth = s.depth
    /\ n.blocked = s.blocked /\ n.wait = s.wait
    /\ \E up \in Seq(Thread) :
         /\ On(s.sleep) = On(up) \cup On(n.sleep) /\ On(up) \cap On(n.sleep) = {}
         /\ Once(up) /\ Once(n.sleep)
         /\ n.ready = s.ready \o up
         /\ \A t \in Thread : n.st[t] = IF t \in On(up) THEN "READY" ELSE s.st[t]

LEMMA TickedGood ==
    ASSUME NEW R, NEW s, Good(s, R), NEW n, Ticked(s, n)
    PROVE  Good(n, R) /\ Ahead(s.ready, n.ready) /\ On(s.ready) \subseteq On(n.ready)
  <1>0. s \in SchedState /\ Agrees(s) /\ Placed(s, R)
    BY DEF Good
  <1>1. PICK up \in Seq(Thread) :
           /\ On(s.sleep) = On(up) \cup On(n.sleep) /\ On(up) \cap On(n.sleep) = {}
           /\ Once(up) /\ Once(n.sleep)
           /\ n.ready = s.ready \o up
           /\ \A t \in Thread : n.st[t] = IF t \in On(up) THEN "READY" ELSE s.st[t]
    BY DEF Ticked
  <1>2. /\ n \in SchedState /\ n.cur = s.cur
        /\ n.blocked = s.blocked /\ n.wait = s.wait
    BY DEF Ticked
  <1>3. On(s.ready) \cap On(up) = {} /\ s.ready \in Seq(Thread) /\ Once(s.ready)
    BY <1>0, <1>1, StateIs DEF Agrees
  <1>4. On(n.ready) = On(s.ready) \cup On(up) /\ Once(n.ready)
    BY <1>1, <1>3, ConcatList
  <1>5. Ahead(s.ready, n.ready)
    BY <1>1, <1>3, AheadConcat
  <1>6. /\ On(s.ready) \subseteq Thread /\ On(s.blocked) \subseteq Thread
        /\ On(s.sleep) \subseteq Thread
    BY <1>0, StateIs
  <1>7. Agrees(n)
    <2>1. \A t \in On(n.ready) : n.st[t] = "READY"
      BY <1>0, <1>1, <1>4, <1>6 DEF Agrees
    <2>2. \A t \in On(n.blocked) : n.st[t] = "BLOCKED" /\ n.wait[t] # NoKey
      BY <1>0, <1>1, <1>2, <1>6 DEF Agrees
    <2>3. \A t \in On(n.sleep) : n.st[t] = "SLEEPING"
      BY <1>0, <1>1, <1>6 DEF Agrees
    <2>4. \A t \in Thread : n.st[t] = "RUNNING" => n.cur = t
      BY <1>0, <1>1, <1>2 DEF Agrees
    <2> QED
      BY <1>0, <1>1, <1>2, <1>4, <2>1, <2>2, <2>3, <2>4 DEF Agrees
  <1>8. Placed(n, R)
    BY <1>0, <1>1, <1>2, <1>4 DEF Placed
  <1> QED
    BY <1>2, <1>4, <1>5, <1>7, <1>8 DEF Good

LEMMA TickGood ==
    ASSUME NEW R, NEW s, Good(s, R), Timely(s), s.cur # NoThread
    PROVE  LET n == ns_sched_tick(s)
           IN  /\ Good(n, R) /\ Timely(n) /\ MadeUp(s, n)
               /\ Ahead(s.ready, n.ready)
               /\ n.blocked = s.blocked /\ n.wait = s.wait
               /\ \A t \in Thread :
                    \/ n.st[t] = s.st[t]
                    \/ /\ s.st[t] \in {"READY", "RUNNING", "SLEEPING"}
                       /\ n.st[t] \in {"READY", "RUNNING"}
               /\ s.depth = 0 /\ Runs(s) => n.depth = 0 /\ Runs(n)
  <1>0. s \in SchedState /\ Agrees(s) /\ Placed(s, R) /\ s.cur \in Task
    BY StateIs DEF Good
  <1> DEFINE due == [t \in Thread |-> IF t \in On(s.sleep) /\ s.due[t] > 0
                                      THEN s.due[t] - 1 ELSE s.due[t]]
             k == Leading(s.sleep, {t \in Thread : due[t] = 0})
             up == SubSeq(s.sleep, 1, k)
             rest == SubSeq(s.sleep, k + 1, Len(s.sleep))
             left == IF s.cur \in Thread THEN Spend(s.left[s.cur]) ELSE s.left[s.cur]
             due0 == [t \in Thread |-> IF t \in On(up) THEN 0 ELSE due[t]]
             st == [t \in Task |-> IF t \in On(up) THEN "READY" ELSE s.st[t]]
             ready == s.ready \o up
             pend == \/ s.pending
                     \/ s.cur = Idle /\ s.ready \o up # <<>>
                     \/ s.cur # Idle /\ left = 0
             m == [s EXCEPT !.sleep = rest, !.due = due0, !.st = st, !.ready = ready,
                            !.left = [s.left EXCEPT ![s.cur] = left], !.pending = pend]
  <1>1. /\ s.sleep \in Seq(Thread) /\ Once(s.sleep) /\ s.ready \in Seq(Thread)
        /\ s.due \in [Thread -> 0..MaxSleep] /\ MaxSleep \in Nat
    BY <1>0, StateIs, SchedAssumption DEF Agrees
  <1>2. /\ k \in 0..Len(s.sleep)
        /\ \A i \in 1..k : s.sleep[i] \in {t \in Thread : due[t] = 0}
        /\ k < Len(s.sleep) => s.sleep[k + 1] \notin {t \in Thread : due[t] = 0}
    BY <1>1, LeadingIs
  <1>3. /\ up \in Seq(Thread) /\ rest \in Seq(Thread)
        /\ Len(up) = k /\ Len(rest) = Len(s.sleep) - k
        /\ \A i \in 1..(Len(s.sleep) - k) : rest[i] = s.sleep[k + i]
        /\ On(s.sleep) = On(up) \cup On(rest)
        /\ Once(up) /\ Once(rest) /\ On(up) \cap On(rest) = {}
    <2> HIDE DEF due, k
    <2> QED
      BY <1>1, <1>2, CutList
  <1>4. ns_sched_tick(s) = IF m.pending THEN ns_sched_reschedule(m) ELSE m
    <2>1. up = Expired(s.sleep, due)
      BY DEF Expired
    <2>2. rest = SubSeq(s.sleep, Len(up) + 1, Len(s.sleep))
      BY <1>3
    <2> HIDE DEF k, up, rest
    <2> QED
      BY <1>0, <2>1, <2>2 DEF ns_sched_tick, SchedState, On
  <1>5. /\ due \in [Thread -> 0..MaxSleep]
        /\ \A t \in Thread : due[t] \in Nat
        /\ \A t \in On(s.sleep) : due[t] = s.due[t] - 1
    <2>1. \A t \in Thread : s.due[t] \in 0..MaxSleep
      BY <1>1
    <2>2. \A x \in 0..MaxSleep : x > 0 => x - 1 \in 0..MaxSleep
      BY <1>1
    <2>3. due \in [Thread -> 0..MaxSleep]
      BY <2>1, <2>2
    <2>4. \A t \in Thread : due[t] \in Nat
      <3> HIDE DEF due
      <3> QED
        BY <1>1, <2>3
    <2>5. On(s.sleep) \subseteq Thread /\ \A t \in On(s.sleep) : s.due[t] > 0
      BY <1>1, ListIs DEF Timely
    <2> QED
      BY <2>3, <2>4, <2>5
  <1>6. InOrder(s.sleep, due)
    <2>1. SUFFICES ASSUME NEW i \in DOMAIN s.sleep, NEW j \in DOMAIN s.sleep, i < j
                   PROVE  due[s.sleep[i]] <= due[s.sleep[j]]
      BY DEF InOrder
    <2> HIDE DEF due
    <2>2. /\ s.sleep[i] \in On(s.sleep) /\ s.sleep[j] \in On(s.sleep)
          /\ s.sleep[i] \in Thread /\ s.sleep[j] \in Thread
      BY <1>1, ListIs DEF On
    <2>3. s.due[s.sleep[i]] <= s.due[s.sleep[j]]
      BY <2>1 DEF Timely, InOrder
    <2>4. s.due[s.sleep[i]] \in Nat /\ s.due[s.sleep[j]] \in Nat
      BY <1>1, <2>2
    <2>5. due[s.sleep[i]] = s.due[s.sleep[i]] - 1 /\ due[s.sleep[j]] = s.due[s.sleep[j]] - 1
      BY <1>5, <2>2
    <2> QED
      BY <2>3, <2>4, <2>5
  <1>7. InOrder(rest, due)
    BY <1>1, <1>2, <1>6, CutInOrder
  <1> HIDE DEF due, k, rest
  <1>8. \A t \in On(rest) : due[t] > 0
    <2> SUFFICES ASSUME NEW i \in DOMAIN rest PROVE due[rest[i]] > 0
      BY DEF On
    <2>1. DOMAIN rest = 1..(Len(s.sleep) - k) /\ Len(s.sleep) \in Nat
      BY <1>1, <1>3, ListIs
    <2>2. 1 \in DOMAIN rest /\ k < Len(s.sleep) /\ (i = 1 \/ 1 < i)
      BY <1>2, <2>1
    <2>a. rest[1] = s.sleep[k + 1]
      BY <1>3, <2>1, <2>2
    <2>3. rest[1] \in Thread /\ rest[i] \in Thread
      BY <1>3, <2>2, ListIs
    <2>4. due[rest[1]] \in Nat /\ due[rest[i]] \in Nat
      BY <1>5, <2>3
    <2>5. due[rest[1]] # 0
      BY <1>2, <2>2, <2>3, <2>a
    <2>6. due[rest[1]] <= due[rest[i]]
      BY <1>7, <2>2, <2>4 DEF InOrder
    <2> QED
      BY <2>4, <2>5, <2>6
  <1>9. /\ due0 \in [Thread -> 0..MaxSleep] /\ st \in [Task -> State]
        /\ ready \in Seq(Thread) /\ pend \in BOOLEAN
        /\ [s.left EXCEPT ![s.cur] = left] \in [Task -> 0..Quantum]
    <2>1. due0 \in [Thread -> 0..MaxSleep]
      BY <1>1, <1>5
    <2>2. st \in [Task -> State]
      BY <1>0, StateIs DEF State
    <2>3. ready \in Seq(Thread)
      BY <1>1, <1>3, ConcatList
    <2>4. left \in 0..Quantum
      BY <1>0, StateIs, SpendIs
    <2>5. [s.left EXCEPT ![s.cur] = left] \in [Task -> 0..Quantum]
      <3> HIDE DEF left
      <3> QED
        BY <1>0, <2>4, StateIs
    <2> QED
      BY <2>1, <2>2, <2>3, <2>5
  <1> HIDE DEF up, pend, left, ready
  <1>10. \A t \in On(rest) : due0[t] = due[t]
    BY <1>3, ListIs
  <1>11. \A t \in Thread : st[t] = IF t \in On(up) THEN "READY" ELSE s.st[t]
    BY <1>0, StateIs
  <1> HIDE DEF due0, st
  <1>12. /\ m \in SchedState /\ m.cur = s.cur /\ m.depth = s.depth
         /\ m.blocked = s.blocked /\ m.wait = s.wait /\ m.sleep = rest
         /\ m.due = due0 /\ m.st = st /\ m.ready = s.ready \o up
    <2> HIDE DEF left
    <2> QED
      BY <1>0, <1>3, <1>9 DEF SchedState, ready
  <1> HIDE DEF m
  <1>13. Ticked(s, m)
    BY <1>3, <1>11, <1>12 DEF Ticked
  <1>14. Good(m, R) /\ Ahead(s.ready, m.ready) /\ On(s.ready) \subseteq On(m.ready)
    BY <1>13, TickedGood
  <1>15. Timely(m)
    <2>1. InOrder(rest, due0)
      BY <1>3, <1>7, <1>10 DEF InOrder, On
    <2> QED
      BY <1>8, <1>10, <1>12, <2>1 DEF Timely
  <1>16. \A t \in Thread : m.st[t] = s.st[t] \/ (s.st[t] = "SLEEPING" /\ m.st[t] = "READY")
    BY <1>0, <1>3, <1>11, <1>12 DEF Agrees
  <1>17. CASE m.pending
    <2> DEFINE n == ns_sched_reschedule(m)
    <2>1. /\ Good(n, R) /\ MadeUp(m, n) /\ SameWaits(m, n) /\ Ahead(m.ready, n.ready)
      BY <1>14, StartGood
    <2>2. /\ m.depth = 0 => Rescheduled(m, n)
          /\ m.depth # 0 => PutOff(m, n)
      BY <1>14, RescheduleGood
    <2>3. ns_sched_tick(s) = n
      BY <1>4, <1>17
    <2> HIDE DEF n
    <2>4. Ahead(s.ready, n.ready)
      <3>1. m.ready \in Seq(Thread) /\ n.ready \in Seq(Thread)
        BY <1>12, <2>1, StateIs DEF Good
      <3> QED
        BY <1>1, <1>14, <2>1, <3>1, AheadThrough
    <2>5. Timely(n)
      BY <1>15, <2>1 DEF Timely, SameWaits
    <2>6. MadeUp(s, n)
      <3>1. m.depth \in Nat
        BY <1>12, StateIs
      <3> QED
        BY <2>2, <3>1 DEF MadeUp, Rescheduled, PutOff
    <2>7. \A t \in Thread :
            \/ n.st[t] = m.st[t]
            \/ m.st[t] \in {"READY", "RUNNING"} /\ n.st[t] \in {"READY", "RUNNING"}
      BY <2>2 DEF Rescheduled, PutOff
    <2>8. \A t \in Thread :
            \/ n.st[t] = s.st[t]
            \/ /\ s.st[t] \in {"READY", "RUNNING", "SLEEPING"}
               /\ n.st[t] \in {"READY", "RUNNING"}
      BY <1>16, <2>7
    <2>9. s.depth = 0 => n.depth = 0 /\ Runs(n)
      BY <1>12, <2>2 DEF Rescheduled, Runs
    <2> QED
      BY <1>12, <2>1, <2>3, <2>4, <2>5, <2>6, <2>8, <2>9 DEF SameWaits
  <1>18. CASE ~m.pending
    <2>1. ns_sched_tick(s) = m
      BY <1>4, <1>18
    <2>2. MadeUp(s, m)
      BY <1>18 DEF MadeUp
    <2>3. s.depth = 0 /\ Runs(s) => m.depth = 0 /\ Runs(m)
      BY <1>12, <1>16 DEF Runs
    <2> QED
      BY <1>12, <1>14, <1>15, <1>16, <2>1, <2>2, <2>3
  <1> QED
    BY <1>17, <1>18
====
