----------------------------- MODULE LockfProofs -----------------------------
(* Proofs about advisory locks, for any owners, offsets and lock            *)
(* structures.                                                              *)
EXTENDS LockfInv, SequenceTheorems, WellFoundedInduction, TLAPS

-----------------------------------------------------------------------------
(* Numbers and sequences.                                                  *)

\* A set of natural numbers has a least element.
LEMMA LeastNat ==
  ASSUME NEW S, S \subseteq Nat, S # {}
  PROVE  \E n \in S : \A m \in S : n <= m
<1> DEFINE R == OpToRel(<, Nat)
<1>1. IsWellFoundedOn(R, Nat)
  BY NatLessThanWellFounded
<1>2. \A x, y \in Nat : <<x, y>> \in R <=> x < y
  BY DEF OpToRel
<1> HIDE DEF R
<1>3. PICK n \in S : \A m \in S : ~ (<<m, n>> \in R)
  BY <1>1, WFMin
<1>4. \A m \in S : n \in Nat /\ m \in Nat /\ ~ (m < n)
  BY <1>2, <1>3
<1> QED
  BY <1>4

\* Induction, with a set for the statement.
LEMMA SetInduction ==
  ASSUME NEW S, 0 \in S, \A n \in Nat : n \in S => n + 1 \in S
  PROVE  Nat \subseteq S
<1> SUFFICES ASSUME Nat \ S # {} PROVE FALSE
  OBVIOUS
<1>1. PICK n \in Nat \ S : \A m \in Nat \ S : n <= m
  BY LeastNat
<1>2. n # 0 /\ n - 1 \in Nat /\ n - 1 \in S
  BY <1>1
<1> QED
  BY <1>1, <1>2

LEMMA Transitive ==
  ASSUME NEW a \in Int, NEW b \in Int, NEW c \in Int, NEW d \in Int, a <= b, b <= c, c < d
  PROVE  a < d
OBVIOUS

LEMMA OneLess ==
  ASSUME NEW a \in Int, NEW b \in Int, NEW t \in Int, NEW n \in Int, a < b, b + (t + 1) <= n
  PROVE  a + ((t + 1) + 1) <= n
OBVIOUS

LEMMA Transitive2 ==
  ASSUME NEW a \in Int, NEW b \in Int, NEW c \in Int, a < b, b < c
  PROVE  a < c
OBVIOUS

LEMMA OneMore ==
  ASSUME NEW a \in Int
  PROVE  a < a + 1 /\ a - 1 < a
OBVIOUS

LEMMA Apart2 ==
  ASSUME NEW n \in Nat, NEW j \in 1..n, NEW a \in 1..n, a # j
  PROVE  a \in 1..j - 1 \/ a \in j + 1..n
OBVIOUS

\* What Least picks.
LEMMA LeastIs ==
  ASSUME NEW S, S \subseteq Nat, S # {}
  PROVE  Least(S) \in S /\ \A m \in S : Least(S) <= m
<1>1. \E n \in S : \A m \in S : n <= m
  BY LeastNat
<1> QED
  BY <1>1 DEF Least

\* Where the elements are when m is put into q after place j.
SplicedAt(q, j, m, r) ==
  /\ Len(r) = Len(q) + Len(m)
  /\ \A i \in 1..Len(q) + Len(m) :
       r[i] = IF i <= j THEN q[i]
              ELSE IF i <= j + Len(m) THEN m[i - j] ELSE q[i - Len(m)]

LEMMA Spliced ==
  ASSUME NEW S, NEW q \in Seq(S), NEW j \in 0..Len(q), NEW m \in Seq(S), NEW r,
         r = SubSeq(q, 1, j) \o m \o SubSeq(q, j + 1, Len(q))
  PROVE  r \in Seq(S) /\ SplicedAt(q, j, m, r)
<1> DEFINE front == SubSeq(q, 1, j)
           back  == SubSeq(q, j + 1, Len(q))
           most  == front \o m
           whole == most \o back
<1>0. j \in Int /\ Len(q) \in Nat /\ Len(m) \in Nat
  OBVIOUS
<1>1. front \in Seq(S) /\ Len(front) = j /\ \A i \in 1..j : front[i] = q[i]
  BY SubSeqProperties
<1>2. /\ back \in Seq(S) /\ Len(back) = Len(q) - j
      /\ \A i \in 1..Len(q) - j : back[i] = q[j + i]
  <2>1. \A i \in j + 1..Len(q) : q[i] \in S
    OBVIOUS
  <2>2. \A i \in 1..Len(q) - (j + 1) + 1 : back[i] = q[j + 1 + i - 1]
    BY <2>1, SubSeqProperties
  <2>3. \A i \in 1..Len(q) - j : i \in 1..Len(q) - (j + 1) + 1 /\ j + 1 + i - 1 = j + i
    OBVIOUS
  <2>4. back \in Seq(S) /\ Len(back) = Len(q) - j
    BY <2>1, SubSeqProperties
  <2> QED
    BY <2>2, <2>3, <2>4
<1>3. r = whole
  OBVIOUS
<1> HIDE DEF front, back
<1>4. /\ most \in Seq(S) /\ Len(most) = j + Len(m)
      /\ \A i \in 1..j + Len(m) : most[i] = IF i <= j THEN q[i] ELSE m[i - j]
  <2>1. /\ most \in Seq(S) /\ Len(most) = j + Len(m)
        /\ \A i \in 1..j + Len(m) : most[i] = IF i <= j THEN front[i] ELSE m[i - j]
    BY <1>1, ConcatProperties
  <2> HIDE DEF most
  <2> QED
    BY <1>0, <1>1, <2>1
<1> HIDE DEF most
<1>5. /\ whole \in Seq(S) /\ Len(whole) = Len(most) + Len(back)
      /\ \A i \in 1..Len(most) + Len(back) :
           whole[i] = IF i <= Len(most) THEN most[i] ELSE back[i - Len(most)]
  BY <1>2, <1>4, ConcatProperties
<1> HIDE DEF whole
<1>6. Len(whole) = Len(q) + Len(m)
  BY <1>0, <1>2, <1>4, <1>5
<1>7. ASSUME NEW i \in 1..Len(q) + Len(m), i > j + Len(m) PROVE whole[i] = q[i - Len(m)]
  <2>1. /\ i - (j + Len(m)) \in 1..Len(q) - j /\ j + (i - (j + Len(m))) = i - Len(m)
        /\ i \in 1..Len(most) + Len(back) /\ ~ (i <= Len(most))
    BY <1>0, <1>2, <1>4, <1>7
  <2>2. whole[i] = back[i - (j + Len(m))]
    BY <1>4, <1>5, <2>1
  <2> QED
    BY <1>2, <2>1, <2>2
<1>8. ASSUME NEW i \in 1..Len(q) + Len(m), i <= j + Len(m)
      PROVE  whole[i] = IF i <= j THEN q[i] ELSE m[i - j]
  <2>1. i \in 1..Len(most) + Len(back) /\ i \in 1..j + Len(m) /\ i <= Len(most)
    BY <1>0, <1>2, <1>4, <1>8
  <2> QED
    BY <1>4, <1>5, <2>1
<1>9. ASSUME NEW i \in 1..Len(q) + Len(m)
      PROVE  whole[i] = IF i <= j THEN q[i]
                        ELSE IF i <= j + Len(m) THEN m[i - j] ELSE q[i - Len(m)]
  <2>1. CASE i <= j + Len(m)
    BY <1>0, <1>8, <2>1
  <2>2. CASE ~ i <= j + Len(m)
    <3>1. i > j + Len(m) /\ ~ i <= j
      BY <1>0, <2>2
    <3> QED
      BY <1>7, <2>2, <3>1
  <2> QED
    BY <2>1, <2>2
<1>10. whole \in Seq(S)
  BY <1>5
<1> QED
  BY <1>3, <1>6, <1>9, <1>10, Zenon DEF SplicedAt

\* Where the elements are after a removal.
LEMMA Removed ==
  ASSUME NEW S, NEW q \in Seq(S), NEW k \in 1..Len(q)
  PROVE  /\ RemoveAt(q, k) \in Seq(S)
         /\ Len(RemoveAt(q, k)) = Len(q) - 1
         /\ \A i \in 1..Len(q) - 1 :
              RemoveAt(q, k)[i] = IF i < k THEN q[i] ELSE q[i + 1]
<1> DEFINE front == SubSeq(q, 1, k - 1)
           back  == SubSeq(q, k + 1, Len(q))
           whole == front \o back
<1>1. front \in Seq(S) /\ Len(front) = k - 1 /\ \A i \in 1..k - 1 : front[i] = q[i]
  BY SubSeqProperties
<1>2. /\ back \in Seq(S) /\ Len(back) = Len(q) - k
      /\ \A i \in 1..Len(q) - k : back[i] = q[k + i]
  <2>1. \A i \in k + 1..Len(q) : q[i] \in S
    OBVIOUS
  <2>2. \A i \in 1..Len(q) - (k + 1) + 1 : back[i] = q[k + 1 + i - 1]
    BY <2>1, SubSeqProperties
  <2>3. \A i \in 1..Len(q) - k : i \in 1..Len(q) - (k + 1) + 1 /\ k + 1 + i - 1 = k + i
    OBVIOUS
  <2>4. back \in Seq(S) /\ Len(back) = Len(q) - k
    BY <2>1, SubSeqProperties
  <2> QED
    BY <2>2, <2>3, <2>4
<1>3. RemoveAt(q, k) = whole
  BY DEF RemoveAt
<1> HIDE DEF front, back
<1>4. /\ whole \in Seq(S) /\ Len(whole) = Len(front) + Len(back)
      /\ \A i \in 1..Len(front) + Len(back) :
           whole[i] = IF i <= Len(front) THEN front[i] ELSE back[i - Len(front)]
  BY <1>1, <1>2, ConcatProperties
<1> HIDE DEF whole
<1>5. k \in Int /\ Len(q) \in Nat
  OBVIOUS
<1>6. ASSUME NEW i \in 1..Len(q) - 1, i >= k PROVE whole[i] = q[i + 1]
  <2>1. i - (k - 1) \in 1..Len(q) - k /\ k + (i - (k - 1)) = i + 1
    BY <1>5, <1>6
  <2>2. whole[i] = back[i - (k - 1)]
    BY <1>1, <1>2, <1>4, <1>5, <1>6
  <2> QED
    BY <1>2, <2>1, <2>2
<1>7. ASSUME NEW i \in 1..Len(q) - 1, i < k PROVE whole[i] = q[i]
  <2>1. i \in 1..Len(front) + Len(back) /\ i \in 1..k - 1 /\ i <= Len(front)
    BY <1>1, <1>2, <1>5, <1>7
  <2> QED
    BY <1>1, <1>4, <2>1
<1>8. Len(whole) = Len(q) - 1
  BY <1>1, <1>2, <1>4, <1>5
<1> QED
  BY <1>3, <1>4, <1>5, <1>6, <1>7, <1>8

-----------------------------------------------------------------------------
(* Lists of locks.                                                         *)

\* Every element of the longer list comes from one of the two.
LEMMA SplicedFrom ==
  ASSUME NEW q \in Seq(Locks), NEW m \in Seq(Locks), NEW r \in Seq(Locks),
         NEW j \in 0..Len(q), SplicedAt(q, j, m, r)
  PROVE  /\ Len(q) \in Nat /\ Len(m) \in Nat /\ Len(r) = Len(q) + Len(m)
         /\ \A i \in 1..j : i \in 1..Len(r) /\ i \in 1..Len(q) /\ r[i] = q[i]
         /\ \A i \in 1..Len(m) : j + i \in 1..Len(r) /\ r[j + i] = m[i]
         /\ \A i \in j + 1..Len(q) : i + Len(m) \in 1..Len(r) /\ r[i + Len(m)] = q[i]
         /\ \A i \in 1..Len(r) :
              \/ i \in 1..j
              \/ i - j \in 1..Len(m) /\ r[i] = m[i - j]
              \/ i - Len(m) \in j + 1..Len(q) /\ r[i] = q[i - Len(m)]
<1>1. Len(q) \in Nat /\ Len(m) \in Nat /\ Len(r) = Len(q) + Len(m)
  BY DEF SplicedAt
<1>2. \A i \in 1..Len(r) : r[i] = IF i <= j THEN q[i]
                                 ELSE IF i <= j + Len(m) THEN m[i - j] ELSE q[i - Len(m)]
  BY DEF SplicedAt
<1>3. \A i \in 1..j : i \in 1..Len(r) /\ i \in 1..Len(q) /\ r[i] = q[i]
  BY <1>1, <1>2
<1>4. ASSUME NEW i \in 1..Len(m) PROVE j + i \in 1..Len(r) /\ r[j + i] = m[i]
  <2>1. j + i \in 1..Len(r) /\ ~ (j + i <= j) /\ j + i <= j + Len(m) /\ (j + i) - j = i
    BY <1>1
  <2> QED
    BY <1>2, <2>1
<1>5. ASSUME NEW i \in j + 1..Len(q) PROVE i + Len(m) \in 1..Len(r) /\ r[i + Len(m)] = q[i]
  <2>1. /\ i + Len(m) \in 1..Len(r) /\ ~ (i + Len(m) <= j)
        /\ ~ (i + Len(m) <= j + Len(m)) /\ (i + Len(m)) - Len(m) = i
    BY <1>1
  <2> QED
    BY <1>2, <2>1
<1>6. ASSUME NEW i \in 1..Len(r)
      PROVE  \/ i \in 1..j
             \/ i - j \in 1..Len(m) /\ r[i] = m[i - j]
             \/ i - Len(m) \in j + 1..Len(q) /\ r[i] = q[i - Len(m)]
  BY <1>1, <1>2
<1> QED
  BY <1>1, <1>3, <1>4, <1>5, <1>6

LEMMA SplicedSet ==
  ASSUME NEW q \in Seq(Locks), NEW m \in Seq(Locks), NEW r \in Seq(Locks),
         NEW j \in 0..Len(q), SplicedAt(q, j, m, r)
  PROVE  /\ ToSet(r) = ToSet(q) \cup ToSet(m)
         /\ IsInjective(q) /\ IsInjective(m) /\ ToSet(q) \cap ToSet(m) = {} => IsInjective(r)
<1>1. /\ Len(q) \in Nat /\ Len(m) \in Nat /\ Len(r) = Len(q) + Len(m)
      /\ \A i \in 1..j : i \in 1..Len(r) /\ i \in 1..Len(q) /\ r[i] = q[i]
      /\ \A i \in 1..Len(m) : j + i \in 1..Len(r) /\ r[j + i] = m[i]
      /\ \A i \in j + 1..Len(q) : i + Len(m) \in 1..Len(r) /\ r[i + Len(m)] = q[i]
  BY SplicedFrom
<1>2. \A i \in 1..Len(r) :
        \/ i \in 1..j
        \/ i - j \in 1..Len(m) /\ r[i] = m[i - j]
        \/ i - Len(m) \in j + 1..Len(q) /\ r[i] = q[i - Len(m)]
  BY SplicedFrom
<1>3. DOMAIN q = 1..Len(q) /\ DOMAIN m = 1..Len(m) /\ DOMAIN r = 1..Len(r)
  OBVIOUS
<1>4. \A i \in 1..Len(q) : i \in 1..j \/ i \in j + 1..Len(q)
  BY <1>1
<1>5. ToSet(r) = ToSet(q) \cup ToSet(m)
  <2>1. ASSUME NEW i \in 1..Len(r) PROVE r[i] \in ToSet(q) \cup ToSet(m)
    <3>1. CASE i \in 1..j
      BY <1>1, <1>3, <3>1 DEF ToSet
    <3>2. CASE i - j \in 1..Len(m) /\ r[i] = m[i - j]
      BY <1>3, <3>2 DEF ToSet
    <3>3. CASE i - Len(m) \in j + 1..Len(q) /\ r[i] = q[i - Len(m)]
      <4>1. i - Len(m) \in 1..Len(q)
        BY <1>1, <3>3
      <4> QED
        BY <1>3, <3>3, <4>1 DEF ToSet
    <3> QED
      BY <1>2, <3>1, <3>2, <3>3
  <2>2. ASSUME NEW i \in 1..Len(q) PROVE q[i] \in ToSet(r)
    BY <1>1, <1>3, <1>4 DEF ToSet
  <2>3. ASSUME NEW i \in 1..Len(m) PROVE m[i] \in ToSet(r)
    BY <1>1, <1>3 DEF ToSet
  <2> QED
    BY <1>3, <2>1, <2>2, <2>3 DEF ToSet
<1>6. ASSUME IsInjective(q), IsInjective(m), ToSet(q) \cap ToSet(m) = {},
             NEW a \in 1..Len(r), NEW b \in 1..Len(r), r[a] = r[b], a < b
      PROVE  FALSE
  <2>1. \A i \in 1..Len(q), k \in 1..Len(m) : q[i] # m[k]
    BY <1>3, <1>6 DEF ToSet
  <2>2. \A i, k \in 1..Len(q) : q[i] = q[k] => i = k
    BY <1>3, <1>6 DEF IsInjective
  <2>3. \A i, k \in 1..Len(m) : m[i] = m[k] => i = k
    BY <1>3, <1>6 DEF IsInjective
  <2>4. \A i \in j + 1..Len(q) : i \in 1..Len(q)
    BY <1>1
  <2>5. CASE a \in 1..j
    <3>1. a \in 1..Len(q) /\ r[a] = q[a]
      BY <1>1, <2>5
    <3>2. CASE b \in 1..j
      <4>1. b \in 1..Len(q) /\ r[b] = q[b]
        BY <1>1, <3>2
      <4>2. a = b
        BY <1>6, <2>2, <3>1, <4>1
      <4> QED
        BY <1>1, <1>6, <4>2
    <3>3. CASE b - j \in 1..Len(m) /\ r[b] = m[b - j]
      BY <1>6, <2>1, <3>1, <3>3
    <3>4. CASE b - Len(m) \in j + 1..Len(q) /\ r[b] = q[b - Len(m)]
      <4>1. a = b - Len(m)
        BY <1>6, <2>2, <2>4, <3>1, <3>4
      <4> QED
        BY <1>1, <2>5, <3>4, <4>1
    <3> QED
      BY <1>2, <3>2, <3>3, <3>4
  <2>6. CASE a - j \in 1..Len(m) /\ r[a] = m[a - j]
    <3>2. CASE b \in 1..j
      BY <1>1, <1>6, <2>6, <3>2
    <3>3. CASE b - j \in 1..Len(m) /\ r[b] = m[b - j]
      <4>1. a - j = b - j
        BY <1>6, <2>3, <2>6, <3>3
      <4> QED
        BY <1>1, <1>6, <4>1
    <3>4. CASE b - Len(m) \in j + 1..Len(q) /\ r[b] = q[b - Len(m)]
      BY <1>6, <2>1, <2>4, <2>6, <3>4
    <3> QED
      BY <1>2, <3>2, <3>3, <3>4
  <2>7. CASE a - Len(m) \in j + 1..Len(q) /\ r[a] = q[a - Len(m)]
    <3>2. CASE b \in 1..j
      BY <1>1, <1>6, <2>7, <3>2
    <3>3. CASE b - j \in 1..Len(m) /\ r[b] = m[b - j]
      BY <1>6, <2>1, <2>4, <2>7, <3>3
    <3>4. CASE b - Len(m) \in j + 1..Len(q) /\ r[b] = q[b - Len(m)]
      <4>1. a - Len(m) = b - Len(m)
        BY <1>6, <2>2, <2>4, <2>7, <3>4
      <4> QED
        BY <1>1, <1>6, <4>1
    <3> QED
      BY <1>2, <3>2, <3>3, <3>4
  <2> QED
    BY <1>2, <2>5, <2>6, <2>7
<1>7. ASSUME IsInjective(q), IsInjective(m), ToSet(q) \cap ToSet(m) = {}
      PROVE  IsInjective(r)
  <2>1. ASSUME NEW a \in 1..Len(r), NEW b \in 1..Len(r), r[a] = r[b] PROVE a = b
    BY <1>6, <1>7, <2>1
  <2> QED
    BY <1>3, <2>1 DEF IsInjective
<1> QED
  BY <1>5, <1>7

LEMMA SplicedOrd ==
  ASSUME NEW q \in Seq(Locks), NEW m \in Seq(Locks), NEW r \in Seq(Locks),
         NEW j \in 0..Len(q), SplicedAt(q, j, m, r), NEW f, NEW x,
         Ord(q, f, x), Ord(m, f, x),
         \A i \in 1..j, c \in 1..Len(m) : q[i] # x /\ m[c] # x => Clear(f[q[i]], f[m[c]]),
         \A i \in j + 1..Len(q), c \in 1..Len(m) :
            q[i] # x /\ m[c] # x => Clear(f[m[c]], f[q[i]])
  PROVE  Ord(r, f, x)
<1>1. /\ Len(q) \in Nat /\ Len(m) \in Nat /\ Len(r) = Len(q) + Len(m)
      /\ \A i \in 1..j : i \in 1..Len(r) /\ i \in 1..Len(q) /\ r[i] = q[i]
      /\ \A i \in 1..Len(r) :
           \/ i \in 1..j
           \/ i - j \in 1..Len(m) /\ r[i] = m[i - j]
           \/ i - Len(m) \in j + 1..Len(q) /\ r[i] = q[i - Len(m)]
  BY SplicedFrom
<1>2. \A i \in j + 1..Len(q) : i \in 1..Len(q)
  BY <1>1
<1>3. ASSUME NEW a \in 1..Len(r), NEW b \in 1..Len(r), a < b, r[a] # x, r[b] # x
      PROVE  Clear(f[r[a]], f[r[b]])
  <2>1. CASE a \in 1..j
    <3>1. a \in 1..Len(q) /\ r[a] = q[a]
      BY <1>1, <2>1
    <3>2. CASE b \in 1..j
      BY <1>1, <1>3, <3>1, <3>2 DEF Ord
    <3>3. CASE b - j \in 1..Len(m) /\ r[b] = m[b - j]
      BY <1>3, <2>1, <3>1, <3>3
    <3>4. CASE b - Len(m) \in j + 1..Len(q) /\ r[b] = q[b - Len(m)]
      <4>1. b - Len(m) \in 1..Len(q) /\ a < b - Len(m)
        BY <1>1, <2>1, <3>4
      <4> QED
        BY <1>3, <3>1, <3>4, <4>1 DEF Ord
    <3> QED
      BY <1>1, <3>2, <3>3, <3>4
  <2>2. CASE a - j \in 1..Len(m) /\ r[a] = m[a - j]
    <3>2. CASE b \in 1..j
      BY <1>1, <1>3, <2>2, <3>2
    <3>3. CASE b - j \in 1..Len(m) /\ r[b] = m[b - j]
      <4>1. a - j < b - j
        BY <1>3
      <4> QED
        BY <1>3, <2>2, <3>3, <4>1 DEF Ord
    <3>4. CASE b - Len(m) \in j + 1..Len(q) /\ r[b] = q[b - Len(m)]
      BY <1>3, <2>2, <3>4
    <3> QED
      BY <1>1, <3>2, <3>3, <3>4
  <2>3. CASE a - Len(m) \in j + 1..Len(q) /\ r[a] = q[a - Len(m)]
    <3>2. CASE b \in 1..j
      BY <1>1, <1>3, <2>3, <3>2
    <3>3. CASE b - j \in 1..Len(m)
      BY <1>1, <1>3, <2>3, <3>3
    <3>4. CASE b - Len(m) \in j + 1..Len(q) /\ r[b] = q[b - Len(m)]
      <4>1. a - Len(m) < b - Len(m) /\ a - Len(m) \in 1..Len(q) /\ b - Len(m) \in 1..Len(q)
        BY <1>1, <1>2, <1>3, <2>3, <3>4
      <4> QED
        BY <1>3, <2>3, <3>4, <4>1 DEF Ord
    <3> QED
      BY <1>1, <3>2, <3>3, <3>4
  <2> QED
    BY <1>1, <2>1, <2>2, <2>3
<1> QED
  BY <1>3 DEF Ord

\* A list without one of its locks.
LEMMA RemovedList ==
  ASSUME NEW q \in Seq(Locks), IsInjective(q), NEW k \in 1..Len(q)
  PROVE  LET r == RemoveAt(q, k)
         IN  /\ r \in Seq(Locks) /\ Len(r) = Len(q) - 1 /\ IsInjective(r)
             /\ \A i \in 1..Len(r) : r[i] = IF i < k THEN q[i] ELSE q[i + 1]
             /\ ToSet(r) = ToSet(q) \ {q[k]}
             /\ \A f, x : Ord(q, f, x) => Ord(r, f, x)
<1> DEFINE r == RemoveAt(q, k)
<1>1. /\ r \in Seq(Locks) /\ Len(r) = Len(q) - 1
      /\ \A i \in 1..Len(q) - 1 : r[i] = IF i < k THEN q[i] ELSE q[i + 1]
  BY Removed
<1> HIDE DEF r
<1>2. DOMAIN q = 1..Len(q) /\ DOMAIN r = 1..Len(r) /\ Len(q) \in Nat
  BY <1>1
<1> DEFINE old(i) == IF i < k THEN i ELSE i + 1
<1>3. \A i \in 1..Len(r) : old(i) \in 1..Len(q) /\ old(i) # k /\ r[i] = q[old(i)]
  BY <1>1, <1>2
<1>4. \A i, j \in 1..Len(r) : i < j => old(i) < old(j)
  BY <1>1, <1>2
<1>5. \A i \in 1..Len(q) : i # k => \E j \in 1..Len(r) : old(j) = i
  <2> TAKE i \in 1..Len(q)
  <2> HAVE i # k
  <2>1. CASE i < k
    <3>1. i \in 1..Len(r) /\ old(i) = i
      BY <1>1, <1>2, <2>1
    <3> QED
      BY <3>1
  <2>2. CASE i > k
    <3>1. i - 1 \in 1..Len(r) /\ old(i - 1) = i
      BY <1>1, <1>2, <2>2
    <3> QED
      BY <3>1
  <2> QED
    BY <1>2, <2>1, <2>2
<1> HIDE DEF old
<1>6. \A i, j \in 1..Len(q) : q[i] = q[j] => i = j
  BY <1>2 DEF IsInjective
<1>7. IsInjective(r)
  <2>1. ASSUME NEW i \in 1..Len(r), NEW j \in 1..Len(r), r[i] = r[j], i # j PROVE FALSE
    <3>1. old(i) = old(j) /\ old(i) \in Int
      BY <1>3, <1>6, <2>1
    <3>2. i < j \/ j < i
      BY <2>1
    <3> QED
      BY <1>3, <1>4, <3>1, <3>2
  <2> QED
    BY <1>2, <2>1 DEF IsInjective
<1>8. ToSet(r) = ToSet(q) \ {q[k]}
  <2>1. \A i \in 1..Len(r) : r[i] \in ToSet(q) /\ r[i] # q[k]
    BY <1>2, <1>3, <1>6 DEF ToSet
  <2>2. \A i \in 1..Len(q) : i # k => q[i] \in ToSet(r)
    BY <1>2, <1>3, <1>5 DEF ToSet
  <2> QED
    BY <1>2, <2>1, <2>2 DEF ToSet
<1>9. ASSUME NEW f, NEW x, Ord(q, f, x) PROVE Ord(r, f, x)
  <2>1. ASSUME NEW i \in 1..Len(r), NEW j \in 1..Len(r), i < j, r[i] # x, r[j] # x
        PROVE  Clear(f[r[i]], f[r[j]])
    BY <1>3, <1>4, <1>9, <2>1 DEF Ord
  <2> QED
    BY <2>1 DEF Ord
<1> QED
  BY <1>1, <1>7, <1>8, <1>9 DEF r

\* A list with n in the place of one of its locks.
LEMMA ReplacedList ==
  ASSUME NEW q \in Seq(Locks), IsInjective(q), NEW k \in 1..Len(q),
         NEW n \in Locks, n \notin ToSet(q)
  PROVE  LET r == [q EXCEPT ![k] = n]
         IN  /\ r \in Seq(Locks) /\ Len(r) = Len(q) /\ IsInjective(r)
             /\ \A i \in 1..Len(r) : r[i] = IF i = k THEN n ELSE q[i]
             /\ ToSet(r) = (ToSet(q) \ {q[k]}) \cup {n}
             /\ \A f : Ord(q, f, n) => Ord(r, f, n)
<1> DEFINE r == [q EXCEPT ![k] = n]
<1>1. /\ r \in Seq(Locks) /\ Len(r) = Len(q)
      /\ \A i \in 1..Len(r) : r[i] = IF i = k THEN n ELSE q[i]
  BY ExceptSeq
<1> HIDE DEF r
<1>2. DOMAIN q = 1..Len(q) /\ DOMAIN r = 1..Len(q)
  BY <1>1
<1>3. \A i \in 1..Len(q) : q[i] # n
  BY <1>2 DEF ToSet
<1>4. \A i, j \in 1..Len(q) : q[i] = q[j] => i = j
  BY <1>2 DEF IsInjective
<1>5. IsInjective(r)
  BY <1>1, <1>2, <1>3, <1>4 DEF IsInjective
<1>6. ToSet(r) = (ToSet(q) \ {q[k]}) \cup {n}
  <2>1. \A i \in 1..Len(q) : r[i] \in (ToSet(q) \ {q[k]}) \cup {n}
    BY <1>1, <1>2, <1>4 DEF ToSet
  <2>2. n \in ToSet(r)
    BY <1>1, <1>2 DEF ToSet
  <2>3. \A i \in 1..Len(q) : q[i] # q[k] => q[i] \in ToSet(r)
    BY <1>1, <1>2 DEF ToSet
  <2> QED
    BY <1>2, <2>1, <2>2, <2>3 DEF ToSet
<1>7. \A f : Ord(q, f, n) => Ord(r, f, n)
  BY <1>1, <1>3 DEF Ord
<1> QED
  BY <1>1, <1>5, <1>6, <1>7 DEF r

\* A list with n before place k.
LEMMA InsertedList ==
  ASSUME NEW q \in Seq(Locks), IsInjective(q), NEW k \in 1..Len(q) + 1,
         NEW n \in Locks, n \notin ToSet(q)
  PROVE  LET r == InsertAt(q, k, n)
         IN  /\ r \in Seq(Locks) /\ Len(r) = Len(q) + 1 /\ IsInjective(r)
             /\ \A i \in 1..Len(r) : r[i] = IF i < k THEN q[i]
                                            ELSE IF i = k THEN n ELSE q[i - 1]
             /\ ToSet(r) = ToSet(q) \cup {n}
             /\ \A f : Ord(q, f, n) => Ord(r, f, n)
             /\ \A f, x : Ord(q, f, x)
                  /\ (\A i \in 1..k - 1 : q[i] # x => Clear(f[q[i]], f[n]))
                  /\ (\A i \in k..Len(q) : q[i] # x => Clear(f[n], f[q[i]])) => Ord(r, f, x)
<1> DEFINE r == InsertAt(q, k, n)
           m == <<n>>
<1>1. m \in Seq(Locks) /\ Len(m) = 1 /\ m[1] = n /\ DOMAIN m = 1..1
  OBVIOUS
<1>2. k - 1 \in 0..Len(q) /\ (k - 1) + 1 = k /\ Len(q) \in Nat
  OBVIOUS
<1>3. r = SubSeq(q, 1, k - 1) \o m \o SubSeq(q, (k - 1) + 1, Len(q))
  BY <1>2 DEF InsertAt
<1> HIDE DEF r, m
<1>4. r \in Seq(Locks) /\ SplicedAt(q, k - 1, m, r)
  BY <1>1, <1>2, <1>3, Spliced
<1>5. ToSet(m) = {n} /\ IsInjective(m)
  BY <1>1 DEF ToSet, IsInjective
<1>6. ToSet(r) = ToSet(q) \cup {n} /\ IsInjective(r)
  BY <1>1, <1>2, <1>4, <1>5, SplicedSet
<1>7. /\ Len(r) = Len(q) + 1
      /\ \A i \in 1..Len(r) : r[i] = IF i < k THEN q[i] ELSE IF i = k THEN n ELSE q[i - 1]
  <2>1. /\ Len(r) = Len(q) + 1
        /\ \A i \in 1..Len(r) : r[i] = IF i <= k - 1 THEN q[i]
                                     ELSE IF i <= k - 1 + 1 THEN m[i - (k - 1)] ELSE q[i - 1]
    BY <1>1, <1>4 DEF SplicedAt
  <2> QED
    BY <1>1, <1>2, <2>1
<1>8. \A f, x : Ord(m, f, x)
  BY <1>1 DEF Ord
<1>9. \A f, x : Ord(q, f, x)
         /\ (\A i \in 1..k - 1 : q[i] # x => Clear(f[q[i]], f[n]))
         /\ (\A i \in k..Len(q) : q[i] # x => Clear(f[n], f[q[i]])) => Ord(r, f, x)
  <2> SUFFICES ASSUME NEW f, NEW x, Ord(q, f, x),
                      \A i \in 1..k - 1 : q[i] # x => Clear(f[q[i]], f[n]),
                      \A i \in k..Len(q) : q[i] # x => Clear(f[n], f[q[i]])
               PROVE  Ord(r, f, x)
    OBVIOUS
  <2>1. PICK j : j = k - 1
    OBVIOUS
  <2>2. j \in 0..Len(q) /\ SplicedAt(q, j, m, r) /\ m \in Seq(Locks) /\ r \in Seq(Locks)
    BY <1>1, <1>2, <1>4, <2>1
  <2>3. \A c \in 1..Len(m) : m[c] = n
    BY <1>1
  <2>4. \A i \in 1..j, c \in 1..Len(m) : q[i] # x /\ m[c] # x => Clear(f[q[i]], f[m[c]])
    BY <2>1, <2>3
  <2>5. \A i \in j + 1..Len(q), c \in 1..Len(m) :
          q[i] # x /\ m[c] # x => Clear(f[m[c]], f[q[i]])
    BY <1>2, <2>1, <2>3
  <2> QED
    BY <1>8, <2>2, <2>4, <2>5, SplicedOrd
<1>10. \A f : Ord(q, f, n) => Ord(r, f, n)
  <2> SUFFICES ASSUME NEW f, Ord(q, f, n) PROVE Ord(r, f, n)
    OBVIOUS
  <2>1. PICK j : j = k - 1
    OBVIOUS
  <2>2. /\ j \in 0..Len(q) /\ SplicedAt(q, j, m, r) /\ m \in Seq(Locks) /\ r \in Seq(Locks)
        /\ \A c \in 1..Len(m) : m[c] = n
    BY <1>1, <1>2, <1>4, <2>1
  <2> QED
    BY <1>8, <2>2, SplicedOrd
<1> QED
  BY <1>4, <1>6, <1>7, <1>9, <1>10 DEF r

-----------------------------------------------------------------------------
(* Ranges and how they lie to each other.                                  *)

\* Ranges as intervals.
LEMMA StructIs ==
  ASSUME NEW l \in Structs
  PROVE  /\ l.lf_start \in Int /\ 0 <= l.lf_start /\ l.lf_start <= MaxOff + 1
         /\ l.lf_end \in Int /\ MaxOff \in Nat
         /\ Hi(l) \in Int /\ 0 <= Hi(l) /\ Hi(l) <= MaxOff + 1
         /\ l.lf_end = EOF <=> Hi(l) = MaxOff + 1
         /\ l.lf_end # EOF => Hi(l) = l.lf_end
         /\ Proper(l) <=> l.lf_id \in Procs /\ l.lf_start <= Hi(l)
<1>1. l.lf_start \in 0..MaxOff + 1 /\ l.lf_end \in -1..MaxOff /\ MaxOff \in Nat
  BY BoundsNat DEF Structs, EOF
<1> QED
  BY <1>1 DEF Hi, EOF, Proper

\* The cases of lf_findoverlap.
LEMMA Cases ==
  ASSUME NEW l \in Structs, NEW k \in Structs, Proper(l), Proper(k)
  PROVE  /\ ovcase(l, k) \in 0..5
         /\ ovcase(l, k) = 0 <=> Hi(l) < k.lf_start \/ Hi(k) < l.lf_start
         /\ k.lf_end # EOF /\ l.lf_start > k.lf_end <=> Hi(k) < l.lf_start
         /\ ovcase(l, k) = 1 => l.lf_start = k.lf_start /\ l.lf_end = k.lf_end
         /\ ovcase(l, k) = 2 => /\ l.lf_start <= k.lf_start /\ Hi(k) <= Hi(l) /\ k.lf_end # EOF
                                /\ ~ (l.lf_start = k.lf_start /\ l.lf_end = k.lf_end)
         /\ ovcase(l, k) = 3 => k.lf_start <= l.lf_start /\ Hi(l) <= Hi(k)
         /\ ovcase(l, k) = 4 => /\ l.lf_start < k.lf_start /\ k.lf_start <= Hi(l)
                                /\ Hi(l) <= Hi(k)
         /\ ovcase(l, k) = 5 => /\ k.lf_start < l.lf_start /\ l.lf_start <= Hi(k)
                                /\ Hi(k) < Hi(l) /\ k.lf_end # EOF
         /\ l.lf_start < k.lf_start /\ k.lf_end # EOF /\ (l.lf_end = EOF \/ k.lf_end < l.lf_end)
              => ovcase(l, k) = 2
<1>1. /\ l.lf_start \in Int /\ l.lf_end \in Int /\ l.lf_start <= MaxOff + 1 /\ 0 <= l.lf_start
      /\ k.lf_start \in Int /\ k.lf_end \in Int /\ k.lf_start <= MaxOff + 1 /\ 0 <= k.lf_start
      /\ MaxOff \in Nat /\ l.lf_end <= MaxOff /\ k.lf_end <= MaxOff
      /\ l.lf_end >= -1 /\ k.lf_end >= -1
  BY StructIs DEF Structs, EOF
<1>2. /\ l.lf_end = EOF \/ l.lf_start <= l.lf_end
      /\ k.lf_end = EOF \/ k.lf_start <= k.lf_end
  BY DEF Proper
<1> QED
  BY <1>1, <1>2 DEF ovcase, Hi, EOF

\* What the search finds: none of the owner's locks that it skips reach the
\* range, and if it ends at one without an overlap, that one is beyond.
LEMMA Search ==
  ASSUME NEW F, F.list \in Seq(Locks), F.lf \in [Locks -> Structs],
         \A c \in ToSet(F.list) : Proper(F.lf[c]),
         NEW k \in Structs, Proper(k), NEW i \in 1..Len(F.list) + 1
  PROVE  LET h == findoverlap_self(F, i, k)
             a(j) == F.lf[F.list[j]]
         IN  /\ h.at \in i..Len(F.list) + 1 /\ h.case \in 0..5
             /\ \A j \in i..h.at - 1 : a(j).lf_id = k.lf_id => Hi(a(j)) < k.lf_start
             /\ h.at > Len(F.list) => h.case = 0
             /\ h.at <= Len(F.list) =>
                  /\ a(h.at).lf_id = k.lf_id /\ h.case = ovcase(a(h.at), k)
                  /\ h.case = 0 => Hi(k) < a(h.at).lf_start
<1> DEFINE a(j) == F.lf[F.list[j]]
           n == Len(F.list)
           hits == {j \in i..n : /\ a(j).lf_id = k.lf_id
                                 /\ \/ ovcase(a(j), k) # 0
                                    \/ k.lf_end # EOF /\ a(j).lf_start > k.lf_end}
           h == findoverlap_self(F, i, k)
<1>1. h = IF hits = {} THEN [at |-> n + 1, case |-> 0]
          ELSE [at |-> Least(hits), case |-> ovcase(a(Least(hits)), k)]
  BY DEF findoverlap_self
<1>2. n \in Nat /\ i \in Nat /\ DOMAIN F.list = 1..n /\ \A j \in i..n : j \in 1..n
  OBVIOUS
<1>3. \A j \in 1..n : a(j) \in Structs /\ Proper(a(j))
  <2> TAKE j \in 1..n
  <2>1. F.list[j] \in Locks /\ F.list[j] \in ToSet(F.list)
    BY <1>2 DEF ToSet
  <2> QED
    BY <2>1
<1>4. \A j \in 1..n : /\ ovcase(a(j), k) \in 0..5
                      /\ ovcase(a(j), k) = 0 <=> Hi(a(j)) < k.lf_start \/ Hi(k) < a(j).lf_start
                      /\ k.lf_end # EOF /\ a(j).lf_start > k.lf_end <=> Hi(k) < a(j).lf_start
  <2> TAKE j \in 1..n
  <2> HIDE DEF a
  <2> QED
    BY <1>3, Cases
<1> HIDE DEF a, h
<1>5. \A j \in i..n : j \notin hits /\ a(j).lf_id = k.lf_id => Hi(a(j)) < k.lf_start
  BY <1>2, <1>4
<1>6. hits \subseteq Nat /\ \A j \in hits : j \in i..n /\ j \in 1..n /\ a(j).lf_id = k.lf_id
  BY <1>2
<1>7. \A j \in hits : ovcase(a(j), k) = 0 => Hi(k) < a(j).lf_start
  BY <1>2, <1>4
<1> HIDE DEF hits
<1>8. CASE hits = {}
  <2>1. h.at = n + 1 /\ h.case = 0
    BY <1>1, <1>8
  <2>2. \A j \in i..h.at - 1 : a(j).lf_id = k.lf_id => Hi(a(j)) < k.lf_start
    BY <1>2, <1>5, <1>8, <2>1
  <2> QED
    BY <1>2, <2>1, <2>2 DEF a, h
<1>9. CASE hits # {}
  <2>1. h.at = Least(hits) /\ h.case = ovcase(a(Least(hits)), k)
    BY <1>1, <1>9
  <2>2. Least(hits) \in hits /\ \A m \in hits : Least(hits) <= m
    BY <1>6, <1>9, LeastIs
  <2>3. h.at \in hits /\ h.at \in i..n /\ h.at \in 1..n /\ a(h.at).lf_id = k.lf_id
    BY <1>6, <2>1, <2>2
  <2>4. h.case = ovcase(a(h.at), k) /\ h.case \in 0..5
    BY <1>4, <2>1, <2>3
  <2>5. \A j \in i..h.at - 1 : a(j).lf_id = k.lf_id => Hi(a(j)) < k.lf_start
    <3>1. \A j \in i..h.at - 1 : j \in i..n /\ j \notin hits
      BY <1>2, <2>1, <2>2, <2>3
    <3> QED
      BY <1>5, <3>1
  <2>6. h.case = 0 => Hi(k) < a(h.at).lf_start
    BY <1>7, <2>3, <2>4
  <2> QED
    BY <1>2, <2>3, <2>4, <2>5, <2>6 DEF a, h
<1> QED
  BY <1>8, <1>9

-----------------------------------------------------------------------------
(* What the routines do to the list and to the structures.                 *)

\* Only lock structures are on a chain.
LEMMA BlockedLocks ==
  ASSUME NEW block \in Pointers, NEW k \in Locks
  PROVE  Blocked(block, k) \subseteq Locks /\ Ends(block, k) \subseteq Locks
BY DEF Blocked, Ends, Pointers

LEMMA WakeIs ==
  ASSUME NEW F, IsFile(F), NEW k \in Locks
  PROVE  LET G == lf_wakelock(F, k)
         IN  IsFile(G) /\ G.list = F.list /\ G.lf = F.lf
<1> DEFINE woken == Blocked(F.block, k)
<1>1. woken \subseteq Locks
  BY BlockedLocks DEF IsFile
<1> HIDE DEF woken
<1>2. lf_wakelock(F, k) =
         [F EXCEPT !.block = [j \in Locks |-> IF j \in woken \cup {k} THEN NOLOCKF ELSE @[j]],
                   !.next = [j \in Locks |-> IF j \in woken THEN NOLOCKF ELSE @[j]],
                   !.woken = @ \cup woken,
                   !.system = IF woken \subseteq Requests THEN @ ELSE "memory corrupted"]
  BY DEF lf_wakelock, woken
<1> DEFINE G == lf_wakelock(F, k)
<1>3. /\ DOMAIN G = DOMAIN F /\ G.list = F.list /\ G.lf = F.lf
      /\ G.block = [j \in Locks |-> IF j \in woken \cup {k} THEN NOLOCKF ELSE F.block[j]]
      /\ G.next = [j \in Locks |-> IF j \in woken THEN NOLOCKF ELSE F.next[j]]
      /\ G.woken = F.woken \cup woken
      /\ G.system = IF woken \subseteq Requests THEN F.system ELSE "memory corrupted"
  BY <1>2 DEF IsFile
<1> HIDE DEF G
<1>4. G.block \in Pointers /\ G.next \in Pointers
  <2>1. \A j \in Locks : F.block[j] \in Locks \cup {NOLOCKF} /\ F.next[j] \in Locks \cup {NOLOCKF}
    BY DEF IsFile, Pointers
  <2>2. G.block \in Pointers
    BY <1>3, <2>1 DEF Pointers
  <2>3. G.next \in Pointers
    BY <1>3, <2>1 DEF Pointers
  <2> QED
    BY <2>2, <2>3
<1>5. G.woken \subseteq Locks /\ G.system \in Outcomes
  BY <1>1, <1>3 DEF IsFile, Outcomes
<1> QED
  BY <1>3, <1>4, <1>5 DEF IsFile, G

LEMMA AddIs ==
  ASSUME NEW F, IsFile(F), NEW k \in Locks, NEW b \in Locks \cup {NOLOCKF}
  PROVE  LET G == lf_addblock(F, k, b)
         IN  IsFile(G) /\ G.list = F.list /\ G.lf = F.lf
<1> DEFINE ends == Ends(F.block, k)
<1>1. ends \subseteq Locks
  BY BlockedLocks DEF IsFile
<1> HIDE DEF ends
<1>2. CASE b = NOLOCKF
  BY <1>2 DEF lf_addblock
<1>3. CASE b # NOLOCKF /\ ends = {}
  <2>1. lf_addblock(F, k, b) = [F EXCEPT !.system = "spins"]
    BY <1>3 DEF lf_addblock, ends
  <2> QED
    BY <2>1 DEF IsFile, Outcomes
<1>4. CASE b # NOLOCKF /\ ends # {}
  <2>1. PICK e \in ends : lf_addblock(F, k, b) = [F EXCEPT !.block[e] = b]
    BY <1>4 DEF lf_addblock, ends
  <2> QED
    BY <1>1, <2>1 DEF IsFile, Pointers
<1> QED
  BY <1>2, <1>3, <1>4

SplitTo(F, j, k, mid, spare, G) ==
  LET o   == F.list[j]
      cut == [F.lf EXCEPT ![o].lf_end = k.lf_start - 1]
  IN  /\ IsFile(G)
      /\ F.lf[o].lf_end = k.lf_end =>
           /\ G.list = SubSeq(F.list, 1, j) \o mid \o <<>> \o SubSeq(F.list, j + 1, Len(F.list))
           /\ G.lf = cut /\ G.block = F.block
      /\ F.lf[o].lf_end # k.lf_end =>
           /\ G.list = SubSeq(F.list, 1, j) \o mid \o <<spare>>
                         \o SubSeq(F.list, j + 1, Len(F.list))
           /\ G.lf = [cut EXCEPT ![spare] = [F.lf[o] EXCEPT !.lf_start = k.lf_end + 1]]
           /\ G.block = [F.block EXCEPT ![spare] = NOLOCKF]
      /\ G.next = F.next /\ G.woken = F.woken /\ G.system = F.system

LEMMA SplitIs ==
  ASSUME NEW F, IsFile(F), F.list \in Seq(Locks), F.lf \in [Locks -> Structs],
         NEW j \in 1..Len(F.list), NEW k, NEW mid, NEW spare,
         F.lf[F.list[j]].lf_end = k.lf_end \/ spare \in Locks \ {F.list[j]}
  PROVE  SplitTo(F, j, k, mid, spare, lf_split(F, j, k, mid, spare))
<1> DEFINE o == F.list[j]
           head == [F EXCEPT !.lf[o].lf_end = k.lf_start - 1]
           rest == [F.lf[o] EXCEPT !.lf_start = k.lf_end + 1]
           G == lf_split(F, j, k, mid, spare)
<1>1. /\ DOMAIN head = DOMAIN F /\ head.list = F.list
      /\ head.lf = [F.lf EXCEPT ![o].lf_end = k.lf_start - 1]
      /\ head.block = F.block /\ head.next = F.next /\ head.woken = F.woken
      /\ head.system = F.system
  BY DEF IsFile
<1>2. CASE F.lf[o].lf_end = k.lf_end
  <2>1. G = [head EXCEPT !.list = SubSeq(@, 1, j) \o mid \o <<>> \o SubSeq(@, j + 1, Len(@)),
                         !.lf = @, !.block = @]
    BY <1>2 DEF lf_split
  <2> HIDE DEF head, G
  <2> QED
    BY <1>1, <1>2, <2>1 DEF IsFile, G, SplitTo
<1>3. CASE F.lf[o].lf_end # k.lf_end
  <2>1. <<spare>> # <<>>
    OBVIOUS
  <2>2. G = [head EXCEPT !.list = SubSeq(@, 1, j) \o mid \o <<spare>> \o SubSeq(@, j + 1, Len(@)),
                         !.lf = [@ EXCEPT ![spare] = rest],
                         !.block = [@ EXCEPT ![spare] = NOLOCKF]]
    BY <1>3, <2>1 DEF lf_split
  <2> HIDE DEF head, G, rest
  <2>3. [F.block EXCEPT ![spare] = NOLOCKF] \in Pointers
    BY <1>3 DEF IsFile, Pointers
  <2>4. /\ DOMAIN G = DOMAIN F
        /\ G.list = SubSeq(F.list, 1, j) \o mid \o <<spare>> \o SubSeq(F.list, j + 1, Len(F.list))
        /\ G.lf = [head.lf EXCEPT ![spare] = rest]
        /\ G.block = [F.block EXCEPT ![spare] = NOLOCKF]
        /\ G.next = F.next /\ G.woken = F.woken /\ G.system = F.system
    BY <1>1, <2>2 DEF IsFile
  <2>5. IsFile(G)
    BY <2>3, <2>4 DEF IsFile
  <2> QED
    BY <1>1, <1>3, <2>4, <2>5 DEF G, rest, SplitTo
<1> QED
  BY <1>2, <1>3

LEMMA DoneIs ==
  ASSUME NEW F
  PROVE  Done(F).file = F /\ Done(F).more = FALSE
BY DEF Done

\* One turn of lf_setlock, case by case.
LinkedAt(F, link, j, c, n, spare, o, k, y) ==
  LET G == y.file
      f == F.lf
  IN  /\ c \in {3, 4} => y.more = TRUE
      /\ c \notin {3, 4} => y.more = FALSE
      /\ c = 0 => /\ IsFile(G) /\ G.lf = f
                  /\ G.list = (IF link THEN InsertAt(F.list, j, n) ELSE F.list)
      /\ c = 1 => /\ IsFile(G) /\ G.list = F.list
                  /\ G.lf = [f EXCEPT ![o].lf_type = k.lf_type]
      /\ c = 2 /\ f[o].lf_type = k.lf_type => G = F
      /\ c = 2 /\ f[o].lf_type # k.lf_type /\ f[o].lf_start = k.lf_start =>
           /\ IsFile(G) /\ G.list = InsertAt(F.list, j, n)
           /\ G.lf = [f EXCEPT ![o].lf_start = k.lf_end + 1]
      /\ c = 2 /\ f[o].lf_type # k.lf_type /\ f[o].lf_start # k.lf_start =>
           G = lf_wakelock(lf_split(F, j, k, <<n>>, spare), o)
      /\ c = 3 => /\ IsFile(G) /\ y.link = FALSE /\ G.lf = f
                  /\ G.list = (IF link THEN [F.list EXCEPT ![j] = n]
                               ELSE RemoveAt(F.list, j))
                  /\ y.at = (IF link THEN j + 1 ELSE j)
      /\ c = 4 => /\ IsFile(G) /\ y.link = FALSE
                  /\ G.list = InsertAt(F.list, j + 1, n)
                  /\ G.lf = [f EXCEPT ![o].lf_end = k.lf_start - 1]
                  /\ y.at = j + 2
      /\ c = 5 => /\ IsFile(G) /\ G.list = (IF link THEN InsertAt(F.list, j, n) ELSE F.list)
                  /\ G.lf = [f EXCEPT ![o].lf_start = k.lf_end + 1]

LEMMA LinkAt ==
  ASSUME NEW F, IsFile(F), NEW link \in BOOLEAN, NEW j, NEW c \in 0..5, NEW n \in Locks,
         NEW spare, NEW o, o = F.list[j], NEW k, k = F.lf[n], c # 0 => o \in Locks
  PROVE  LinkedAt(F, link, j, c, n, spare, o, k, link_at(F, link, j, c, n, spare))
<1> DEFINE y == link_at(F, link, j, c, n, spare)
           f == F.lf
           l == F.lf[o]
           Put(H) == IF link THEN [H EXCEPT !.list = InsertAt(@, j, n)] ELSE H
           downgrade == k.lf_type = "F_RDLCK" /\ l.lf_type = "F_WRLCK"
<1>1. ASSUME c = 0
      PROVE  /\ IsFile(y.file) /\ y.more = FALSE /\ y.file.lf = f
             /\ y.file.list = (IF link THEN InsertAt(F.list, j, n) ELSE F.list)
  <2>1. y = Done(Put(F))
    BY <1>1 DEF link_at
  <2>2. IsFile(Put(F)) /\ Put(F).lf = f /\ Put(F).list = IF link THEN InsertAt(F.list, j, n) ELSE F.list
    BY DEF IsFile
  <2> HIDE DEF Put, y
  <2> QED
    BY <2>1, <2>2, DoneIs
<1>2. ASSUME c = 1
      PROVE  /\ IsFile(y.file) /\ y.more = FALSE /\ y.file.list = F.list
             /\ y.file.lf = [f EXCEPT ![o].lf_type = k.lf_type]
  <2> DEFINE H == IF downgrade THEN lf_wakelock(F, o) ELSE F
             G == [H EXCEPT !.lf[o].lf_type = k.lf_type]
  <2>1. y = Done(G)
    BY <1>2 DEF link_at
  <2>2. IsFile(H) /\ H.list = F.list /\ H.lf = f
    <3>1. LET I == lf_wakelock(F, o) IN IsFile(I) /\ I.list = F.list /\ I.lf = F.lf
      BY <1>2, WakeIs
    <3> QED
      BY <3>1
  <2> HIDE DEF H
  <2>3. IsFile(G) /\ G.list = F.list /\ G.lf = [f EXCEPT ![o].lf_type = k.lf_type]
    BY <2>2 DEF IsFile
  <2> HIDE DEF G, y
  <2> QED
    BY <2>1, <2>3, DoneIs
<1>3. ASSUME c = 2, l.lf_type = k.lf_type PROVE y.file = F /\ y.more = FALSE
  <2>1. y = Done(F)
    BY <1>3 DEF link_at
  <2> HIDE DEF y
  <2> QED
    BY <2>1, DoneIs
<1>4. ASSUME c = 2, l.lf_type # k.lf_type, l.lf_start = k.lf_start
      PROVE  /\ IsFile(y.file) /\ y.more = FALSE /\ y.file.list = InsertAt(F.list, j, n)
             /\ y.file.lf = [f EXCEPT ![o].lf_start = k.lf_end + 1]
  <2> DEFINE H == [F EXCEPT !.list = InsertAt(@, j, n), !.lf[o].lf_start = k.lf_end + 1]
             G == lf_wakelock(H, o)
  <2>1. y = Done(G)
    BY <1>4 DEF link_at
  <2>2. /\ IsFile(H) /\ H.list = InsertAt(F.list, j, n)
        /\ H.lf = [f EXCEPT ![o].lf_start = k.lf_end + 1]
    BY DEF IsFile
  <2> HIDE DEF H
  <2>3. IsFile(G) /\ G.list = H.list /\ G.lf = H.lf
    BY <1>4, <2>2, WakeIs
  <2> HIDE DEF G, y
  <2> QED
    BY <2>1, <2>2, <2>3, DoneIs
<1>5. ASSUME c = 2, l.lf_type # k.lf_type, l.lf_start # k.lf_start
      PROVE  y.more = FALSE /\ y.file = lf_wakelock(lf_split(F, j, k, <<n>>, spare), o)
  <2> DEFINE G == lf_wakelock(lf_split(F, j, k, <<n>>, spare), o)
  <2>1. y = Done(G)
    BY <1>5 DEF link_at
  <2> HIDE DEF G, y
  <2> QED
    BY <2>1, DoneIs DEF G
<1>6. ASSUME c = 3
      PROVE  /\ IsFile(y.file) /\ y.more = TRUE /\ y.link = FALSE /\ y.file.lf = f
             /\ y.file.list = (IF link THEN [F.list EXCEPT ![j] = n] ELSE RemoveAt(F.list, j))
             /\ y.at = IF link THEN j + 1 ELSE j
  <2> DEFINE I == [F EXCEPT !.block[n] = F.block[o]]
             H == IF downgrade THEN lf_wakelock(F, o) ELSE lf_addblock(I, n, F.block[n])
  <2>1. y = IF link THEN Going([H EXCEPT !.list[j] = n], j + 1, FALSE)
            ELSE Going([H EXCEPT !.list = RemoveAt(@, j)], j, FALSE)
    BY <1>6 DEF link_at
  <2>2. IsFile(I) /\ I.list = F.list /\ I.lf = f
    BY <1>6 DEF IsFile, Pointers
  <2>3. F.block[n] \in Locks \cup {NOLOCKF}
    BY DEF IsFile, Pointers
  <2> HIDE DEF I
  <2>4. IsFile(H) /\ H.list = F.list /\ H.lf = f
    <3>1. LET J == lf_wakelock(F, o) IN IsFile(J) /\ J.list = F.list /\ J.lf = F.lf
      BY <1>6, WakeIs
    <3>2. LET J == lf_addblock(I, n, F.block[n]) IN IsFile(J) /\ J.list = I.list /\ J.lf = I.lf
      BY <2>2, <2>3, AddIs
    <3> QED
      BY <2>2, <3>1, <3>2
  <2> HIDE DEF H
  <2>5. CASE link
    <3> DEFINE G == [H EXCEPT !.list[j] = n]
    <3>1. y = Going(G, j + 1, FALSE)
      BY <2>1, <2>5
    <3>2. IsFile(G) /\ G.list = [F.list EXCEPT ![j] = n] /\ G.lf = f
      BY <2>4 DEF IsFile
    <3> HIDE DEF G, y
    <3> QED
      <4>1. y.file = G /\ y.more = TRUE /\ y.link = FALSE /\ y.at = j + 1
        BY <3>1 DEF Going
      <4> QED
        BY <2>5, <3>2, <4>1
  <2>6. CASE ~ link
    <3> DEFINE G == [H EXCEPT !.list = RemoveAt(@, j)]
    <3>1. y = Going(G, j, FALSE)
      BY <2>1, <2>6
    <3>2. IsFile(G) /\ G.list = RemoveAt(F.list, j) /\ G.lf = f
      BY <2>4 DEF IsFile
    <3> HIDE DEF G, y
    <3> QED
      <4>1. y.file = G /\ y.more = TRUE /\ y.link = FALSE /\ y.at = j
        BY <3>1 DEF Going
      <4> QED
        BY <2>6, <3>2, <4>1
  <2> QED
    BY <2>5, <2>6
<1>7. ASSUME c = 4
      PROVE  /\ IsFile(y.file) /\ y.more = TRUE /\ y.link = FALSE
             /\ y.file.list = InsertAt(F.list, j + 1, n)
             /\ y.file.lf = [f EXCEPT ![o].lf_end = k.lf_start - 1] /\ y.at = j + 2
  <2> DEFINE H == [F EXCEPT !.list = InsertAt(@, j + 1, n), !.lf[o].lf_end = k.lf_start - 1]
             G == lf_wakelock(H, o)
  <2>1. y = Going(G, j + 2, FALSE)
    BY <1>7 DEF link_at
  <2>2. /\ IsFile(H) /\ H.list = InsertAt(F.list, j + 1, n)
        /\ H.lf = [f EXCEPT ![o].lf_end = k.lf_start - 1]
    BY DEF IsFile
  <2> HIDE DEF H
  <2>3. IsFile(G) /\ G.list = H.list /\ G.lf = H.lf
    BY <1>7, <2>2, WakeIs
  <2> HIDE DEF G, y
  <2> QED
    <3>1. y.file = G /\ y.more = TRUE /\ y.link = FALSE /\ y.at = j + 2
      BY <2>1 DEF Going
    <3> QED
      BY <2>2, <2>3, <3>1
<1>8. ASSUME c = 5
      PROVE  /\ IsFile(y.file) /\ y.more = FALSE
             /\ y.file.list = (IF link THEN InsertAt(F.list, j, n) ELSE F.list)
             /\ y.file.lf = [f EXCEPT ![o].lf_start = k.lf_end + 1]
  <2> DEFINE I == [F EXCEPT !.lf[o].lf_start = k.lf_end + 1]
             H == Put(I)
             G == lf_wakelock(H, o)
  <2>1. y = Done(G)
    BY <1>8 DEF link_at
  <2>2. IsFile(I) /\ I.list = F.list /\ I.lf = [f EXCEPT ![o].lf_start = k.lf_end + 1]
    BY DEF IsFile
  <2> HIDE DEF I
  <2>3. IsFile(H) /\ H.lf = I.lf /\ H.list = IF link THEN InsertAt(F.list, j, n) ELSE F.list
    BY <2>2 DEF IsFile
  <2> HIDE DEF H
  <2>4. IsFile(G) /\ G.list = H.list /\ G.lf = H.lf
    BY <1>8, <2>3, WakeIs
  <2> HIDE DEF G, y
  <2> QED
    BY <2>1, <2>2, <2>3, <2>4, DoneIs
<1> HIDE DEF y
<1>9. (c \in {3, 4} => y.more = TRUE) /\ (c \notin {3, 4} => y.more = FALSE)
  <2>1. CASE c = 2
    <3>1. y.more = FALSE
      BY <1>3, <1>4, <1>5, <2>1, Zenon
    <3> QED
      BY <2>1, <3>1
  <2>2. CASE c \in {0, 1, 5}
    <3>1. y.more = FALSE
      BY <1>1, <1>2, <1>8, <2>2, Zenon
    <3> QED
      BY <2>2, <3>1
  <2>3. CASE c \in {3, 4}
    <3>1. y.more = TRUE
      BY <1>6, <1>7, <2>3, Zenon
    <3> QED
      BY <2>3, <3>1
  <2>4. c = 2 \/ c \in {0, 1, 5} \/ c \in {3, 4}
    OBVIOUS
  <2> QED
    BY <2>1, <2>2, <2>3, <2>4
<1> QED
  BY <1>1, <1>2, <1>3, <1>4, <1>5, <1>6, <1>7, <1>8, <1>9 DEF y, LinkedAt

\* One turn of lf_clearlock, case by case.
UnlinkedAt(F, j, c, k, spare, o, y) ==
  LET G == y.file
      f == F.lf
  IN  /\ c \in {3, 4} => y.more = TRUE
      /\ c \notin {3, 4} => y.more = FALSE
      /\ c = 0 => G = F
      /\ c = 1 => IsFile(G) /\ G.lf = f /\ G.list = RemoveAt(F.list, j)
      /\ c = 2 /\ f[o].lf_start = k.lf_start =>
           /\ IsFile(G) /\ G.list = F.list
           /\ G.lf = [f EXCEPT ![o].lf_start = k.lf_end + 1]
      /\ c = 2 /\ f[o].lf_start # k.lf_start =>
           G = lf_split(lf_wakelock(F, o), j, k, <<>>, spare)
      /\ c = 3 => /\ IsFile(G) /\ G.lf = f /\ G.list = RemoveAt(F.list, j) /\ y.at = j
      /\ c = 4 => /\ IsFile(G) /\ G.list = F.list /\ y.at = j + 1
                  /\ G.lf = [f EXCEPT ![o].lf_end = k.lf_start - 1]
      /\ c = 5 => /\ IsFile(G) /\ G.list = F.list
                  /\ G.lf = [f EXCEPT ![o].lf_start = k.lf_end + 1]

LEMMA UnlinkAt ==
  ASSUME NEW F, IsFile(F), NEW j, NEW c \in 0..5, NEW k, NEW spare,
         NEW o, o = F.list[j], c # 0 => o \in Locks
  PROVE  UnlinkedAt(F, j, c, k, spare, o, unlink_at(F, j, c, k, spare))
<1> DEFINE y == unlink_at(F, j, c, k, spare)
           W == lf_wakelock(F, o)
           f == F.lf
           l == F.lf[o]
           Later == [W EXCEPT !.lf[o].lf_start = k.lf_end + 1]
           Sooner == [W EXCEPT !.lf[o].lf_end = k.lf_start - 1]
           Gone == [W EXCEPT !.list = RemoveAt(@, j)]
<1>1. ASSUME c # 0 PROVE IsFile(W) /\ W.list = F.list /\ W.lf = f
  BY <1>1, WakeIs
<1>2. /\ c = 0 => y = Done(F)
      /\ c = 1 => y = Done(Gone)
      /\ c = 2 /\ l.lf_start = k.lf_start => y = Done(Later)
      /\ c = 2 /\ l.lf_start # k.lf_start => y = Done(lf_split(W, j, k, <<>>, spare))
      /\ c = 3 => y = Going(Gone, j, FALSE)
      /\ c = 4 => y = Going(Sooner, j + 1, FALSE)
      /\ c = 5 => y = Done(Later)
  <2>1. ASSUME c = 0 PROVE y = Done(F)
    BY <2>1 DEF unlink_at
  <2>2. ASSUME c = 1 PROVE y = Done(Gone)
    BY <2>2 DEF unlink_at
  <2>3. ASSUME c = 2 /\ l.lf_start = k.lf_start PROVE y = Done(Later)
    BY <2>3 DEF unlink_at
  <2>4. ASSUME c = 2 /\ l.lf_start # k.lf_start PROVE y = Done(lf_split(W, j, k, <<>>, spare))
    BY <2>4 DEF unlink_at
  <2>5. ASSUME c = 3 PROVE y = Going(Gone, j, FALSE)
    BY <2>5 DEF unlink_at
  <2>6. ASSUME c = 4 PROVE y = Going(Sooner, j + 1, FALSE)
    BY <2>6 DEF unlink_at
  <2>7. ASSUME c = 5 PROVE y = Done(Later)
    BY <2>7 DEF unlink_at
  <2> HIDE DEF y, W, Gone, Later, Sooner
  <2> QED
    BY <2>1, <2>2, <2>3, <2>4, <2>5, <2>6, <2>7
<1> HIDE DEF W, y
<1>3. ASSUME c # 0
      PROVE  /\ IsFile(Gone) /\ Gone.lf = f /\ Gone.list = RemoveAt(F.list, j)
             /\ IsFile(Later) /\ Later.lf = [f EXCEPT ![o].lf_start = k.lf_end + 1]
             /\ Later.list = F.list
             /\ IsFile(Sooner) /\ Sooner.lf = [f EXCEPT ![o].lf_end = k.lf_start - 1]
             /\ Sooner.list = F.list
  <2>1. IsFile(Gone) /\ Gone.lf = f /\ Gone.list = RemoveAt(F.list, j)
    BY <1>1, <1>3 DEF IsFile
  <2>2. IsFile(Later) /\ Later.lf = [f EXCEPT ![o].lf_start = k.lf_end + 1] /\ Later.list = F.list
    BY <1>1, <1>3 DEF IsFile
  <2>3. IsFile(Sooner) /\ Sooner.lf = [f EXCEPT ![o].lf_end = k.lf_start - 1] /\ Sooner.list = F.list
    BY <1>1, <1>3 DEF IsFile
  <2> QED
    BY <2>1, <2>2, <2>3
<1> HIDE DEF Gone, Later, Sooner
<1> DEFINE G == lf_split(W, j, k, <<>>, spare)
<1> HIDE DEF G
<1>4. /\ c = 0 => y.file = F /\ y.more = FALSE
      /\ c = 1 => y.file = Gone /\ y.more = FALSE
      /\ c = 2 /\ l.lf_start = k.lf_start => y.file = Later /\ y.more = FALSE
      /\ c = 2 /\ l.lf_start # k.lf_start => y.file = G /\ y.more = FALSE
      /\ c = 5 => y.file = Later /\ y.more = FALSE
  BY <1>2, DoneIs DEF G
<1>5. /\ c = 3 => y.file = Gone /\ y.more = TRUE /\ y.at = j
      /\ c = 4 => y.file = Sooner /\ y.more = TRUE /\ y.at = j + 1
  BY <1>2 DEF Going
<1>6. (c \in {3, 4} => y.more = TRUE) /\ (c \notin {3, 4} => y.more = FALSE)
  <2>1. CASE c = 2
    BY <1>4, <2>1
  <2>2. CASE c # 2
    BY <1>4, <1>5, <2>2
  <2> QED
    BY <2>1, <2>2
<1> QED
  BY <1>3, <1>4, <1>5, <1>6 DEF y, G, W, UnlinkedAt

-----------------------------------------------------------------------------
(* The loops.                                                              *)

\* The turns of the loop of lf_setlock, as far as the one numbered m.
LinkTurnsTo(F, n, spare, m, s) ==
  s = [t \in 0..m |-> IF t = 0 THEN Going(F, 1, TRUE) ELSE link_turn(s[t - 1], n, spare)]

LinkSeq(F, n, spare, s) ==
  /\ s[0] = Going(F, 1, TRUE)
  /\ \A t \in 1..Len(F.list) + 1 : s[t] = link_turn(s[t - 1], n, spare)
  /\ link_lock(F, n, spare) = s[Len(F.list) + 1].file

\* The loop of lf_setlock has its turns.
LEMMA LinkTurns ==
  ASSUME NEW F, Len(F.list) \in Nat, NEW n, NEW spare
  PROVE  \E s : LinkSeq(F, n, spare, s)
<1> DEFINE N == Len(F.list) + 1
           step(s, t) == IF t = 0 THEN Going(F, 1, TRUE) ELSE link_turn(s[t - 1], n, spare)
           S == {m \in Nat : \E s : LinkTurnsTo(F, n, spare, m, s)}
<1>1. 0 \in S
  <2> DEFINE s == [t \in 0..0 |-> Going(F, 1, TRUE)]
  <2>1. LinkTurnsTo(F, n, spare, 0, s)
    BY DEF LinkTurnsTo
  <2> QED
    BY <2>1
<1>2. ASSUME NEW m \in Nat, m \in S PROVE m + 1 \in S
  <2>1. PICK s : LinkTurnsTo(F, n, spare, m, s)
    BY <1>2
  <2> DEFINE r == [t \in 0..m + 1 |-> IF t = m + 1 THEN step(s, m + 1) ELSE s[t]]
  <2>2. \A t \in 0..m + 1 : r[t] = step(r, t)
    <3> TAKE t \in 0..m + 1
    <3>1. CASE t = m + 1
      BY <3>1
    <3>2. CASE t # m + 1
      <4>1. t \in 0..m /\ (t # 0 => t - 1 \in 0..m)
        BY <3>2
      <4>2. s[t] = step(s, t)
        BY <2>1, <4>1 DEF LinkTurnsTo
      <4> QED
        BY <3>2, <4>1, <4>2
    <3> QED
      BY <3>1, <3>2
  <2>3. r = [t \in 0..m + 1 |-> step(r, t)]
    <3> HIDE DEF step
    <3> QED
      BY <2>2
  <2>4. LinkTurnsTo(F, n, spare, m + 1, r)
    BY <2>3 DEF LinkTurnsTo
  <2> HIDE DEF r, step
  <2> QED
    BY <2>4
<1>3. N \in S
  <2>1. N \in Nat /\ \A m \in Nat : m \in S => m + 1 \in S
    BY <1>2
  <2> HIDE DEF S, N
  <2> QED
    BY <1>1, <2>1, SetInduction
<1> DEFINE turn == CHOOSE s : s = [t \in 0..Len(F.list) + 1 |-> step(s, t)]
<1>4. turn = [t \in 0..N |-> step(turn, t)]
  <2>1. \E s : s = [t \in 0..N |-> step(s, t)]
    BY <1>3 DEF LinkTurnsTo
  <2> HIDE DEF step
  <2> QED
    BY <2>1
<1>5. link_lock(F, n, spare) = turn[N].file
  BY DEF link_lock
<1> HIDE DEF turn
<1>6. \A t \in 0..N : turn[t] = step(turn, t)
  <2> HIDE DEF step
  <2> QED
    BY <1>4
<1>7. turn[0] = Going(F, 1, TRUE)
  <2>1. 0 \in 0..N
    OBVIOUS
  <2> QED
    BY <1>6, <2>1
<1>8. \A t \in 1..N : turn[t] = link_turn(turn[t - 1], n, spare)
  <2>1. \A t \in 1..N : t \in 0..N /\ t # 0
    OBVIOUS
  <2> QED
    BY <1>6, <2>1
<1>9. LinkSeq(F, n, spare, turn)
  BY <1>5, <1>7, <1>8 DEF LinkSeq
<1> QED
  BY <1>9

\* The turns of the loop of lf_clearlock, as far as the one numbered m.
UnlinkTurnsTo(F, k, spare, m, s) ==
  s = [t \in 0..m |-> IF t = 0 THEN Going(F, 1, FALSE) ELSE unlink_turn(s[t - 1], k, spare)]

UnlinkSeq(F, k, spare, s) ==
  /\ s[0] = Going(F, 1, FALSE)
  /\ \A t \in 1..Len(F.list) + 1 : s[t] = unlink_turn(s[t - 1], k, spare)
  /\ unlink_range(F, k, spare) = s[Len(F.list) + 1].file

\* The loop of lf_clearlock has its turns.
LEMMA UnlinkTurns ==
  ASSUME NEW F, Len(F.list) \in Nat, NEW k, NEW spare
  PROVE  \E s : UnlinkSeq(F, k, spare, s)
<1> DEFINE N == Len(F.list) + 1
           step(s, t) == IF t = 0 THEN Going(F, 1, FALSE) ELSE unlink_turn(s[t - 1], k, spare)
           S == {m \in Nat : \E s : UnlinkTurnsTo(F, k, spare, m, s)}
<1>1. 0 \in S
  <2> DEFINE s == [t \in 0..0 |-> Going(F, 1, FALSE)]
  <2>1. UnlinkTurnsTo(F, k, spare, 0, s)
    BY DEF UnlinkTurnsTo
  <2> QED
    BY <2>1
<1>2. ASSUME NEW m \in Nat, m \in S PROVE m + 1 \in S
  <2>1. PICK s : UnlinkTurnsTo(F, k, spare, m, s)
    BY <1>2
  <2> DEFINE r == [t \in 0..m + 1 |-> IF t = m + 1 THEN step(s, m + 1) ELSE s[t]]
  <2>2. \A t \in 0..m + 1 : r[t] = step(r, t)
    <3> TAKE t \in 0..m + 1
    <3>1. CASE t = m + 1
      BY <3>1
    <3>2. CASE t # m + 1
      <4>1. t \in 0..m /\ (t # 0 => t - 1 \in 0..m)
        BY <3>2
      <4>2. s[t] = step(s, t)
        BY <2>1, <4>1 DEF UnlinkTurnsTo
      <4> QED
        BY <3>2, <4>1, <4>2
    <3> QED
      BY <3>1, <3>2
  <2>3. r = [t \in 0..m + 1 |-> step(r, t)]
    <3> HIDE DEF step
    <3> QED
      BY <2>2
  <2>4. UnlinkTurnsTo(F, k, spare, m + 1, r)
    BY <2>3 DEF UnlinkTurnsTo
  <2> HIDE DEF r, step
  <2> QED
    BY <2>4
<1>3. N \in S
  <2>1. N \in Nat /\ \A m \in Nat : m \in S => m + 1 \in S
    BY <1>2
  <2> HIDE DEF S, N
  <2> QED
    BY <1>1, <2>1, SetInduction
<1> DEFINE turn == CHOOSE s : s = [t \in 0..Len(F.list) + 1 |-> step(s, t)]
<1>4. turn = [t \in 0..N |-> step(turn, t)]
  <2>1. \E s : s = [t \in 0..N |-> step(s, t)]
    BY <1>3 DEF UnlinkTurnsTo
  <2> HIDE DEF step
  <2> QED
    BY <2>1
<1>5. unlink_range(F, k, spare) = turn[N].file
  BY DEF unlink_range
<1> HIDE DEF turn
<1>6. \A t \in 0..N : turn[t] = step(turn, t)
  <2> HIDE DEF step
  <2> QED
    BY <1>4
<1>7. turn[0] = Going(F, 1, FALSE)
  <2>1. 0 \in 0..N
    OBVIOUS
  <2> QED
    BY <1>6, <2>1
<1>8. \A t \in 1..N : turn[t] = unlink_turn(turn[t - 1], k, spare)
  <2>1. \A t \in 1..N : t \in 0..N /\ t # 0
    OBVIOUS
  <2> QED
    BY <1>6, <2>1
<1>9. UnlinkSeq(F, k, spare, turn)
  BY <1>5, <1>7, <1>8 DEF UnlinkSeq
<1> QED
  BY <1>9

-----------------------------------------------------------------------------
(* What a routine may change.                                              *)

LEMMA RelSame ==
  ASSUME NEW S, NEW f, NEW k, NEW n, NEW spare
  PROVE  Rel(S, f, S, f, k, n, spare)
BY DEF Rel

LEMMA RelSteps ==
  ASSUME NEW S, NEW f, NEW T, NEW g, NEW U, NEW h, NEW k, NEW n, NEW spare,
         Rel(S, f, T, g, k, n, spare), Rel(T, g, U, h, k, n, spare)
  PROVE  Rel(S, f, U, h, k, n, spare)
<1>1. U \subseteq S \cup {n, spare}
  BY DEF Rel
<1>2. \A c \in Locks : (c \notin S \/ c = n) /\ c # spare => h[c] = f[c]
  BY DEF Rel
<1>3. \A c \in S : f[c].lf_id # k.lf_id => c \in U /\ h[c] = f[c]
  BY DEF Rel
<1>4. \A c \in U : h[c].lf_id = k.lf_id \/ (c \in S /\ h[c] = f[c])
  BY DEF Rel
<1>5. \A b \in Int, t \in Types :
        ~ Covers(k, b) => (Has(U, h, k.lf_id, b, t) <=> Has(S, f, k.lf_id, b, t))
  BY DEF Rel
<1> QED
  BY <1>1, <1>2, <1>3, <1>4, <1>5 DEF Rel

\* A step that changes one lock o of the owner, and may add n and spare.
LEMMA RelOne ==
  ASSUME NEW S, NEW f, NEW T, NEW g, NEW k, NEW n, NEW spare, NEW o \in S,
         f[o].lf_id = k.lf_id, o # n, o # spare, n \in T => n # spare /\ f[n] = k,
         T \subseteq S \cup {n, spare}, S \ {o} \subseteq T,
         T \subseteq Locks, S \subseteq Locks,
         \A c \in Locks \ {o, spare} : g[c] = f[c], spare \notin S, n = spare => n \notin Locks,
         spare \in T => /\ g[spare].lf_id = k.lf_id /\ g[spare].lf_type = f[o].lf_type
                        /\ \A b \in Int : Covers(g[spare], b) => Covers(f[o], b),
         o \in T => /\ g[o].lf_id = k.lf_id
                    /\ \A b \in Int : ~ Covers(k, b) /\ Covers(g[o], b) =>
                         Covers(f[o], b) /\ g[o].lf_type = f[o].lf_type,
         \A b \in Int : ~ Covers(k, b) /\ Covers(f[o], b) =>
            \/ o \in T /\ Covers(g[o], b) /\ g[o].lf_type = f[o].lf_type
            \/ spare \in T /\ Covers(g[spare], b)
  PROVE  Rel(S, f, T, g, k, n, spare)
<1>1. \A c \in Locks : (c \notin S \/ c = n) /\ c # spare => g[c] = f[c]
  OBVIOUS
<1>2. \A c \in S : f[c].lf_id # k.lf_id => c \in T /\ g[c] = f[c]
  OBVIOUS
<1>3. \A c \in T : g[c].lf_id = k.lf_id \/ (c \in S /\ g[c] = f[c])
  <2> TAKE c \in T
  <2>1. CASE c = n
    BY <2>1
  <2>2. CASE c = o \/ c = spare
    BY <2>2
  <2>3. CASE c # n /\ c # o /\ c # spare
    BY <2>3
  <2> QED
    BY <2>1, <2>2, <2>3
<1>4. ASSUME NEW b \in Int, NEW t \in Types, ~ Covers(k, b), Has(T, g, k.lf_id, b, t)
      PROVE  Has(S, f, k.lf_id, b, t)
  <2>1. PICK c \in T : g[c].lf_id = k.lf_id /\ Covers(g[c], b) /\ g[c].lf_type = t
    BY <1>4 DEF Has
  <2>2. CASE c = n
    <3>1. g[c] = k
      BY <2>2
    <3> QED
      BY <1>4, <2>1, <3>1
  <2>3. CASE c = o \/ c = spare
    <3>1. Covers(f[o], b) /\ f[o].lf_type = t
      BY <1>4, <2>1, <2>3
    <3> QED
      BY <3>1 DEF Has
  <2>4. CASE c # n /\ c # o /\ c # spare
    <3>1. c \in S /\ g[c] = f[c]
      BY <2>4
    <3> QED
      BY <2>1, <3>1 DEF Has
  <2> QED
    BY <2>2, <2>3, <2>4
<1>5. ASSUME NEW b \in Int, NEW t \in Types, ~ Covers(k, b), Has(S, f, k.lf_id, b, t)
      PROVE  Has(T, g, k.lf_id, b, t)
  <2>1. PICK c \in S : f[c].lf_id = k.lf_id /\ Covers(f[c], b) /\ f[c].lf_type = t
    BY <1>5 DEF Has
  <2>2. CASE c = o
    <3>1. \/ o \in T /\ Covers(g[o], b) /\ g[o].lf_type = t /\ g[o].lf_id = k.lf_id
          \/ spare \in T /\ Covers(g[spare], b) /\ g[spare].lf_type = t
               /\ g[spare].lf_id = k.lf_id
      BY <1>5, <2>1, <2>2
    <3> QED
      BY <3>1 DEF Has
  <2>3. CASE c # o
    <3>1. c \in T /\ g[c] = f[c]
      BY <2>3
    <3> QED
      BY <2>1, <3>1 DEF Has
  <2> QED
    BY <2>2, <2>3
<1> QED
  BY <1>1, <1>2, <1>3, <1>4, <1>5 DEF Rel

\* To add n, with the range of k.
LEMMA RelAdd ==
  ASSUME NEW S, NEW f, NEW k, NEW n \in Locks, NEW spare, f[n] = k
  PROVE  Rel(S, f, S \cup {n}, f, k, n, spare)
<1>1. ASSUME NEW b \in Int, NEW t \in Types, ~ Covers(k, b)
      PROVE  Has(S \cup {n}, f, k.lf_id, b, t) <=> Has(S, f, k.lf_id, b, t)
  BY <1>1 DEF Has
<1> QED
  BY <1>1 DEF Rel

\* What is left of a lock behind a range, and before it.
LEMMA CutStart ==
  ASSUME NEW l \in Held, NEW k \in Structs, k.lf_end # EOF, Hi(k) < Hi(l)
  PROVE  LET r == [l EXCEPT !.lf_start = k.lf_end + 1]
         IN  /\ r \in Held /\ r.lf_id = l.lf_id /\ r.lf_type = l.lf_type
             /\ r.lf_start = Hi(k) + 1 /\ Hi(r) = Hi(l)
<1> DEFINE r == [l EXCEPT !.lf_start = k.lf_end + 1]
<1>1. l \in Structs /\ l.lf_type \in Types /\ l.lf_id \in Procs
  BY DEF Held, Proper
<1>2. /\ r.lf_id = l.lf_id /\ r.lf_type = l.lf_type /\ r.lf_start = k.lf_end + 1
      /\ r.lf_end = l.lf_end
  BY <1>1 DEF Structs
<1>3. Hi(k) = k.lf_end /\ k.lf_end + 1 \in 0..MaxOff + 1 /\ Hi(l) \in Int /\ Hi(k) \in Int
  BY <1>1, StructIs DEF Structs, EOF
<1>4. r \in Structs
  BY <1>1, <1>3 DEF Structs
<1>5. Hi(r) = Hi(l)
  BY <1>2 DEF Hi
<1>6. Proper(r)
  <2>1. r.lf_id \in Procs /\ r.lf_start <= Hi(r)
    BY <1>1, <1>2, <1>3, <1>5
  <2> HIDE DEF r
  <2> QED
    BY <1>4, <2>1, StructIs
<1> QED
  BY <1>1, <1>2, <1>3, <1>4, <1>5, <1>6 DEF Held

LEMMA CutEnd ==
  ASSUME NEW l \in Held, NEW k \in Structs, l.lf_start < k.lf_start
  PROVE  LET r == [l EXCEPT !.lf_end = k.lf_start - 1]
         IN  /\ r \in Held /\ r.lf_id = l.lf_id /\ r.lf_type = l.lf_type
             /\ r.lf_start = l.lf_start /\ Hi(r) = k.lf_start - 1
<1> DEFINE r == [l EXCEPT !.lf_end = k.lf_start - 1]
<1>1. l \in Structs /\ l.lf_type \in Types /\ l.lf_id \in Procs
  BY DEF Held, Proper
<1>2. /\ r.lf_id = l.lf_id /\ r.lf_type = l.lf_type /\ r.lf_start = l.lf_start
      /\ r.lf_end = k.lf_start - 1
  BY <1>1 DEF Structs
<1>3. /\ k.lf_start - 1 \in EOF..MaxOff /\ k.lf_start - 1 # EOF
      /\ l.lf_start \in Int /\ k.lf_start \in Int
  BY <1>1, StructIs DEF EOF
<1>4. r \in Structs
  BY <1>1, <1>3 DEF Structs
<1>5. Hi(r) = k.lf_start - 1
  BY <1>2, <1>3 DEF Hi
<1>6. Proper(r)
  <2>1. r.lf_id \in Procs /\ r.lf_start <= Hi(r)
    BY <1>1, <1>2, <1>3, <1>5
  <2> HIDE DEF r
  <2> QED
    BY <1>4, <2>1, StructIs
<1> QED
  BY <1>1, <1>2, <1>4, <1>5, <1>6 DEF Held

-----------------------------------------------------------------------------
(* lf_setlock puts its lock on the list.                                   *)

\* The list L when the search for k = f[n] stops at place j.
Start(L, f, n, k, j) ==
  /\ LockList(L, f) /\ Ord(L, f, NOLOCKF) /\ j \in 1..Len(L) + 1
  /\ n \in Locks /\ n \notin ToSet(L) /\ f[n] = k /\ k \in Held
  /\ \A i \in 1..j - 1 : f[L[i]].lf_id = k.lf_id => Hi(f[L[i]]) < k.lf_start

\* The lock n is on the list, and what it overlaps is from place i on.
Linking(M, e, L, f, i, n, k, spare) ==
  /\ LockList(L, f) /\ Ord(L, f, n) /\ f[n] = k /\ i \in 1..Len(L) + 1
  /\ Rel(ToSet(M), e, ToSet(L), f, k, n, spare)
  /\ \E m \in 1..i - 1 :
       /\ L[m] = n
       /\ \A a \in 1..m - 1 : f[L[a]].lf_id = k.lf_id => Hi(f[L[a]]) < k.lf_start
       /\ \A a \in m + 1..Len(L) :
            f[L[a]].lf_id = k.lf_id => a >= i /\ k.lf_start < f[L[a]].lf_start

LEMMA HeldIs ==
  ASSUME NEW l \in Held
  PROVE  /\ l \in Structs /\ l.lf_start \in Int /\ Hi(l) \in Int /\ l.lf_start <= Hi(l)
         /\ 0 <= l.lf_start /\ Hi(l) <= MaxOff + 1 /\ l.lf_id \in Procs /\ l.lf_type \in Types
         /\ MaxOff \in Nat /\ Proper(l) /\ l.lf_end \in Int
         /\ l.lf_end # EOF => Hi(l) = l.lf_end
<1>1. l \in Structs /\ Proper(l) /\ l.lf_type \in Types
  BY DEF Held
<1> QED
  BY <1>1, StructIs

LEMMA ListIs ==
  ASSUME NEW L, NEW f, LockList(L, f)
  PROVE  /\ Len(L) \in Nat /\ DOMAIN L = 1..Len(L)
         /\ \A i \in 1..Len(L) : /\ L[i] \in Locks /\ L[i] \in ToSet(L) /\ L[i] # NOLOCKF
                                 /\ f[L[i]] \in Held
                                 /\ f[L[i]].lf_start \in Int /\ Hi(f[L[i]]) \in Int
                                 /\ f[L[i]].lf_start <= Hi(f[L[i]])
         /\ \A i, j \in 1..Len(L) : L[i] = L[j] => i = j
         /\ ToSet(L) \subseteq Locks
         /\ \A c \in ToSet(L) : \E i \in 1..Len(L) : c = L[i]
<1>1. Len(L) \in Nat /\ DOMAIN L = 1..Len(L)
  BY DEF LockList
<1>2. \A i \in 1..Len(L) : L[i] \in Locks /\ L[i] \in ToSet(L) /\ L[i] # NOLOCKF
  BY <1>1, NotALock DEF LockList, ToSet
<1>3. \A i \in 1..Len(L) : f[L[i]] \in Held
  BY <1>2 DEF LockList
<1>4. \A i \in 1..Len(L) : /\ f[L[i]].lf_start \in Int /\ Hi(f[L[i]]) \in Int
                           /\ f[L[i]].lf_start <= Hi(f[L[i]])
  BY <1>3, HeldIs
<1>5. \A i, j \in 1..Len(L) : L[i] = L[j] => i = j
  BY <1>1 DEF LockList, IsInjective
<1>6. ToSet(L) \subseteq Locks /\ \A c \in ToSet(L) : \E i \in 1..Len(L) : c = L[i]
  BY <1>1, <1>2 DEF ToSet
<1> QED
  BY <1>1, <1>2, <1>3, <1>4, <1>5, <1>6

\* To make one lock narrower keeps the order.
LEMMA OrdChanged ==
  ASSUME NEW L, NEW f, LockList(L, f), NEW x, Ord(L, f, x), NEW o \in ToSet(L), NEW r \in Held,
         r.lf_id = f[o].lf_id, Hi(r) <= Hi(f[o]), f[o].lf_start <= r.lf_start
  PROVE  /\ Ord(L, [f EXCEPT ![o] = r], x) /\ LockList(L, [f EXCEPT ![o] = r])
<1> DEFINE g == [f EXCEPT ![o] = r]
<1>1. f \in [Locks -> Structs] /\ o \in Locks
  BY ListIs DEF LockList
<1>2. g \in [Locks -> Structs] /\ g[o] = r /\ \A c \in Locks \ {o} : g[c] = f[c]
  BY <1>1, HeldIs
<1> HIDE DEF g
<1>3. \A c \in ToSet(L) : c \in Locks /\ f[c] \in Held
  BY ListIs DEF LockList
<1>4. \A c \in ToSet(L) : g[c] \in Held
  BY <1>2, <1>3
<1>5. LockList(L, g)
  BY <1>2, <1>4 DEF LockList
<1>6. \A c \in ToSet(L) : /\ g[c].lf_id = f[c].lf_id /\ Hi(g[c]) <= Hi(f[c])
                          /\ f[c].lf_start <= g[c].lf_start
                          /\ f[c].lf_start \in Int /\ g[c].lf_start \in Int
                          /\ Hi(f[c]) \in Int /\ Hi(g[c]) \in Int
  <2> TAKE c \in ToSet(L)
  <2>1. /\ f[c].lf_start \in Int /\ g[c].lf_start \in Int
        /\ Hi(f[c]) \in Int /\ Hi(g[c]) \in Int
    BY <1>3, <1>4, HeldIs
  <2>2. CASE c = o
    BY <1>2, <2>1, <2>2
  <2>3. CASE c # o
    BY <1>2, <1>3, <2>1, <2>3
  <2> QED
    BY <2>2, <2>3
<1>7. ASSUME NEW i \in 1..Len(L), NEW j \in 1..Len(L), i < j, L[i] # x, L[j] # x,
             g[L[i]].lf_id = g[L[j]].lf_id
      PROVE  Hi(g[L[i]]) < g[L[j]].lf_start
  <2>1. L[i] \in ToSet(L) /\ L[j] \in ToSet(L)
    BY ListIs
  <2>2. Hi(f[L[i]]) < f[L[j]].lf_start
    BY <1>6, <1>7, <2>1 DEF Ord, Clear
  <2>3. Hi(g[L[i]]) <= Hi(f[L[i]]) /\ Hi(f[L[i]]) \in Int /\ Hi(g[L[i]]) \in Int
    BY <1>6, <2>1
  <2>4. /\ f[L[j]].lf_start <= g[L[j]].lf_start
        /\ f[L[j]].lf_start \in Int /\ g[L[j]].lf_start \in Int
    BY <1>6, <2>1
  <2> QED
    BY <2>2, <2>3, <2>4
<1>8. Ord(L, g, x)
  BY <1>7 DEF Ord, Clear
<1> QED
  BY <1>5, <1>8 DEF g

\* What is known of the lock where the search stops.
LEMMA HitIs ==
  ASSUME NEW L, NEW f, NEW n, NEW k, NEW j, Start(L, f, n, k, j), j \in 1..Len(L),
         f[L[j]].lf_id = k.lf_id
  PROVE  /\ L[j] \in Locks /\ L[j] \in ToSet(L) /\ L[j] # n /\ L[j] # NOLOCKF /\ f[L[j]] \in Held
         /\ \A i \in j + 1..Len(L) :
              f[L[i]].lf_id = k.lf_id => Hi(f[L[j]]) < f[L[i]].lf_start
<1>1. LockList(L, f) /\ Ord(L, f, NOLOCKF) /\ n \notin ToSet(L)
  BY DEF Start
<1>2. L[j] \in Locks /\ L[j] \in ToSet(L) /\ L[j] # NOLOCKF /\ f[L[j]] \in Held
  BY <1>1, ListIs
<1>3. ASSUME NEW i \in j + 1..Len(L), f[L[i]].lf_id = k.lf_id
      PROVE  Hi(f[L[j]]) < f[L[i]].lf_start
  <2>1. i \in 1..Len(L) /\ j < i /\ Len(L) \in Nat
    BY <1>1, ListIs
  <2>2. L[i] # NOLOCKF
    BY <1>1, <2>1, ListIs
  <2> QED
    BY <1>1, <1>2, <1>3, <2>1, <2>2 DEF Ord, Clear
<1> QED
  BY <1>1, <1>2, <1>3

\* The kinds of change that a turn makes to one lock o: the bytes of the range
\* are cut off its beginning, or its end, or all of it.
LEMMA RelLater ==
  ASSUME NEW S, S \subseteq Locks, NEW T, NEW f \in [Locks -> Structs], NEW k \in Structs,
         Proper(k), NEW n, NEW spare, NEW o \in S, NEW r \in Held,
         f[o].lf_id = k.lf_id, f[o] \in Held, o # n, spare \notin S, n \in Locks => n # spare /\ f[n] = k,
         T = S \/ (T = S \cup {n} /\ n \in Locks),
         r.lf_id = f[o].lf_id, r.lf_type = f[o].lf_type, r.lf_start = Hi(k) + 1,
         Hi(r) = Hi(f[o]), k.lf_start <= f[o].lf_start, f[o].lf_start <= Hi(k) + 1
  PROVE  Rel(S, f, T, [f EXCEPT ![o] = r], k, n, spare)
<1> DEFINE g == [f EXCEPT ![o] = r]
<1>1. g[o] = r /\ \A c \in Locks \ {o, spare} : g[c] = f[c]
  OBVIOUS
<1>2. /\ k.lf_start \in Int /\ Hi(k) \in Int /\ f[o].lf_start \in Int /\ Hi(f[o]) \in Int
  BY HeldIs, StructIs
<1> HIDE DEF g
<1>3. \A b \in Int : ~ Covers(k, b) /\ Covers(g[o], b) => Covers(f[o], b)
  BY <1>1, <1>2 DEF Covers
<1>4. \A b \in Int : ~ Covers(k, b) /\ Covers(f[o], b) => Covers(g[o], b)
  BY <1>1, <1>2 DEF Covers
<1>5. /\ o # spare /\ T \subseteq S \cup {n, spare} /\ S \ {o} \subseteq T /\ T \subseteq Locks
      /\ spare \notin T /\ (n \in T => n # spare /\ f[n] = k)
      /\ o \in T /\ g[o].lf_id = k.lf_id /\ g[o].lf_type = f[o].lf_type
  BY <1>1
<1> QED
  BY <1>1, <1>3, <1>4, <1>5, RelOne DEF g

LEMMA RelSooner ==
  ASSUME NEW S, S \subseteq Locks, NEW T, NEW f \in [Locks -> Structs], NEW k \in Structs,
         Proper(k), NEW n, NEW spare, NEW o \in S, NEW r \in Held,
         f[o].lf_id = k.lf_id, f[o] \in Held, o # n, spare \notin S, n \in Locks => n # spare /\ f[n] = k,
         T = S \/ (T = S \cup {n} /\ n \in Locks),
         r.lf_id = f[o].lf_id, r.lf_type = f[o].lf_type, r.lf_start = f[o].lf_start,
         Hi(r) = k.lf_start - 1, k.lf_start <= Hi(f[o]) + 1, Hi(f[o]) <= Hi(k)
  PROVE  Rel(S, f, T, [f EXCEPT ![o] = r], k, n, spare)
<1> DEFINE g == [f EXCEPT ![o] = r]
<1>1. g[o] = r /\ \A c \in Locks \ {o, spare} : g[c] = f[c]
  OBVIOUS
<1>2. /\ k.lf_start \in Int /\ Hi(k) \in Int /\ f[o].lf_start \in Int /\ Hi(f[o]) \in Int
  BY HeldIs, StructIs
<1> HIDE DEF g
<1>3. \A b \in Int : ~ Covers(k, b) /\ Covers(g[o], b) => Covers(f[o], b)
  BY <1>1, <1>2 DEF Covers
<1>4. \A b \in Int : ~ Covers(k, b) /\ Covers(f[o], b) => Covers(g[o], b)
  BY <1>1, <1>2 DEF Covers
<1>5. /\ o # spare /\ T \subseteq S \cup {n, spare} /\ S \ {o} \subseteq T /\ T \subseteq Locks
      /\ spare \notin T /\ (n \in T => n # spare /\ f[n] = k)
      /\ o \in T /\ g[o].lf_id = k.lf_id /\ g[o].lf_type = f[o].lf_type
  BY <1>1
<1> QED
  BY <1>1, <1>3, <1>4, <1>5, RelOne DEF g

LEMMA RelGone ==
  ASSUME NEW S, S \subseteq Locks, NEW T, NEW f \in [Locks -> Structs], NEW k \in Structs,
         Proper(k), NEW n, NEW spare, NEW o \in S,
         f[o].lf_id = k.lf_id, f[o] \in Held, o # n, spare \notin S, n \in Locks => n # spare /\ f[n] = k,
         T = S \ {o} \/ (T = (S \ {o}) \cup {n} /\ n \in Locks),
         k.lf_start <= f[o].lf_start, Hi(f[o]) <= Hi(k)
  PROVE  Rel(S, f, T, f, k, n, spare)
<1>1. /\ k.lf_start \in Int /\ Hi(k) \in Int /\ f[o].lf_start \in Int /\ Hi(f[o]) \in Int
  BY HeldIs, StructIs
<1>2. \A b \in Int : Covers(f[o], b) => Covers(k, b)
  BY <1>1 DEF Covers
<1>3. /\ o # spare /\ T \subseteq S \cup {n, spare} /\ S \ {o} \subseteq T /\ T \subseteq Locks
      /\ spare \notin T /\ (n \in T => n # spare /\ f[n] = k) /\ o \notin T
  OBVIOUS
<1> QED
  BY <1>2, <1>3, RelOne

\* What follows of the owner's locks where the search stops.
LEMMA Behind ==
  ASSUME NEW L, NEW f, NEW n, NEW k, NEW j, Start(L, f, n, k, j), NEW b \in Int,
         j \in 1..Len(L) => f[L[j]].lf_id = k.lf_id /\ b < f[L[j]].lf_start
  PROVE  \A i \in j..Len(L) : f[L[i]].lf_id = k.lf_id => b < f[L[i]].lf_start
<1> SUFFICES ASSUME NEW i \in j..Len(L), f[L[i]].lf_id = k.lf_id
             PROVE  b < f[L[i]].lf_start
  OBVIOUS
<1>1. LockList(L, f) /\ j \in 1..Len(L) + 1
  BY DEF Start
<1>2. j \in 1..Len(L) /\ i \in 1..Len(L) /\ Len(L) \in Nat
  BY <1>1, ListIs
<1>3. /\ f[L[i]].lf_start \in Int /\ f[L[j]].lf_start \in Int /\ Hi(f[L[j]]) \in Int
      /\ f[L[j]].lf_start <= Hi(f[L[j]])
  BY <1>1, <1>2, ListIs
<1>4. CASE i = j
  BY <1>2, <1>4
<1>5. CASE i # j
  <2>1. i \in j + 1..Len(L)
    BY <1>2, <1>5
  <2>2. Hi(f[L[j]]) < f[L[i]].lf_start
    BY <1>2, <2>1, HitIs
  <2>3. b < f[L[j]].lf_start
    BY <1>2
  <2> HIDE DEF Hi
  <2> QED
    BY <1>3, <2>2, <2>3
<1> QED
  BY <1>4, <1>5

\* Case 0, no overlap.
LEMMA Put0 ==
  ASSUME NEW L, NEW f, NEW n, NEW k, NEW j, Start(L, f, n, k, j), NEW spare,
         \A i \in j..Len(L) : f[L[i]].lf_id = k.lf_id => Hi(k) < f[L[i]].lf_start
  PROVE  Linked(L, f, InsertAt(L, j, n), f, n, k, spare)
<1> DEFINE r == InsertAt(L, j, n)
<1>1. /\ LockList(L, f) /\ Ord(L, f, NOLOCKF) /\ n \in Locks /\ n \notin ToSet(L)
      /\ f[n] = k /\ k \in Held /\ j \in 1..Len(L) + 1 /\ L \in Seq(Locks) /\ IsInjective(L)
  BY DEF Start, LockList
<1>2. k.lf_start \in Int /\ Hi(k) \in Int /\ k.lf_start <= Hi(k)
  BY <1>1, HeldIs
<1>3. \A i \in 1..j - 1 : Clear(f[L[i]], f[n])
  BY <1>1 DEF Start, Clear
<1>5. \A i \in j..Len(L) : Clear(f[n], f[L[i]])
  BY <1>1 DEF Clear
<1>6. /\ r \in Seq(Locks) /\ IsInjective(r) /\ ToSet(r) = ToSet(L) \cup {n}
      /\ Ord(r, f, NOLOCKF)
  BY <1>1, <1>3, <1>5, InsertedList
<1> HIDE DEF r
<1>7. LockList(r, f)
  BY <1>1, <1>6 DEF LockList
<1>8. Locked(r, f, k)
  BY <1>1, <1>2, <1>6 DEF Locked
<1>9. Rel(ToSet(L), f, ToSet(r), f, k, n, spare)
  BY <1>1, <1>6, RelAdd
<1> QED
  BY <1>1, <1>6, <1>7, <1>8, <1>9 DEF Linked, r

\* The lock is put on the list before those it overlaps.
LEMMA PutOn ==
  ASSUME NEW L, NEW f, NEW n, NEW k, NEW j, Start(L, f, n, k, j), NEW spare,
         \A i \in j..Len(L) : f[L[i]].lf_id = k.lf_id => k.lf_start < f[L[i]].lf_start
  PROVE  Linking(L, f, InsertAt(L, j, n), f, j + 1, n, k, spare)
<1> DEFINE r == InsertAt(L, j, n)
<1>1. /\ LockList(L, f) /\ Ord(L, f, NOLOCKF) /\ n \in Locks /\ n \notin ToSet(L)
      /\ f[n] = k /\ k \in Held /\ j \in 1..Len(L) + 1 /\ L \in Seq(Locks) /\ IsInjective(L)
      /\ \A i \in 1..j - 1 : f[L[i]].lf_id = k.lf_id => Hi(f[L[i]]) < k.lf_start
  BY DEF Start, LockList
<1>2. Ord(L, f, n)
  <2>1. \A i \in 1..Len(L) : L[i] # NOLOCKF
    BY <1>1, ListIs
  <2> QED
    BY <1>1, <2>1 DEF Ord
<1>3. /\ r \in Seq(Locks) /\ IsInjective(r) /\ ToSet(r) = ToSet(L) \cup {n}
      /\ Ord(r, f, n) /\ Len(r) = Len(L) + 1 /\ Len(L) \in Nat
      /\ \A i \in 1..Len(r) : r[i] = IF i < j THEN L[i] ELSE IF i = j THEN n ELSE L[i - 1]
  BY <1>1, <1>2, InsertedList
<1> HIDE DEF r
<1>4. LockList(r, f)
  BY <1>1, <1>3 DEF LockList
<1>5. Rel(ToSet(L), f, ToSet(r), f, k, n, spare)
  BY <1>1, <1>3, RelAdd
<1>6. j + 1 \in 1..Len(r) + 1 /\ j \in 1..(j + 1) - 1 /\ r[j] = n
  BY <1>1, <1>3
<1>7. \A a \in 1..j - 1 : f[r[a]].lf_id = k.lf_id => Hi(f[r[a]]) < k.lf_start
  <2>1. \A a \in 1..j - 1 : r[a] = L[a]
    BY <1>1, <1>3
  <2> QED
    BY <1>1, <2>1
<1>8. \A a \in j + 1..Len(r) :
        f[r[a]].lf_id = k.lf_id => a >= j + 1 /\ k.lf_start < f[r[a]].lf_start
  <2>1. \A a \in j + 1..Len(r) : r[a] = L[a - 1] /\ a - 1 \in j..Len(L) /\ a >= j + 1
    BY <1>1, <1>3
  <2> QED
    BY <2>1
<1> QED
  BY <1>1, <1>3, <1>4, <1>5, <1>6, <1>7, <1>8 DEF Linking, r

\* What has been changed before counts too.
LEMMA LinkedAfter ==
  ASSUME NEW M, NEW e, NEW L, NEW f, NEW n, NEW k, NEW spare, NEW L2, NEW f2,
         Rel(ToSet(M), e, ToSet(L), f, k, n, spare)
  PROVE  /\ Linked(L, f, L2, f2, n, k, spare) => Linked(M, e, L2, f2, n, k, spare)
         /\ \A i : Linking(L, f, L2, f2, i, n, k, spare) => Linking(M, e, L2, f2, i, n, k, spare)
<1>1. Rel(ToSet(L), f, ToSet(L2), f2, k, n, spare) => Rel(ToSet(M), e, ToSet(L2), f2, k, n, spare)
  BY RelSteps
<1> QED
  BY <1>1 DEF Linked, Linking

\* The lock where the search stops is made narrower.
LEMMA Narrowed ==
  ASSUME NEW L, NEW f, NEW n, NEW k, NEW j, Start(L, f, n, k, j), j \in 1..Len(L),
         NEW r \in Held, r.lf_id = f[L[j]].lf_id,
         Hi(r) <= Hi(f[L[j]]), f[L[j]].lf_start <= r.lf_start
  PROVE  LET g == [f EXCEPT ![L[j]] = r]
         IN  /\ Start(L, g, n, k, j) /\ g[L[j]] = r
             /\ \A i \in 1..Len(L) : i # j => g[L[i]] = f[L[i]]
             /\ Hi(r) < k.lf_start => Start(L, g, n, k, j + 1)
<1> DEFINE o == L[j]
           g == [f EXCEPT ![o] = r]
<1>1. /\ LockList(L, f) /\ Ord(L, f, NOLOCKF) /\ n \in Locks /\ n \notin ToSet(L)
      /\ f[n] = k /\ k \in Held /\ f \in [Locks -> Structs]
      /\ \A i \in 1..j - 1 : f[L[i]].lf_id = k.lf_id => Hi(f[L[i]]) < k.lf_start
  BY DEF Start, LockList
<1>2. /\ Len(L) \in Nat /\ L[j] \in ToSet(L) /\ ToSet(L) \subseteq Locks
      /\ \A i \in 1..Len(L) : L[i] \in Locks /\ (i # j => L[i] # L[j])
  BY <1>1, ListIs
<1>3. Ord(L, g, NOLOCKF) /\ LockList(L, g)
  <2> HIDE DEF o
  <2>1. o \in ToSet(L) /\ r.lf_id = f[o].lf_id /\ Hi(r) <= Hi(f[o]) /\ f[o].lf_start <= r.lf_start
    BY <1>2 DEF o
  <2> QED
    BY <1>1, <2>1, OrdChanged
<1>4. g[o] = r /\ \A c \in Locks : c # o => g[c] = f[c]
  BY <1>1, <1>2
<1>5. g[n] = k /\ \A i \in 1..Len(L) : i # j => g[L[i]] = f[L[i]]
  BY <1>1, <1>2, <1>4
<1> HIDE DEF g
<1>6. \A i \in 1..j - 1 : g[L[i]].lf_id = k.lf_id => Hi(g[L[i]]) < k.lf_start
  <2>1. \A i \in 1..j - 1 : g[L[i]] = f[L[i]]
    BY <1>2, <1>5
  <2> QED
    BY <1>1, <2>1
<1>7. Start(L, g, n, k, j)
  BY <1>1, <1>2, <1>3, <1>5, <1>6 DEF Start
<1>8. ASSUME Hi(r) < k.lf_start PROVE Start(L, g, n, k, j + 1)
  <2>1. j + 1 \in 1..Len(L) + 1 /\ \A i \in 1..(j + 1) - 1 : i = j \/ i \in 1..j - 1
    BY <1>2
  <2>2. \A i \in 1..(j + 1) - 1 : g[L[i]].lf_id = k.lf_id => Hi(g[L[i]]) < k.lf_start
    BY <1>4, <1>6, <1>8, <2>1
  <2> QED
    BY <1>1, <1>3, <1>5, <2>1, <2>2 DEF Start
<1> QED
  BY <1>4, <1>5, <1>7, <1>8 DEF g

\* Case 1, the same range.
LEMMA Put1 ==
  ASSUME NEW L, NEW f, NEW n, NEW k, NEW j, Start(L, f, n, k, j), j \in 1..Len(L),
         f[L[j]].lf_id = k.lf_id, NEW spare, spare \notin ToSet(L), spare # n,
         f[L[j]].lf_start = k.lf_start, f[L[j]].lf_end = k.lf_end
  PROVE  Linked(L, f, L, [f EXCEPT ![L[j]].lf_type = k.lf_type], n, k, spare)
<1> DEFINE o == L[j]
           r == [f[o] EXCEPT !.lf_type = k.lf_type]
           g == [f EXCEPT ![o] = r]
<1>1. /\ LockList(L, f) /\ Ord(L, f, NOLOCKF) /\ n \in Locks /\ n \notin ToSet(L)
      /\ f[n] = k /\ k \in Held /\ f \in [Locks -> Structs]
  BY DEF Start, LockList
<1>2. o \in Locks /\ o \in ToSet(L) /\ o # n /\ f[o] \in Held
  BY HitIs
<1>3. ToSet(L) \subseteq Locks
  BY <1>1, ListIs
<1>4. [f EXCEPT ![L[j]].lf_type = k.lf_type] = g
  OBVIOUS
<1>5. /\ r.lf_id = f[o].lf_id /\ r.lf_start = f[o].lf_start /\ r.lf_end = f[o].lf_end
      /\ r.lf_type = k.lf_type
  BY <1>1, <1>2 DEF Held, Structs
<1>6. r \in Held
  BY <1>1, <1>2, <1>5 DEF Held, Structs, Proper
<1> HIDE DEF r
<1>7. Hi(r) = Hi(f[o]) /\ Hi(r) = Hi(k) /\ Hi(r) \in Int /\ r.lf_start \in Int /\ Hi(k) \in Int
  BY <1>1, <1>5, <1>6, HeldIs DEF Hi
<1>8. Ord(L, g, NOLOCKF) /\ LockList(L, g)
  <2>1. r.lf_id = f[o].lf_id /\ Hi(r) <= Hi(f[o]) /\ f[o].lf_start <= r.lf_start
    BY <1>5, <1>7
  <2> HIDE DEF o
  <2> QED
    BY <1>1, <1>2, <1>6, <2>1, OrdChanged
<1>9. g[o] = r /\ g[n] = k /\ \A c \in Locks \ {o, spare} : g[c] = f[c]
  BY <1>1, <1>2
<1> HIDE DEF g
<1>10. \A b \in Int : Covers(g[o], b) <=> Covers(k, b)
  BY <1>5, <1>7, <1>9 DEF Covers
<1>11. \A b \in Int : Covers(f[o], b) <=> Covers(k, b)
  BY <1>5, <1>7 DEF Covers
<1>12. Rel(ToSet(L), f, ToSet(L), g, k, n, spare)
  BY <1>1, <1>2, <1>3, <1>5, <1>9, <1>10, <1>11, RelOne
<1>13. Locked(L, g, k)
  BY <1>2, <1>5, <1>7, <1>9 DEF Locked
<1> QED
  BY <1>4, <1>8, <1>9, <1>12, <1>13 DEF Linked

\* Case 2, contained in a lock of the same type.
LEMMA Put2 ==
  ASSUME NEW L, NEW f, NEW n, NEW k, NEW j, Start(L, f, n, k, j), j \in 1..Len(L),
         f[L[j]].lf_id = k.lf_id, NEW spare, f[L[j]].lf_type = k.lf_type,
         f[L[j]].lf_start <= k.lf_start, Hi(k) <= Hi(f[L[j]])
  PROVE  Linked(L, f, L, f, n, k, spare)
<1>1. LockList(L, f) /\ Ord(L, f, NOLOCKF) /\ f[n] = k
  BY DEF Start
<1>2. Locked(L, f, k)
  BY HitIs DEF Locked
<1> QED
  BY <1>1, <1>2, RelSame DEF Linked

\* Case 2 with the same start, and case 5: the lock goes before what is left.
LEMMA PutBefore ==
  ASSUME NEW L, NEW f, NEW n, NEW k, NEW j, Start(L, f, n, k, j), j \in 1..Len(L),
         f[L[j]].lf_id = k.lf_id, NEW spare, spare \notin ToSet(L), spare # n,
         k.lf_start <= f[L[j]].lf_start, f[L[j]].lf_start <= Hi(k),
         Hi(k) < Hi(f[L[j]]), k.lf_end # EOF
  PROVE  Linked(L, f, InsertAt(L, j, n), [f EXCEPT ![L[j]].lf_start = k.lf_end + 1], n, k, spare)
<1> DEFINE o == L[j]
           r == [f[o] EXCEPT !.lf_start = k.lf_end + 1]
           g == [f EXCEPT ![o] = r]
<1>1. /\ LockList(L, f) /\ n \in Locks /\ f[n] = k /\ k \in Held /\ f \in [Locks -> Structs]
  BY DEF Start, LockList
<1>2. o \in Locks /\ o \in ToSet(L) /\ o # n /\ f[o] \in Held /\ ToSet(L) \subseteq Locks
  BY <1>1, HitIs, ListIs
<1>3. /\ k \in Structs /\ Proper(k) /\ Hi(k) \in Int /\ f[o].lf_start \in Int /\ Hi(f[o]) \in Int
      /\ k.lf_start \in Int
  BY <1>1, <1>2, HeldIs
<1>4. /\ r \in Held /\ r.lf_id = f[o].lf_id /\ r.lf_type = f[o].lf_type
      /\ r.lf_start = Hi(k) + 1 /\ Hi(r) = Hi(f[o])
  BY <1>2, <1>3, CutStart
<1>5. [f EXCEPT ![L[j]].lf_start = k.lf_end + 1] = g
  OBVIOUS
<1> HIDE DEF r
<1>6. Hi(r) <= Hi(f[o]) /\ f[o].lf_start <= r.lf_start /\ f[o].lf_start <= Hi(k) + 1
      /\ Hi(k) < r.lf_start
  BY <1>3, <1>4
<1>7. Start(L, g, n, k, j) /\ g[L[j]] = r
  BY <1>4, <1>6, Narrowed
<1>8. Rel(ToSet(L), f, ToSet(L), g, k, n, spare)
  <2> HIDE DEF o
  <2> QED
    BY <1>1, <1>2, <1>3, <1>4, <1>6, RelLater DEF o
<1> HIDE DEF g
<1>9. \A i \in j..Len(L) : g[L[i]].lf_id = k.lf_id => Hi(k) < g[L[i]].lf_start
  BY <1>3, <1>4, <1>6, <1>7, Behind
<1>10. Linked(L, g, InsertAt(L, j, n), g, n, k, spare)
  BY <1>7, <1>9, Put0
<1> QED
  BY <1>5, <1>8, <1>10, LinkedAfter

\* Case 3, the lock takes the place of one it contains.
LEMMA Put3 ==
  ASSUME NEW L, NEW f, NEW n, NEW k, NEW j, Start(L, f, n, k, j), j \in 1..Len(L),
         f[L[j]].lf_id = k.lf_id, NEW spare, spare \notin ToSet(L), spare # n,
         k.lf_start <= f[L[j]].lf_start, Hi(f[L[j]]) <= Hi(k)
  PROVE  Linking(L, f, [L EXCEPT ![j] = n], f, j + 1, n, k, spare)
<1> DEFINE o == L[j]
           q == [L EXCEPT ![j] = n]
<1>1. /\ LockList(L, f) /\ Ord(L, f, NOLOCKF) /\ n \in Locks /\ n \notin ToSet(L)
      /\ f[n] = k /\ k \in Held /\ L \in Seq(Locks) /\ IsInjective(L) /\ f \in [Locks -> Structs]
      /\ \A i \in 1..j - 1 : f[L[i]].lf_id = k.lf_id => Hi(f[L[i]]) < k.lf_start
  BY DEF Start, LockList
<1>2. /\ o \in Locks /\ o \in ToSet(L) /\ o # n /\ f[o] \in Held
      /\ \A i \in j + 1..Len(L) : f[L[i]].lf_id = k.lf_id => Hi(f[L[j]]) < f[L[i]].lf_start
  BY HitIs
<1>3. /\ ToSet(L) \subseteq Locks /\ Len(L) \in Nat
      /\ \A i \in 1..Len(L) : L[i] # NOLOCKF /\ f[L[i]].lf_start \in Int
  BY <1>1, ListIs
<1>4. /\ k \in Structs /\ Proper(k) /\ Hi(k) \in Int /\ f[o].lf_start \in Int /\ Hi(f[o]) \in Int
      /\ k.lf_start \in Int /\ f[o].lf_start <= Hi(f[o])
  BY <1>1, <1>2, HeldIs
<1>5. Ord(L, f, n)
  BY <1>1, <1>3 DEF Ord
<1>6. /\ q \in Seq(Locks) /\ Len(q) = Len(L) /\ IsInjective(q)
      /\ \A i \in 1..Len(q) : q[i] = IF i = j THEN n ELSE L[i]
      /\ ToSet(q) = (ToSet(L) \ {o}) \cup {n}
      /\ Ord(q, f, n)
  <2> HIDE DEF q
  <2>1. LET r == [L EXCEPT ![j] = n]
        IN  /\ r \in Seq(Locks) /\ Len(r) = Len(L) /\ IsInjective(r)
            /\ \A i \in 1..Len(r) : r[i] = IF i = j THEN n ELSE L[i]
            /\ ToSet(r) = (ToSet(L) \ {L[j]}) \cup {n}
            /\ \A h : Ord(L, h, n) => Ord(r, h, n)
    BY <1>1, ReplacedList, Zenon
  <2> QED
    BY <1>5, <2>1, Zenon DEF q
<1> HIDE DEF q
<1>7. LockList(q, f)
  BY <1>1, <1>6 DEF LockList
<1>8. Rel(ToSet(L), f, ToSet(q), f, k, n, spare)
  <2> HIDE DEF o
  <2> QED
    BY <1>1, <1>2, <1>3, <1>4, <1>6, RelGone DEF o
<1>9. j + 1 \in 1..Len(q) + 1 /\ j \in 1..(j + 1) - 1 /\ q[j] = n
  BY <1>3, <1>6
<1>10. \A a \in 1..j - 1 : f[q[a]].lf_id = k.lf_id => Hi(f[q[a]]) < k.lf_start
  <2>1. \A a \in 1..j - 1 : q[a] = L[a]
    BY <1>3, <1>6
  <2> QED
    BY <1>1, <2>1
<1>11. \A a \in j + 1..Len(q) :
        f[q[a]].lf_id = k.lf_id => a >= j + 1 /\ k.lf_start < f[q[a]].lf_start
  <2> SUFFICES ASSUME NEW a \in j + 1..Len(q), f[q[a]].lf_id = k.lf_id
               PROVE  a >= j + 1 /\ k.lf_start < f[q[a]].lf_start
    OBVIOUS
  <2>1. q[a] = L[a] /\ a \in j + 1..Len(L) /\ a >= j + 1 /\ a \in 1..Len(L)
    BY <1>3, <1>6
  <2>2. Hi(f[o]) < f[L[a]].lf_start /\ f[L[a]].lf_start \in Int
    BY <1>2, <1>3, <2>1
  <2>3. k.lf_start < f[L[a]].lf_start
    BY <1>4, <2>2, Transitive, Zenon
  <2> QED
    BY <2>1, <2>3
<1> QED
  BY <1>1, <1>6, <1>7, <1>8, <1>9, <1>10, <1>11 DEF Linking, q

\* Case 4, the lock goes behind what is left.
LEMMA Put4 ==
  ASSUME NEW L, NEW f, NEW n, NEW k, NEW j, Start(L, f, n, k, j), j \in 1..Len(L),
         f[L[j]].lf_id = k.lf_id, NEW spare, spare \notin ToSet(L), spare # n,
         f[L[j]].lf_start < k.lf_start, k.lf_start <= Hi(f[L[j]])
  PROVE  LET g == [f EXCEPT ![L[j]].lf_end = k.lf_start - 1]
         IN  /\ Hi(f[L[j]]) <= Hi(k) =>
                  Linking(L, f, InsertAt(L, j + 1, n), g, j + 2, n, k, spare)
             /\ Hi(f[L[j]]) = Hi(k) =>
                  Linked(L, f, InsertAt(L, j + 1, n), g, n, k, spare)
<1> DEFINE o == L[j]
           r == [f[o] EXCEPT !.lf_end = k.lf_start - 1]
           g == [f EXCEPT ![o] = r]
<1>1. /\ LockList(L, f) /\ n \in Locks /\ f[n] = k /\ k \in Held /\ f \in [Locks -> Structs]
  BY DEF Start, LockList
<1>2. /\ o \in Locks /\ o \in ToSet(L) /\ o # n /\ f[o] \in Held /\ ToSet(L) \subseteq Locks
      /\ \A i \in j + 1..Len(L) : f[L[i]].lf_id = k.lf_id => Hi(f[L[j]]) < f[L[i]].lf_start
      /\ Len(L) \in Nat /\ \A i \in 1..Len(L) : f[L[i]].lf_start \in Int
  <2>1. /\ ToSet(L) \subseteq Locks /\ Len(L) \in Nat
        /\ \A i \in 1..Len(L) : f[L[i]].lf_start \in Int
    BY <1>1, ListIs
  <2> QED
    BY <2>1, HitIs
<1>3. /\ k \in Structs /\ Proper(k) /\ Hi(k) \in Int /\ f[o].lf_start \in Int /\ Hi(f[o]) \in Int
      /\ k.lf_start \in Int
  BY <1>1, <1>2, HeldIs
<1>4. /\ r \in Held /\ r.lf_id = f[o].lf_id /\ r.lf_type = f[o].lf_type
      /\ r.lf_start = f[o].lf_start /\ Hi(r) = k.lf_start - 1
  BY <1>2, <1>3, CutEnd
<1>5. [f EXCEPT ![L[j]].lf_end = k.lf_start - 1] = g
  OBVIOUS
<1> HIDE DEF r
<1>6. Hi(r) <= Hi(f[o]) /\ f[o].lf_start <= r.lf_start /\ k.lf_start <= Hi(f[o]) + 1
      /\ Hi(r) < k.lf_start
  BY <1>3, <1>4
<1>7. Start(L, g, n, k, j + 1) /\ \A i \in 1..Len(L) : i # j => g[L[i]] = f[L[i]]
  BY <1>4, <1>6, Narrowed
<1>8. Hi(f[o]) <= Hi(k) => Rel(ToSet(L), f, ToSet(L), g, k, n, spare)
  <2> HIDE DEF o
  <2> QED
    BY <1>1, <1>2, <1>3, <1>4, <1>6, RelSooner DEF o
<1> HIDE DEF g
<1>9. \A i \in j + 1..Len(L) :
        g[L[i]].lf_id = k.lf_id => Hi(f[o]) < g[L[i]].lf_start /\ g[L[i]].lf_start \in Int
  <2>1. \A i \in j + 1..Len(L) : i # j /\ i \in 1..Len(L)
    BY <1>2
  <2> QED
    BY <1>2, <1>7, <2>1
<1>10. \A i \in j + 1..Len(L) : g[L[i]].lf_id = k.lf_id => k.lf_start < g[L[i]].lf_start
  BY <1>3, <1>9
<1>11. Linking(L, g, InsertAt(L, j + 1, n), g, (j + 1) + 1, n, k, spare)
  BY <1>7, <1>10, PutOn
<1>12. (j + 1) + 1 = j + 2
  OBVIOUS
<1>13. ASSUME Hi(f[o]) = Hi(k) PROVE Linked(L, g, InsertAt(L, j + 1, n), g, n, k, spare)
  <2>1. \A i \in j + 1..Len(L) : g[L[i]].lf_id = k.lf_id => Hi(k) < g[L[i]].lf_start
    BY <1>9, <1>13
  <2> QED
    BY <1>7, <2>1, Put0
<1>14. Hi(f[o]) = Hi(k) => Hi(f[o]) <= Hi(k)
  BY <1>3
<1> QED
  BY <1>5, <1>8, <1>11, <1>12, <1>13, <1>14, LinkedAfter

\* A lock is split at s: what is put behind its first part stays inside it.
SplitAt(L, f, j, o, m, s, g, q) ==
  /\ LockList(L, f) /\ Ord(L, f, NOLOCKF) /\ j \in 1..Len(L) /\ o = L[j]
  /\ m \in Seq(Locks) /\ IsInjective(m) /\ ToSet(m) \cap ToSet(L) = {} /\ s \in Int
  /\ g \in [Locks -> Structs] /\ \A c \in ToSet(L) \ {o} : g[c] = f[c]
  /\ g[o] \in Held /\ g[o].lf_id = f[o].lf_id /\ g[o].lf_start = f[o].lf_start
  /\ Hi(g[o]) < s /\ f[o].lf_start < s /\ s <= Hi(f[o]) /\ Ord(m, g, NOLOCKF)
  /\ \A c \in ToSet(m) : /\ g[c] \in Held /\ g[c].lf_id = f[o].lf_id
                         /\ s <= g[c].lf_start /\ Hi(g[c]) <= Hi(f[o])
  /\ q \in Seq(Locks) /\ SplicedAt(L, j, m, q)

LEMMA SplitOrder ==
  ASSUME NEW L, NEW f, NEW j, NEW o, NEW m, NEW s, NEW g, NEW q, SplitAt(L, f, j, o, m, s, g, q)
  PROVE  LockList(q, g) /\ Ord(q, g, NOLOCKF) /\ ToSet(q) = ToSet(L) \cup ToSet(m)
<1> USE DEF SplitAt
<1>1. L \in Seq(Locks) /\ IsInjective(L) /\ f \in [Locks -> Structs]
  BY DEF LockList
<1>2. /\ Len(L) \in Nat /\ ToSet(L) \subseteq Locks
      /\ \A i \in 1..Len(L) : /\ L[i] \in Locks /\ L[i] \in ToSet(L) /\ L[i] # NOLOCKF
                              /\ f[L[i]] \in Held
                              /\ f[L[i]].lf_start \in Int /\ Hi(f[L[i]]) \in Int
                              /\ f[L[i]].lf_start <= Hi(f[L[i]])
                              /\ (i # j => L[i] # o)
  BY ListIs
<1>3. Len(m) \in Nat /\ \A c \in 1..Len(m) : m[c] \in Locks /\ m[c] \in ToSet(m) /\ m[c] # NOLOCKF
  BY NotALock DEF ToSet
<1>4. j \in 0..Len(L)
  BY <1>2
<1>5. ToSet(q) = ToSet(L) \cup ToSet(m) /\ IsInjective(q)
  BY <1>1, <1>4, SplicedSet
<1>6. \A c \in ToSet(L) : g[c] \in Held
  BY DEF LockList
<1>7. LockList(q, g)
  BY <1>5, <1>6 DEF LockList
<1>8. Ord(L, g, NOLOCKF)
  <2> DEFINE h == [f EXCEPT ![o] = g[o]]
  <2>1. Hi(g[o]) <= Hi(f[o]) /\ f[o].lf_start <= g[o].lf_start
    <3>1. Hi(g[o]) \in Int /\ Hi(f[o]) \in Int /\ f[o].lf_start \in Int
      BY <1>2, HeldIs
    <3> QED
      BY <3>1
  <2>2. o \in ToSet(L)
    BY <1>2
  <2>3. Ord(L, h, NOLOCKF)
    BY <2>1, <2>2, OrdChanged
  <2>4. \A i \in 1..Len(L) : h[L[i]] = g[L[i]]
    BY <1>1, <1>2
  <2> HIDE DEF h
  <2> QED
    BY <2>3, <2>4 DEF Ord
<1>9. ASSUME NEW i \in 1..j, NEW c \in 1..Len(m), g[L[i]].lf_id = g[m[c]].lf_id
      PROVE  Hi(g[L[i]]) < g[m[c]].lf_start
  <2>1. m[c] \in ToSet(m) /\ g[m[c]] \in Held /\ s <= g[m[c]].lf_start
    BY <1>3
  <2>2. g[m[c]].lf_start \in Int /\ Hi(g[o]) \in Int
    BY <2>1, HeldIs
  <2>3. CASE i = j
    BY <2>1, <2>2, <2>3
  <2>4. CASE i # j
    <3>1. i \in 1..Len(L) /\ i < j
      BY <1>2, <2>4
    <3>2. g[L[i]] = f[L[i]] /\ f[L[i]].lf_id = f[o].lf_id
      BY <1>2, <1>3, <1>9, <2>4, <3>1
    <3>3. Hi(f[L[i]]) < f[o].lf_start
      BY <1>2, <3>1, <3>2 DEF Ord, Clear
    <3>4. Hi(f[L[i]]) \in Int /\ f[o].lf_start \in Int
      BY <1>2, <3>1
    <3> QED
      BY <2>1, <2>2, <3>2, <3>3, <3>4
  <2> QED
    BY <2>3, <2>4
<1>10. ASSUME NEW i \in j + 1..Len(L), NEW c \in 1..Len(m), g[L[i]].lf_id = g[m[c]].lf_id
       PROVE  Hi(g[m[c]]) < g[L[i]].lf_start
  <2>1. m[c] \in ToSet(m) /\ g[m[c]] \in Held /\ Hi(g[m[c]]) <= Hi(f[o])
    BY <1>3
  <2>2. Hi(g[m[c]]) \in Int
    BY <2>1, HeldIs
  <2>3. i \in 1..Len(L) /\ j < i /\ i # j
    BY <1>2
  <2>4. g[L[i]] = f[L[i]] /\ f[L[i]].lf_id = f[o].lf_id
    BY <1>2, <1>3, <1>10, <2>3
  <2>5. Hi(f[o]) < f[L[i]].lf_start
    BY <1>2, <2>3, <2>4 DEF Ord, Clear
  <2>6. Hi(f[o]) \in Int /\ f[L[i]].lf_start \in Int
    BY <1>2, <2>3
  <2> QED
    BY <2>1, <2>2, <2>4, <2>5, <2>6
<1>11. Ord(q, g, NOLOCKF)
  <2>1. \A i \in 1..j, c \in 1..Len(m) : L[i] # NOLOCKF /\ m[c] # NOLOCKF => Clear(g[L[i]], g[m[c]])
    BY <1>9 DEF Clear
  <2>2. \A i \in j + 1..Len(L), c \in 1..Len(m) :
           L[i] # NOLOCKF /\ m[c] # NOLOCKF => Clear(g[m[c]], g[L[i]])
    BY <1>10 DEF Clear
  <2> QED
    BY <1>1, <1>4, <1>8, <2>1, <2>2, SplicedOrd, Zenon
<1> QED
  BY <1>5, <1>7, <1>11

\* Two structures, or one, between the parts of a list.
LEMMA Mids ==
  ASSUME NEW a \in Locks, NEW b \in Locks, a # b, NEW f
  PROVE  /\ <<a, b>> \in Seq(Locks) /\ IsInjective(<<a, b>>) /\ ToSet(<<a, b>>) = {a, b}
         /\ <<b>> \in Seq(Locks) /\ IsInjective(<<b>>) /\ ToSet(<<b>>) = {b}
         /\ Ord(<<b>>, f, NOLOCKF)
         /\ Clear(f[a], f[b]) => Ord(<<a, b>>, f, NOLOCKF)
<1>1. <<a, b>> \in Seq(Locks) /\ <<b>> \in Seq(Locks)
  OBVIOUS
<1>2. IsInjective(<<a, b>>) /\ IsInjective(<<b>>)
  BY DEF IsInjective
<1>3. ToSet(<<a, b>>) = {a, b} /\ ToSet(<<b>>) = {b}
  BY DEF ToSet
<1>4. Ord(<<b>>, f, NOLOCKF)
  BY DEF Ord
<1>5. ASSUME Clear(f[a], f[b]) PROVE Ord(<<a, b>>, f, NOLOCKF)
  BY <1>5 DEF Ord
<1> QED
  BY <1>1, <1>2, <1>3, <1>4, <1>5

LEMMA Apart ==
  ASSUME NEW A \in Seq(Locks), NEW a \in Locks, NEW b \in Locks
  PROVE  A \o <<a, b>> = A \o <<a>> \o <<b>>
<1>1. <<a>> \in Seq(Locks) /\ <<b>> \in Seq(Locks) /\ <<a, b>> \in Seq(Locks)
  OBVIOUS
<1>2. <<a>> \o <<b>> = <<a, b>>
  <2> DEFINE s == <<a>> \o <<b>>
  <2>1. s \in Seq(Locks) /\ Len(s) = 2 /\ s[1] = a /\ s[2] = b
    BY <1>1
  <2> HIDE DEF s
  <2> DEFINE t == <<a, b>>
  <2>2. t \in Seq(Locks) /\ Len(t) = 2 /\ t[1] = a /\ t[2] = b
    BY <1>1
  <2> HIDE DEF t
  <2>3. \A i \in 1..Len(s) : s[i] = t[i]
    BY <2>1, <2>2
  <2>4. s = t
    BY <2>1, <2>2, <2>3, SeqEqual
  <2> QED
    BY <2>4 DEF s, t
<1>3. A \o (<<a>> \o <<b>>) = (A \o <<a>>) \o <<b>>
  BY <1>1, ConcatAssociative
<1> QED
  BY <1>2, <1>3, Zenon

LEMMA Inserted2 ==
  ASSUME NEW L \in Seq(Locks), NEW j \in 1..Len(L), NEW n \in Locks
  PROVE  SubSeq(L, 1, j) \o <<n>> \o <<>> \o SubSeq(L, j + 1, Len(L)) = InsertAt(L, j + 1, n)
<1> DEFINE A == SubSeq(L, 1, j)
           M == A \o <<n>>
<1>1. A \in Seq(Locks) /\ <<n>> \in Seq(Locks)
  OBVIOUS
<1> HIDE DEF A
<1>2. M \in Seq(Locks)
  BY <1>1
<1> HIDE DEF M
<1>3. M \o <<>> = M
  BY <1>2, ConcatEmptySeq
<1>4. (j + 1) - 1 = j
  OBVIOUS
<1>5. InsertAt(L, j + 1, n) = SubSeq(L, 1, (j + 1) - 1) \o <<n>> \o SubSeq(L, j + 1, Len(L))
  BY Zenon DEF InsertAt
<1> QED
  BY <1>3, <1>4, <1>5, Zenon DEF A, M

\* The range of k is cut out of the lock o, which goes on behind it in spare:
\* with n in between, or nothing.
CutOut(f, o, k, spare, g) ==
  /\ g \in [Locks -> Structs] /\ \A c \in Locks \ {o, spare} : g[c] = f[c]
  /\ g[o] \in Held /\ g[o].lf_id = k.lf_id /\ g[o].lf_type = f[o].lf_type
  /\ g[o].lf_start = f[o].lf_start /\ Hi(g[o]) = k.lf_start - 1
  /\ g[spare] \in Held /\ g[spare].lf_id = k.lf_id /\ g[spare].lf_type = f[o].lf_type
  /\ g[spare].lf_start = Hi(k) + 1 /\ Hi(g[spare]) = Hi(f[o])

Inside(L, f, j, o, k, n, spare) ==
  /\ LockList(L, f) /\ Ord(L, f, NOLOCKF) /\ j \in 1..Len(L) /\ o = L[j]
  /\ k \in Structs /\ Proper(k) /\ f[o].lf_id = k.lf_id
  /\ f[o].lf_start < k.lf_start /\ Hi(k) < Hi(f[o])
  /\ n \notin ToSet(L) /\ (n \in Locks => f[n] = k /\ k \in Held)
  /\ spare \in Locks /\ spare \notin ToSet(L) /\ spare # n

LEMMA SplitParts ==
  ASSUME NEW L, NEW f, NEW j, NEW o, NEW k, NEW n, NEW spare, Inside(L, f, j, o, k, n, spare),
         NEW g, CutOut(f, o, k, spare, g),
         NEW m \in Seq(Locks), IsInjective(m), Ord(m, g, NOLOCKF), spare \in ToSet(m),
         ToSet(m) \subseteq {n, spare},
         NEW q \in Seq(Locks), SplicedAt(L, j, m, q)
  PROVE  /\ LockList(q, g) /\ Ord(q, g, NOLOCKF) /\ ToSet(q) = ToSet(L) \cup ToSet(m)
         /\ Rel(ToSet(L), f, ToSet(q), g, k, n, spare)
<1> USE DEF Inside, CutOut
<1>1. L \in Seq(Locks) /\ IsInjective(L) /\ f \in [Locks -> Structs]
  BY DEF LockList
<1>2. Len(L) \in Nat /\ ToSet(L) \subseteq Locks /\ o \in ToSet(L) /\ o \in Locks /\ f[o] \in Held
  BY ListIs
<1>3. /\ k.lf_start \in Int /\ Hi(k) \in Int /\ f[o].lf_start \in Int /\ Hi(f[o]) \in Int
      /\ k.lf_start <= Hi(k)
  BY <1>2, HeldIs, StructIs
<1>4. ToSet(m) \subseteq Locks
  BY DEF ToSet
<1>5. /\ k.lf_start <= g[spare].lf_start /\ Hi(g[spare]) <= Hi(f[o])
      /\ Hi(g[o]) < k.lf_start /\ k.lf_start <= Hi(f[o]) /\ Hi(k) <= Hi(f[o])
      /\ k.lf_start <= k.lf_start
  BY <1>3
<1>6. \A c \in ToSet(m) : /\ g[c] \in Held /\ g[c].lf_id = f[o].lf_id
                          /\ k.lf_start <= g[c].lf_start /\ Hi(g[c]) <= Hi(f[o])
  <2> TAKE c \in ToSet(m)
  <2>1. CASE c = spare
    BY <1>5, <2>1
  <2>2. CASE c # spare
    <3>1. c \in Locks \ {o, spare} /\ f[c] = k /\ k \in Held
      BY <1>2, <1>4, <2>2
    <3>2. g[c] = k
      BY <3>1
    <3> QED
      BY <1>5, <3>1, <3>2
  <2> QED
    BY <2>1, <2>2
<1>7. LockList(q, g) /\ Ord(q, g, NOLOCKF) /\ ToSet(q) = ToSet(L) \cup ToSet(m)
  <2>1. \A c \in ToSet(L) \ {o} : g[c] = f[c]
    BY <1>2
  <2>2. ToSet(m) \cap ToSet(L) = {}
    OBVIOUS
  <2>3. g[o].lf_id = f[o].lf_id
    OBVIOUS
  <2> QED
    <3>1. SplitAt(L, f, j, o, m, k.lf_start, g, q)
      BY <1>3, <1>5, <1>6, <2>1, <2>2, <2>3 DEF SplitAt
    <3> QED
      BY <3>1, SplitOrder
<1>8. Rel(ToSet(L), f, ToSet(q), g, k, n, spare)
  <2>1. /\ ToSet(q) \subseteq ToSet(L) \cup {n, spare} /\ ToSet(L) \ {o} \subseteq ToSet(q)
        /\ ToSet(q) \subseteq Locks /\ spare \in ToSet(q) /\ o \in ToSet(q)
        /\ n \in ToSet(q) => n # spare /\ f[n] = k
    BY <1>2, <1>4, <1>7
  <2>2. \A b \in Int : Covers(g[spare], b) => Covers(f[o], b)
    BY <1>3 DEF Covers
  <2>3. \A b \in Int : Covers(g[o], b) => Covers(f[o], b)
    BY <1>3 DEF Covers
  <2>4. \A b \in Int : ~ Covers(k, b) /\ Covers(f[o], b) => Covers(g[o], b) \/ Covers(g[spare], b)
    BY <1>3 DEF Covers
  <2>5. o # n /\ o # spare /\ (n = spare => n \notin Locks)
    BY <1>2
  <2> QED
    BY <1>2, <2>1, <2>2, <2>3, <2>4, <2>5, RelOne
<1> QED
  BY <1>7, <1>8

\* What lf_split makes of the lock o.
LEMMA SplitLocks ==
  ASSUME NEW L, NEW f, NEW j, NEW o, NEW k, NEW n, NEW spare, Inside(L, f, j, o, k, n, spare),
         k.lf_end # EOF
  PROVE  CutOut(f, o, k, spare, [[f EXCEPT ![o].lf_end = k.lf_start - 1]
                       EXCEPT ![spare] = [f[o] EXCEPT !.lf_start = k.lf_end + 1]])
<1>0. /\ f \in [Locks -> Structs] /\ o \in Locks /\ f[o] \in Held /\ k \in Structs /\ o # spare
      /\ f[o].lf_start < k.lf_start /\ Hi(k) < Hi(f[o]) /\ spare \in Locks /\ f[o].lf_id = k.lf_id
  BY ListIs DEF Inside, LockList
<1> DEFINE r1 == [f[o] EXCEPT !.lf_end = k.lf_start - 1]
           r2 == [f[o] EXCEPT !.lf_start = k.lf_end + 1]
           g == [[f EXCEPT ![o] = r1] EXCEPT ![spare] = r2]
<1>1. /\ r1 \in Held /\ r1.lf_id = k.lf_id /\ r1.lf_type = f[o].lf_type
      /\ r1.lf_start = f[o].lf_start /\ Hi(r1) = k.lf_start - 1
  BY <1>0, CutEnd
<1>2. /\ r2 \in Held /\ r2.lf_id = k.lf_id /\ r2.lf_type = f[o].lf_type
      /\ r2.lf_start = Hi(k) + 1 /\ Hi(r2) = Hi(f[o])
  BY <1>0, CutStart
<1>3. r1 \in Structs /\ r2 \in Structs
  BY <1>1, <1>2, HeldIs
<1>4. g = [[f EXCEPT ![o].lf_end = k.lf_start - 1]
             EXCEPT ![spare] = [f[o] EXCEPT !.lf_start = k.lf_end + 1]]
  OBVIOUS
<1> HIDE DEF r1, r2
<1>5. g \in [Locks -> Structs] /\ g[o] = r1 /\ g[spare] = r2
  BY <1>0, <1>3
<1>6. \A c \in Locks \ {o, spare} : g[c] = f[c]
  BY <1>0, <1>3
<1> HIDE DEF g
<1> QED
  BY <1>1, <1>2, <1>4, <1>5, <1>6 DEF CutOut

\* Case 2, the lock in the middle of another one of a different type.
LEMMA PutSplit ==
  ASSUME NEW L, NEW f, NEW n, NEW k, NEW j, Start(L, f, n, k, j), j \in 1..Len(L),
         f[L[j]].lf_id = k.lf_id, NEW spare \in Locks, spare \notin ToSet(L), spare # n,
         f[L[j]].lf_start < k.lf_start, Hi(k) < Hi(f[L[j]]), k.lf_end # EOF
  PROVE  Linked(L, f, SubSeq(L, 1, j) \o <<n>> \o <<spare>> \o SubSeq(L, j + 1, Len(L)),
                [[f EXCEPT ![L[j]].lf_end = k.lf_start - 1]
                   EXCEPT ![spare] = [f[L[j]] EXCEPT !.lf_start = k.lf_end + 1]], n, k, spare)
<1> DEFINE o == L[j]
           g == [[f EXCEPT ![o].lf_end = k.lf_start - 1]
                       EXCEPT ![spare] = [f[o] EXCEPT !.lf_start = k.lf_end + 1]]
           m == <<n, spare>>
           q == SubSeq(L, 1, j) \o m \o SubSeq(L, j + 1, Len(L))
<1>1. /\ LockList(L, f) /\ Ord(L, f, NOLOCKF) /\ n \in Locks /\ n \notin ToSet(L)
      /\ f[n] = k /\ k \in Held /\ L \in Seq(Locks) /\ f \in [Locks -> Structs]
  BY DEF Start, LockList
<1>2. /\ o \in Locks /\ o # spare /\ n # o /\ f[o] \in Held
      /\ k \in Structs /\ Proper(k) /\ k.lf_start \in Int /\ Hi(k) \in Int
  BY <1>1, HitIs, HeldIs
<1>3. Inside(L, f, j, o, k, n, spare)
  BY <1>1, <1>2 DEF Inside
<1>12. CutOut(f, o, k, spare, g)
  <2> HIDE DEF o
  <2> QED
    BY <1>3, SplitLocks
<1> HIDE DEF g
<1>4. g[n] = k
  BY <1>1, <1>2, <1>12 DEF CutOut
<1>5. Clear(g[n], g[spare])
  BY <1>2, <1>12, <1>4 DEF Clear, CutOut
<1>6. m \in Seq(Locks) /\ IsInjective(m) /\ ToSet(m) = {n, spare} /\ Ord(m, g, NOLOCKF)
  BY <1>1, <1>5, Mids, Zenon
<1>7. q = SubSeq(L, 1, j) \o <<n>> \o <<spare>> \o SubSeq(L, j + 1, Len(L))
  <2>1. PICK A, C : A = SubSeq(L, 1, j) /\ C = SubSeq(L, j + 1, Len(L))
    OBVIOUS
  <2>2. A \in Seq(Locks) /\ n \in Locks /\ spare \in Locks
    BY <1>1, <2>1
  <2>3. A \o m = A \o <<n>> \o <<spare>>
    BY <2>2, Apart
  <2>4. q = (A \o m) \o C
    BY <2>1
  <2> QED
    BY <2>1, <2>3, <2>4
<1> HIDE DEF m
<1>8. q \in Seq(Locks) /\ SplicedAt(L, j, m, q)
  <2>1. j \in 0..Len(L)
    BY <1>1, ListIs
  <2> QED
    BY <1>1, <1>6, <2>1, Spliced
<1> HIDE DEF q
<1>9. /\ LockList(q, g) /\ Ord(q, g, NOLOCKF) /\ ToSet(q) = ToSet(L) \cup ToSet(m)
      /\ Rel(ToSet(L), f, ToSet(q), g, k, n, spare)
  <2>1. spare \in ToSet(m) /\ ToSet(m) \subseteq {n, spare}
    BY <1>6
  <2> HIDE DEF o
  <2> QED
    BY <1>3, <1>12, <1>6, <1>8, <2>1, SplitParts
<1>10. Locked(q, g, k)
  <2>1. n \in ToSet(q) /\ k.lf_start <= k.lf_start /\ Hi(k) <= Hi(k)
    BY <1>2, <1>6, <1>9
  <2> QED
    BY <1>4, <2>1 DEF Locked
<1>11. Linked(L, f, q, g, n, k, spare)
  BY <1>4, <1>9, <1>10 DEF Linked
<1> QED
  BY <1>7, <1>11 DEF g

\* The lock is on the list: what is known of it.
LEMMA LinkingIs ==
  ASSUME NEW M, NEW e, NEW L, NEW f, NEW i, NEW n, NEW k, NEW spare,
         Linking(M, e, L, f, i, n, k, spare)
  PROVE  /\ LockList(L, f) /\ Ord(L, f, n) /\ f[n] = k /\ i \in 1..Len(L) + 1
         /\ n \in ToSet(L) /\ n \in Locks /\ n # NOLOCKF /\ k \in Held /\ k \in Structs /\ Proper(k)
         /\ k.lf_start \in Int /\ Hi(k) \in Int /\ k.lf_start <= Hi(k)
         /\ Rel(ToSet(M), e, ToSet(L), f, k, n, spare)
         /\ \A a \in i..Len(L) :
              /\ L[a] # n /\ (f[L[a]].lf_id = k.lf_id => k.lf_start < f[L[a]].lf_start)
<1>1. /\ LockList(L, f) /\ Ord(L, f, n) /\ f[n] = k /\ i \in 1..Len(L) + 1
      /\ Rel(ToSet(M), e, ToSet(L), f, k, n, spare)
  BY DEF Linking
<1>2. PICK m \in 1..i - 1 :
        /\ L[m] = n
        /\ \A a \in m + 1..Len(L) :
             f[L[a]].lf_id = k.lf_id => a >= i /\ k.lf_start < f[L[a]].lf_start
  BY DEF Linking
<1>3. Len(L) \in Nat /\ m \in 1..Len(L)
  BY <1>1, ListIs
<1>4. n \in ToSet(L) /\ n \in Locks /\ n # NOLOCKF /\ k \in Held
  BY <1>1, <1>2, <1>3, ListIs
<1>5. \A a \in i..Len(L) : a \in m + 1..Len(L) /\ a \in 1..Len(L) /\ a # m
  BY <1>1, <1>3
<1>6. \A a \in i..Len(L) : L[a] # n
  BY <1>1, <1>2, <1>3, <1>5, ListIs
<1> QED
  BY <1>1, <1>2, <1>4, <1>5, <1>6, HeldIs

\* The search goes on to place j.
LEMMA LinkingLater ==
  ASSUME NEW M, NEW e, NEW L, NEW f, NEW i, NEW n, NEW k, NEW spare,
         Linking(M, e, L, f, i, n, k, spare), NEW j \in i..Len(L) + 1,
         \A a \in i..j - 1 : f[L[a]].lf_id = k.lf_id => Hi(f[L[a]]) < k.lf_start
  PROVE  Linking(M, e, L, f, j, n, k, spare)
<1>1. /\ LockList(L, f) /\ Ord(L, f, n) /\ f[n] = k /\ i \in 1..Len(L) + 1
      /\ Rel(ToSet(M), e, ToSet(L), f, k, n, spare) /\ k.lf_start \in Int
  BY LinkingIs
<1>2. PICK m \in 1..i - 1 :
        /\ L[m] = n
        /\ \A a \in 1..m - 1 : f[L[a]].lf_id = k.lf_id => Hi(f[L[a]]) < k.lf_start
        /\ \A a \in m + 1..Len(L) :
             f[L[a]].lf_id = k.lf_id => a >= i /\ k.lf_start < f[L[a]].lf_start
  BY DEF Linking
<1>3. Len(L) \in Nat /\ m \in 1..j - 1 /\ j \in 1..Len(L) + 1
  BY <1>1, ListIs
<1>4. ASSUME NEW a \in m + 1..Len(L), f[L[a]].lf_id = k.lf_id
      PROVE  a >= j
  <2>1. a >= i /\ k.lf_start < f[L[a]].lf_start /\ a \in 1..Len(L)
    BY <1>2, <1>3, <1>4
  <2>2. f[L[a]].lf_start \in Int /\ Hi(f[L[a]]) \in Int /\ f[L[a]].lf_start <= Hi(f[L[a]])
    BY <1>1, <2>1, ListIs
  <2>3. ~ (Hi(f[L[a]]) < k.lf_start)
    BY <1>1, <2>1, <2>2
  <2>4. ~ (a \in i..j - 1)
    BY <1>4, <2>3
  <2> QED
    BY <1>1, <1>3, <2>1, <2>4
<1> QED
  BY <1>1, <1>2, <1>3, <1>4 DEF Linking

\* Case 0 of a later turn: what follows is beyond the range.
LEMMA More0 ==
  ASSUME NEW M, NEW e, NEW L, NEW f, NEW i, NEW n, NEW k, NEW spare,
         Linking(M, e, L, f, i, n, k, spare),
         \A a \in i..Len(L) : f[L[a]].lf_id = k.lf_id => Hi(k) < f[L[a]].lf_start
  PROVE  Linked(M, e, L, f, n, k, spare)
<1>1. /\ LockList(L, f) /\ Ord(L, f, n) /\ f[n] = k /\ i \in 1..Len(L) + 1 /\ n \in ToSet(L)
      /\ Rel(ToSet(M), e, ToSet(L), f, k, n, spare) /\ k.lf_start \in Int /\ Hi(k) \in Int
  BY LinkingIs
<1>2. PICK m \in 1..i - 1 :
        /\ L[m] = n
        /\ \A a \in 1..m - 1 : f[L[a]].lf_id = k.lf_id => Hi(f[L[a]]) < k.lf_start
        /\ \A a \in m + 1..Len(L) :
             f[L[a]].lf_id = k.lf_id => a >= i /\ k.lf_start < f[L[a]].lf_start
  BY DEF Linking
<1>3. Len(L) \in Nat /\ m \in 1..Len(L) /\ \A a \in 1..Len(L) : L[a] = n <=> a = m
  BY <1>1, <1>2, ListIs
<1>4. ASSUME NEW a \in 1..Len(L), NEW b \in 1..Len(L), a < b, f[L[a]].lf_id = f[L[b]].lf_id
      PROVE  Hi(f[L[a]]) < f[L[b]].lf_start
  <2>1. CASE a # m /\ b # m
    BY <1>1, <1>3, <1>4, <2>1 DEF Ord, Clear
  <2>2. CASE b = m
    <3>1. a \in 1..m - 1 /\ f[L[b]] = k
      BY <1>1, <1>3, <1>4, <2>2
    <3> QED
      BY <1>2, <1>4, <3>1
  <2>3. CASE a = m
    <3>1. b \in m + 1..Len(L) /\ f[L[a]] = k
      BY <1>1, <1>3, <1>4, <2>3
    <3>2. b \in i..Len(L)
      BY <1>1, <1>2, <1>3, <1>4, <3>1
    <3> QED
      BY <1>4, <3>1, <3>2
  <2> QED
    BY <2>1, <2>2, <2>3
<1>5. Ord(L, f, NOLOCKF)
  BY <1>4 DEF Ord, Clear
<1>6. Locked(L, f, k)
  BY <1>1 DEF Locked
<1> QED
  BY <1>1, <1>5, <1>6 DEF Linked

\* What follows the next lock that the search finds.
LEMMA LinkingBehind ==
  ASSUME NEW M, NEW e, NEW L, NEW f, NEW j, NEW n, NEW k, NEW spare,
         Linking(M, e, L, f, j, n, k, spare), j \in 1..Len(L), f[L[j]].lf_id = k.lf_id
  PROVE  \A a \in j + 1..Len(L) : f[L[a]].lf_id = k.lf_id => Hi(f[L[j]]) < f[L[a]].lf_start
<1>1. LockList(L, f) /\ Ord(L, f, n) /\ \A a \in j..Len(L) : L[a] # n
  BY LinkingIs
<1>2. \A a \in j + 1..Len(L) : a \in j..Len(L) /\ a \in 1..Len(L) /\ j < a /\ j \in j..Len(L)
  BY <1>1, ListIs
<1> QED
  BY <1>1, <1>2 DEF Ord, Clear

\* Case 3 of a later turn: another lock that it contains is taken off the list.
LEMMA More3 ==
  ASSUME NEW M, NEW e, NEW L, NEW f, NEW j, NEW n, NEW k, NEW spare,
         Linking(M, e, L, f, j, n, k, spare), j \in 1..Len(L), f[L[j]].lf_id = k.lf_id,
         spare \notin ToSet(L), spare # n, Hi(f[L[j]]) <= Hi(k)
  PROVE  Linking(M, e, RemoveAt(L, j), f, j, n, k, spare)
<1> DEFINE o == L[j]
           q == RemoveAt(L, j)
<1>1. /\ LockList(L, f) /\ Ord(L, f, n) /\ f[n] = k /\ L[j] # n /\ n \in Locks
      /\ Rel(ToSet(M), e, ToSet(L), f, k, n, spare) /\ k.lf_start \in Int
      /\ k \in Structs /\ Proper(k) /\ k.lf_start < f[L[j]].lf_start
      /\ L \in Seq(Locks) /\ IsInjective(L) /\ f \in [Locks -> Structs]
  <2>1. j \in j..Len(L)
    BY LinkingIs
  <2> QED
    BY <2>1, LinkingIs DEF LockList
<1>2. PICK m \in 1..j - 1 :
        /\ L[m] = n
        /\ \A a \in 1..m - 1 : f[L[a]].lf_id = k.lf_id => Hi(f[L[a]]) < k.lf_start
        /\ \A a \in m + 1..Len(L) :
             f[L[a]].lf_id = k.lf_id => a >= j /\ k.lf_start < f[L[a]].lf_start
  BY DEF Linking
<1>3. /\ Len(L) \in Nat /\ o \in ToSet(L) /\ f[o] \in Held /\ ToSet(L) \subseteq Locks
      /\ f[o].lf_start \in Int
  BY <1>1, ListIs
<1>4. /\ q \in Seq(Locks) /\ Len(q) = Len(L) - 1 /\ IsInjective(q)
      /\ \A a \in 1..Len(q) : q[a] = IF a < j THEN L[a] ELSE L[a + 1]
      /\ ToSet(q) = ToSet(L) \ {o} /\ Ord(q, f, n)
  BY <1>1, RemovedList
<1> HIDE DEF q
<1>5. LockList(q, f)
  BY <1>1, <1>4 DEF LockList
<1>6. Rel(ToSet(L), f, ToSet(q), f, k, n, spare)
  <2>1. k.lf_start <= f[o].lf_start /\ Hi(f[o]) <= Hi(k)
    BY <1>1, <1>3
  <2> HIDE DEF o
  <2> QED
    BY <1>1, <1>3, <1>4, <2>1, RelGone DEF o
<1>7. Rel(ToSet(M), e, ToSet(q), f, k, n, spare)
  BY <1>1, <1>6, RelSteps
<1>11. /\ j \in 1..Len(q) + 1 /\ \A a \in 1..j - 1 : q[a] = L[a]
       /\ \A a \in j..Len(q) : q[a] = L[a + 1] /\ a + 1 \in j + 1..Len(L)
  <2>1. j \in 1..Len(q) + 1 /\ \A a \in 1..j - 1 : a \in 1..Len(q) /\ a < j
    BY <1>3, <1>4
  <2>2. \A a \in j..Len(q) : a \in 1..Len(q) /\ ~ (a < j) /\ a + 1 \in j + 1..Len(L)
    BY <1>3, <1>4
  <2> QED
    BY <1>4, <2>1, <2>2
<1>8. q[m] = n /\ \A a \in 1..m - 1 : q[a] = L[a]
  <2>1. \A a \in 1..m - 1 : a \in 1..j - 1
    BY <1>3
  <2> QED
    BY <1>2, <1>11, <2>1
<1>9. ASSUME NEW a \in m + 1..Len(q), f[q[a]].lf_id = k.lf_id
      PROVE  a >= j /\ k.lf_start < f[q[a]].lf_start
  <2>1. CASE a < j
    <3>1. a \in 1..j - 1 /\ a \in m + 1..Len(L)
      BY <1>3, <2>1
    <3>2. q[a] = L[a]
      BY <1>11, <3>1
    <3> QED
      BY <1>2, <1>9, <2>1, <3>1, <3>2
  <2>2. CASE a >= j
    <3>1. q[a] = L[a + 1] /\ a + 1 \in m + 1..Len(L)
      BY <1>3, <1>11, <2>2
    <3> QED
      BY <1>2, <1>9, <2>2, <3>1
  <2> QED
    BY <1>3, <2>1, <2>2
<1>10. \A a \in 1..m - 1 : f[q[a]].lf_id = k.lf_id => Hi(f[q[a]]) < k.lf_start
  BY <1>2, <1>8
<1> QED
  BY <1>1, <1>4, <1>5, <1>7, <1>8, <1>9, <1>10, <1>11 DEF Linking, q

\* Case 5 of a later turn: the last lock that it overlaps starts behind it.
LEMMA More5 ==
  ASSUME NEW M, NEW e, NEW L, NEW f, NEW j, NEW n, NEW k, NEW spare,
         Linking(M, e, L, f, j, n, k, spare), j \in 1..Len(L), f[L[j]].lf_id = k.lf_id,
         spare \notin ToSet(L), spare # n, f[L[j]].lf_start <= Hi(k), Hi(k) < Hi(f[L[j]]),
         k.lf_end # EOF
  PROVE  Linked(M, e, L, [f EXCEPT ![L[j]].lf_start = k.lf_end + 1], n, k, spare)
<1> DEFINE o == L[j]
           r == [f[o] EXCEPT !.lf_start = k.lf_end + 1]
           g == [f EXCEPT ![o] = r]
<1>1. /\ LockList(L, f) /\ Ord(L, f, n) /\ f[n] = k /\ L[j] # n /\ n \in Locks
      /\ Rel(ToSet(M), e, ToSet(L), f, k, n, spare) /\ k.lf_start \in Int /\ Hi(k) \in Int
      /\ k \in Structs /\ Proper(k) /\ k.lf_start < f[L[j]].lf_start
      /\ f \in [Locks -> Structs] /\ j \in 1..Len(L) + 1
  <2>1. j \in j..Len(L)
    BY LinkingIs
  <2> QED
    BY <2>1, LinkingIs DEF LockList
<1>2. PICK m \in 1..j - 1 :
        /\ L[m] = n
        /\ \A a \in 1..m - 1 : f[L[a]].lf_id = k.lf_id => Hi(f[L[a]]) < k.lf_start
        /\ \A a \in m + 1..Len(L) :
             f[L[a]].lf_id = k.lf_id => a >= j /\ k.lf_start < f[L[a]].lf_start
  BY DEF Linking
<1>3. /\ Len(L) \in Nat /\ o \in ToSet(L) /\ f[o] \in Held /\ ToSet(L) \subseteq Locks
      /\ f[o].lf_start \in Int /\ Hi(f[o]) \in Int
      /\ \A a \in 1..Len(L) : L[a] \in Locks /\ (a # j => L[a] # o) /\ f[L[a]].lf_start \in Int
  BY <1>1, ListIs
<1>4. /\ r \in Held /\ r.lf_id = f[o].lf_id /\ r.lf_type = f[o].lf_type
      /\ r.lf_start = Hi(k) + 1 /\ Hi(r) = Hi(f[o])
  BY <1>1, <1>3, CutStart
<1>5. [f EXCEPT ![L[j]].lf_start = k.lf_end + 1] = g
  OBVIOUS
<1> HIDE DEF r
<1>6. Hi(r) <= Hi(f[o]) /\ f[o].lf_start <= r.lf_start /\ f[o].lf_start <= Hi(k) + 1
      /\ Hi(k) < r.lf_start /\ k.lf_start <= f[o].lf_start
  BY <1>1, <1>3, <1>4
<1>7. /\ Ord(L, g, n) /\ LockList(L, g) /\ Rel(ToSet(L), f, ToSet(L), g, k, n, spare)
  <2> HIDE DEF o
  <2>1. f[o].lf_id = k.lf_id /\ o # n /\ (n \in Locks => n # spare /\ f[n] = k)
    BY <1>1 DEF o
  <2> QED
    BY <1>1, <1>3, <1>4, <1>6, <2>1, OrdChanged, RelLater
<1>8. Rel(ToSet(M), e, ToSet(L), g, k, n, spare)
  <2> HIDE DEF g
  <2> QED
    BY <1>1, <1>7, RelSteps
<1>9. g[n] = k /\ g[o] = r /\ \A a \in 1..Len(L) : a # j => g[L[a]] = f[L[a]]
  BY <1>1, <1>3
<1> HIDE DEF g
<1>10. \A a \in j + 1..Len(L) : g[L[a]].lf_id = k.lf_id => Hi(k) < g[L[a]].lf_start
  <2> SUFFICES ASSUME NEW a \in j + 1..Len(L), g[L[a]].lf_id = k.lf_id
               PROVE  Hi(k) < g[L[a]].lf_start
    OBVIOUS
  <2>1. a \in 1..Len(L) /\ g[L[a]] = f[L[a]]
    BY <1>3, <1>9
  <2>2. Hi(f[o]) < f[L[a]].lf_start /\ f[L[a]].lf_start \in Int
    BY <1>3, <2>1, LinkingBehind
  <2> QED
    BY <1>1, <1>3, <2>1, <2>2
<1>11. \A a \in j..Len(L) : g[L[a]].lf_id = k.lf_id => Hi(k) < g[L[a]].lf_start
  <2>1. \A a \in j..Len(L) : a = j \/ a \in j + 1..Len(L)
    BY <1>3
  <2> QED
    BY <1>6, <1>9, <1>10, <2>1
<1>12. Linking(M, e, L, g, j, n, k, spare)
  <2>1. \A a \in 1..m - 1 : g[L[a]] = f[L[a]]
    BY <1>3, <1>9
  <2>2. \A a \in m + 1..Len(L) :
          g[L[a]].lf_id = k.lf_id => a >= j /\ k.lf_start < g[L[a]].lf_start
    <3> SUFFICES ASSUME NEW a \in m + 1..Len(L), g[L[a]].lf_id = k.lf_id
                 PROVE  a >= j /\ k.lf_start < g[L[a]].lf_start
      OBVIOUS
    <3>1. CASE a = j
      <4>1. r.lf_start \in Int
        BY <1>4, HeldIs
      <4>2. g[L[a]] = r /\ a >= j
        BY <1>1, <1>9, <3>1
      <4>3. k.lf_start \in Int /\ f[o].lf_start \in Int
            /\ k.lf_start < f[o].lf_start /\ f[o].lf_start <= r.lf_start
        BY <1>1, <1>3, <1>6
      <4> QED
        BY <4>1, <4>2, <4>3
    <3>2. CASE a # j
      <4>1. g[L[a]] = f[L[a]]
        BY <1>3, <1>9, <3>2
      <4> QED
        BY <1>2, <4>1
    <3> QED
      BY <3>1, <3>2
  <2> QED
    BY <1>1, <1>2, <1>7, <1>8, <1>9, <2>1, <2>2 DEF Linking
<1> QED
  BY <1>5, <1>11, <1>12, More0

-----------------------------------------------------------------------------
(* The loop of lf_setlock.                                                 *)

\* What a turn leaves: it was the last one, or there is less to be searched.
Turned(M, e, y, n, k, spare, left) ==
  /\ IsFile(y.file)
  /\ \/ y.more = FALSE /\ Linked(M, e, y.file.list, y.file.lf, n, k, spare)
     \/ /\ y.more = TRUE /\ y.link = FALSE
        /\ Linking(M, e, y.file.list, y.file.lf, y.at, n, k, spare)
        /\ Len(y.file.list) - y.at + 1 < left

\* The search from place i has stopped at place j, with case c.
Stopped(L, f, k, i, j, c) ==
  /\ j \in i..Len(L) + 1 /\ c \in 0..5
  /\ \A a \in i..j - 1 : f[L[a]].lf_id = k.lf_id => Hi(f[L[a]]) < k.lf_start
  /\ j > Len(L) => c = 0
  /\ j <= Len(L) => /\ f[L[j]].lf_id = k.lf_id /\ c = ovcase(f[L[j]], k)
                    /\ c = 0 => Hi(k) < f[L[j]].lf_start

\* lf_findoverlap does that.
LEMMA SearchStops ==
  ASSUME NEW F, LockList(F.list, F.lf), NEW k \in Structs, Proper(k), NEW i \in 1..Len(F.list) + 1
  PROVE  LET h == findoverlap_self(F, i, k) IN Stopped(F.list, F.lf, k, i, h.at, h.case)
<1>1. F.list \in Seq(Locks) /\ F.lf \in [Locks -> Structs] /\ \A c \in ToSet(F.list) : Proper(F.lf[c])
  BY DEF LockList, Held
<1> DEFINE h == findoverlap_self(F, i, k)
<1>2. /\ h.at \in i..Len(F.list) + 1 /\ h.case \in 0..5
      /\ \A j \in i..h.at - 1 : F.lf[F.list[j]].lf_id = k.lf_id => Hi(F.lf[F.list[j]]) < k.lf_start
      /\ h.at > Len(F.list) => h.case = 0
      /\ h.at <= Len(F.list) =>
                  /\ F.lf[F.list[h.at]].lf_id = k.lf_id /\ h.case = ovcase(F.lf[F.list[h.at]], k)
                  /\ h.case = 0 => Hi(k) < F.lf[F.list[h.at]].lf_start
  BY <1>1, Search
<1> HIDE DEF h
<1> QED
  BY <1>2 DEF Stopped, h

\* The case of the lock where the search stops.
HitLies(L, f, k, i, j, c) ==
  /\ Len(L) \in Nat /\ j \in 1..Len(L) + 1 /\ j \in i..Len(L) + 1 /\ c \in 0..5 /\ i \in Int
  /\ c # 0 => /\ j \in 1..Len(L) /\ f[L[j]].lf_id = k.lf_id
              /\ L[j] \in ToSet(L) /\ L[j] \in Locks
              /\ c = 1 => f[L[j]].lf_start = k.lf_start /\ f[L[j]].lf_end = k.lf_end
              /\ c = 2 => /\ f[L[j]].lf_start <= k.lf_start /\ Hi(k) <= Hi(f[L[j]]) /\ k.lf_end # EOF
                          /\ Hi(k) = Hi(f[L[j]]) <=> f[L[j]].lf_end = k.lf_end
                          /\ ~ (f[L[j]].lf_start = k.lf_start /\ f[L[j]].lf_end = k.lf_end)
              /\ c = 3 => k.lf_start <= f[L[j]].lf_start /\ Hi(f[L[j]]) <= Hi(k)
              /\ c = 4 => /\ f[L[j]].lf_start < k.lf_start /\ k.lf_start <= Hi(f[L[j]])
                          /\ Hi(f[L[j]]) <= Hi(k)
              /\ c = 5 => /\ k.lf_start < f[L[j]].lf_start /\ f[L[j]].lf_start <= Hi(k)
                          /\ Hi(k) < Hi(f[L[j]]) /\ k.lf_end # EOF

LEMMA StoppedIs ==
  ASSUME NEW L, NEW f, LockList(L, f), NEW k \in Structs, Proper(k), NEW i \in 1..Len(L) + 1,
         NEW j, NEW c, Stopped(L, f, k, i, j, c)
  PROVE  HitLies(L, f, k, i, j, c)
<1>1. /\ Len(L) \in Nat /\ j \in 1..Len(L) + 1 /\ j \in i..Len(L) + 1 /\ c \in 0..5 /\ i \in Int
      /\ c # 0 => j \in 1..Len(L)
  BY ListIs DEF Stopped
<1> SUFFICES ASSUME c # 0
             PROVE  /\ j \in 1..Len(L) /\ f[L[j]].lf_id = k.lf_id
                    /\ L[j] \in ToSet(L) /\ L[j] \in Locks
                    /\ c = 1 => f[L[j]].lf_start = k.lf_start /\ f[L[j]].lf_end = k.lf_end
                    /\ c = 2 => /\ f[L[j]].lf_start <= k.lf_start /\ Hi(k) <= Hi(f[L[j]]) /\ k.lf_end # EOF
                                /\ Hi(k) = Hi(f[L[j]]) <=> f[L[j]].lf_end = k.lf_end
                                /\ ~ (f[L[j]].lf_start = k.lf_start /\ f[L[j]].lf_end = k.lf_end)
                    /\ c = 3 => k.lf_start <= f[L[j]].lf_start /\ Hi(f[L[j]]) <= Hi(k)
                    /\ c = 4 => /\ f[L[j]].lf_start < k.lf_start /\ k.lf_start <= Hi(f[L[j]])
                                /\ Hi(f[L[j]]) <= Hi(k)
                    /\ c = 5 => /\ k.lf_start < f[L[j]].lf_start /\ f[L[j]].lf_start <= Hi(k)
                                /\ Hi(k) < Hi(f[L[j]]) /\ k.lf_end # EOF
  BY <1>1, Zenon DEF HitLies
<1>2. j \in 1..Len(L) /\ f[L[j]].lf_id = k.lf_id /\ c = ovcase(f[L[j]], k)
  BY <1>1 DEF Stopped
<1>3. L[j] \in ToSet(L) /\ L[j] \in Locks /\ f[L[j]] \in Held
  BY <1>2, ListIs
<1>4. PICK l : l = f[L[j]]
  OBVIOUS
<1>5. l \in Structs /\ Proper(l)
  BY <1>3, <1>4, HeldIs
<1>6. k.lf_end # EOF => (Hi(k) = Hi(l) <=> l.lf_end = k.lf_end)
  BY <1>5, StructIs DEF Hi, EOF
<1> QED
  BY <1>2, <1>3, <1>4, <1>5, <1>6, Cases

\* The lock n may be put on the list, with spare for a third piece.
Ready(F, n, k, spare) ==
  /\ IsFile(F) /\ LockList(F.list, F.lf) /\ Ord(F.list, F.lf, NOLOCKF)
  /\ n \in Locks /\ n \notin ToSet(F.list) /\ F.lf[n] = k /\ k \in Held
  /\ spare \notin ToSet(F.list) /\ spare # n
  /\ IF Splits(F, k) THEN spare \in Locks ELSE spare = NOLOCKF

\* The first turn.
LEMMA FirstTurn ==
  ASSUME NEW F, NEW n, NEW k, NEW spare, Ready(F, n, k, spare)
  PROVE  LET y == link_turn(Going(F, 1, TRUE), n, spare)
         IN  /\ Turned(F.list, F.lf, y, n, k, spare, Len(F.list))
             /\ y.more = TRUE => spare = NOLOCKF
<1> DEFINE h == findoverlap_self(F, 1, k)
<1>1. /\ IsFile(F) /\ LockList(F.list, F.lf) /\ Ord(F.list, F.lf, NOLOCKF)
      /\ n \in Locks /\ n \notin ToSet(F.list) /\ F.lf[n] = k /\ k \in Held
      /\ spare \notin ToSet(F.list) /\ spare # n /\ F.list \in Seq(Locks)
      /\ F.lf \in [Locks -> Structs]
      /\ Splits(F, k) => spare \in Locks
      /\ ~ Splits(F, k) => spare = NOLOCKF
  BY DEF Ready, LockList
<1>2. link_turn(Going(F, 1, TRUE), n, spare) = link_at(F, TRUE, h.at, h.case, n, spare)
  BY <1>1 DEF link_turn, Going
<1>3. k \in Structs /\ Proper(k)
  BY <1>1, HeldIs
<1>4. 1 \in 1..Len(F.list) + 1
  BY <1>1, ListIs
<1>5. Stopped(F.list, F.lf, k, 1, h.at, h.case)
  BY <1>1, <1>3, <1>4, SearchStops
<1>6. PICK j, c, L, f, o, y : j = h.at /\ c = h.case /\ L = F.list /\ f = F.lf /\ o = L[j]
                                /\ y = link_at(F, TRUE, j, c, n, spare)
  OBVIOUS
<1>7. Splits(F, k) <=> c = 2 /\ f[o].lf_type # k.lf_type /\ f[o].lf_start # k.lf_start
                          /\ f[o].lf_end # k.lf_end
  BY <1>6 DEF Splits
<1>8. Stopped(L, f, k, 1, j, c) /\ Start(L, f, n, k, j)
  <2>1. Stopped(L, f, k, 1, j, c)
    BY <1>5, <1>6
  <2>2. j \in 1..Len(L) + 1
    BY <1>1, <1>6, <2>1, ListIs DEF Stopped
  <2> QED
    BY <1>1, <1>6, <2>1, <2>2 DEF Stopped, Start
<1> HIDE DEF h
<1>9. SUFFICES Turned(L, f, y, n, k, spare, Len(L)) /\ (y.more = TRUE => spare = NOLOCKF)
  BY <1>2, <1>6
<1>10. LockList(L, f) /\ Len(L) \in Nat /\ spare \notin ToSet(L) /\ L \in Seq(Locks)
       /\ f \in [Locks -> Structs] /\ f[n] = k
  BY <1>1, <1>6, ListIs
<1>11. /\ j \in 1..Len(L) + 1 /\ c \in 0..5
       /\ c # 0 => /\ j \in 1..Len(L) /\ f[L[j]].lf_id = k.lf_id /\ o \in Locks
                   /\ c = 1 => f[L[j]].lf_start = k.lf_start /\ f[L[j]].lf_end = k.lf_end
                   /\ c = 2 => /\ f[L[j]].lf_start <= k.lf_start /\ Hi(k) <= Hi(f[L[j]])
                               /\ k.lf_end # EOF
                               /\ Hi(k) = Hi(f[L[j]]) <=> f[L[j]].lf_end = k.lf_end
                               /\ ~ (f[L[j]].lf_start = k.lf_start /\ f[L[j]].lf_end = k.lf_end)
                   /\ c = 3 => k.lf_start <= f[L[j]].lf_start /\ Hi(f[L[j]]) <= Hi(k)
                   /\ c = 4 => /\ f[L[j]].lf_start < k.lf_start /\ k.lf_start <= Hi(f[L[j]])
                               /\ Hi(f[L[j]]) <= Hi(k)
                   /\ c = 5 => /\ k.lf_start < f[L[j]].lf_start /\ f[L[j]].lf_start <= Hi(k)
                               /\ Hi(k) < Hi(f[L[j]]) /\ k.lf_end # EOF
  <2>1. 1 \in 1..Len(L) + 1 /\ LockList(L, f) /\ k \in Structs /\ Proper(k) /\ o = L[j]
        /\ Stopped(L, f, k, 1, j, c)
    BY <1>3, <1>6, <1>8, <1>10
  <2> QED
    <3>1. HitLies(L, f, k, 1, j, c)
      BY <2>1, StoppedIs
    <3> QED
      BY <2>1, <3>1 DEF HitLies
<1>20. LinkedAt(F, TRUE, j, c, n, spare, o, k, y)
  BY <1>1, <1>6, <1>11, LinkAt
<1>21. F.list = L /\ F.lf = f /\ o = L[j]
  BY <1>6
<1>12. CASE c = 0
  <2>1. IsFile(y.file) /\ y.file.lf = f /\ y.file.list = InsertAt(L, j, n) /\ y.more = FALSE
    BY <1>20, <1>21, <1>12 DEF LinkedAt
  <2>2. j \in 1..Len(L) => f[L[j]].lf_id = k.lf_id /\ Hi(k) < f[L[j]].lf_start
    BY <1>8, <1>10, <1>12 DEF Stopped
  <2>3. Hi(k) \in Int
    BY <1>1, HeldIs
  <2>4. \A i \in j..Len(L) : f[L[i]].lf_id = k.lf_id => Hi(k) < f[L[i]].lf_start
    BY <1>8, <2>2, <2>3, Behind
  <2>5. Linked(L, f, InsertAt(L, j, n), f, n, k, spare)
    BY <1>8, <2>4, Put0
  <2> QED
    BY <2>1, <2>5 DEF Turned
<1>13. CASE c = 1
  <2>1. /\ IsFile(y.file) /\ y.more = FALSE /\ y.file.list = L
        /\ y.file.lf = [f EXCEPT ![L[j]].lf_type = k.lf_type]
    BY <1>20, <1>21, <1>13 DEF LinkedAt
  <2>2. Linked(L, f, L, [f EXCEPT ![L[j]].lf_type = k.lf_type], n, k, spare)
    <3>1. j \in 1..Len(L) /\ f[L[j]].lf_id = k.lf_id
          /\ f[L[j]].lf_start = k.lf_start /\ f[L[j]].lf_end = k.lf_end
      BY <1>11, <1>21, <1>13
    <3> QED
      BY <1>1, <1>8, <1>10, <3>1, Put1, Zenon
  <2> QED
    BY <2>1, <2>2 DEF Turned
<1>14. CASE c = 2 /\ f[o].lf_type = k.lf_type
  <2>1. y.file = F /\ y.more = FALSE
    BY <1>20, <1>21, <1>14 DEF LinkedAt
  <2>2. Linked(L, f, L, f, n, k, spare)
    BY <1>6, <1>8, <1>11, <1>14, Put2
  <2> QED
    BY <1>1, <1>6, <2>1, <2>2 DEF Turned
<1>15. CASE c = 2 /\ f[o].lf_type # k.lf_type /\ f[o].lf_start = k.lf_start
  <2>1. /\ IsFile(y.file) /\ y.more = FALSE /\ y.file.list = InsertAt(L, j, n)
        /\ y.file.lf = [f EXCEPT ![L[j]].lf_start = k.lf_end + 1]
    BY <1>20, <1>21, <1>15 DEF LinkedAt
  <2>2. /\ k.lf_start <= f[L[j]].lf_start /\ f[L[j]].lf_start <= Hi(k)
        /\ Hi(k) < Hi(f[L[j]]) /\ k.lf_end # EOF
    <3>1. /\ Hi(k) \in Int /\ k.lf_start \in Int /\ k.lf_start <= Hi(k) /\ Hi(f[L[j]]) \in Int
      BY <1>1, <1>10, <1>11, <1>15, HeldIs, ListIs
    <3> QED
      BY <1>6, <1>11, <1>15, <3>1
  <2>3. Linked(L, f, InsertAt(L, j, n), [f EXCEPT ![L[j]].lf_start = k.lf_end + 1], n, k, spare)
    <3>1. j \in 1..Len(L) /\ f[L[j]].lf_id = k.lf_id
      BY <1>11, <1>21, <1>15
    <3> QED
      BY <1>1, <1>8, <1>10, <2>2, <3>1, PutBefore, Zenon
  <2> QED
    BY <2>1, <2>3 DEF Turned
<1>16. CASE c = 2 /\ f[o].lf_type # k.lf_type /\ f[o].lf_start # k.lf_start
  <2>1. y.file = lf_wakelock(lf_split(F, j, k, <<n>>, spare), o) /\ y.more = FALSE
    BY <1>20, <1>21, <1>16 DEF LinkedAt
  <2>2. /\ IsFile(y.file)
        /\ Linked(L, f, y.file.list, y.file.lf, n, k, spare)
    <3> DEFINE S == lf_split(F, j, k, <<n>>, spare)
    <3>1. /\ j \in 1..Len(L) /\ f[L[j]].lf_id = k.lf_id /\ o \in Locks /\ k.lf_end # EOF
          /\ f[L[j]].lf_start < k.lf_start /\ Hi(k) <= Hi(f[L[j]]) /\ k.lf_start <= Hi(f[L[j]])
          /\ f[o].lf_end # k.lf_end => Hi(k) < Hi(f[L[j]])
          /\ f[o].lf_end = k.lf_end => Hi(f[L[j]]) = Hi(k)
      <4>1. /\ Hi(k) \in Int /\ k.lf_start \in Int /\ k.lf_start <= Hi(k) /\ Hi(f[L[j]]) \in Int
            /\ f[L[j]].lf_start \in Int
        BY <1>1, <1>10, <1>11, <1>16, HeldIs, ListIs
      <4> QED
        BY <1>11, <1>16, <1>21, <4>1
    <3>2. f[o].lf_end = k.lf_end \/ spare \in Locks \ {L[j]}
      <4>1. L[j] \in ToSet(L)
        BY <1>10, <3>1, ListIs
      <4> QED
        BY <1>1, <1>7, <1>10, <1>16, <4>1
    <3>3. /\ IsFile(S)
          /\ f[o].lf_end = k.lf_end =>
               /\ S.list = SubSeq(L, 1, j) \o <<n>> \o <<>> \o SubSeq(L, j + 1, Len(L))
               /\ S.lf = [f EXCEPT ![o].lf_end = k.lf_start - 1]
          /\ f[o].lf_end # k.lf_end =>
               /\ S.list = SubSeq(L, 1, j) \o <<n>> \o <<spare>> \o SubSeq(L, j + 1, Len(L))
               /\ S.lf = [[f EXCEPT ![o].lf_end = k.lf_start - 1]
                            EXCEPT ![spare] = [f[o] EXCEPT !.lf_start = k.lf_end + 1]]
      <4>1. j \in 1..Len(F.list) /\ F.list \in Seq(Locks) /\ F.lf \in [Locks -> Structs]
            /\ (F.lf[F.list[j]].lf_end = k.lf_end \/ spare \in Locks \ {F.list[j]})
        BY <1>1, <1>21, <3>1, <3>2
      <4>2. SplitTo(F, j, k, <<n>>, spare, S)
        BY <1>1, <4>1, SplitIs
      <4> QED
        BY <1>21, <4>2 DEF SplitTo
    <3> HIDE DEF S
    <3>4. IsFile(y.file) /\ y.file.list = S.list /\ y.file.lf = S.lf
      BY <2>1, <3>1, <3>3, WakeIs DEF S
    <3>5. CASE f[o].lf_end = k.lf_end
      <4>1. SubSeq(L, 1, j) \o <<n>> \o <<>> \o SubSeq(L, j + 1, Len(L)) = InsertAt(L, j + 1, n)
        BY <1>1, <1>10, <3>1, Inserted2
      <4>2. Linked(L, f, InsertAt(L, j + 1, n), [f EXCEPT ![L[j]].lf_end = k.lf_start - 1],
                   n, k, spare)
        BY <1>1, <1>8, <1>10, <3>1, <3>5, Put4, Zenon
      <4> QED
        BY <1>21, <3>3, <3>4, <3>5, <4>1, <4>2
    <3>6. CASE f[o].lf_end # k.lf_end
      <4>1. spare \in Locks /\ Hi(k) < Hi(f[L[j]])
        BY <3>1, <3>2, <3>6
      <4>2. Linked(L, f, SubSeq(L, 1, j) \o <<n>> \o <<spare>> \o SubSeq(L, j + 1, Len(L)),
                   [[f EXCEPT ![L[j]].lf_end = k.lf_start - 1]
                      EXCEPT ![spare] = [f[L[j]] EXCEPT !.lf_start = k.lf_end + 1]], n, k, spare)
        BY <1>1, <1>8, <1>10, <3>1, <4>1, PutSplit, Zenon
      <4> QED
        BY <1>21, <3>3, <3>4, <3>6, <4>2
    <3> QED
      BY <3>4, <3>5, <3>6
  <2> QED
    BY <2>1, <2>2 DEF Turned
<1>17. CASE c = 3
  <2>1. /\ IsFile(y.file) /\ y.more = TRUE /\ y.link = FALSE /\ y.file.lf = f
        /\ y.file.list = [L EXCEPT ![j] = n] /\ y.at = j + 1
    BY <1>20, <1>21, <1>17 DEF LinkedAt
  <2>2. Linking(L, f, [L EXCEPT ![j] = n], f, j + 1, n, k, spare)
    <3>1. j \in 1..Len(L) /\ f[L[j]].lf_id = k.lf_id
          /\ k.lf_start <= f[L[j]].lf_start /\ Hi(f[L[j]]) <= Hi(k)
      BY <1>11, <1>21, <1>17
    <3> QED
      BY <1>1, <1>8, <1>10, <3>1, Put3, Zenon
  <2>3. Len([L EXCEPT ![j] = n]) = Len(L)
    BY <1>1, <1>10, <1>11, <1>17, ExceptSeq
  <2>4. Len(L) - (j + 1) + 1 < Len(L)
    BY <1>10, <1>11
  <2> QED
    BY <1>1, <1>7, <1>17, <2>1, <2>2, <2>3, <2>4 DEF Turned
<1>18. CASE c = 4
  <2>1. /\ IsFile(y.file) /\ y.more = TRUE /\ y.link = FALSE
        /\ y.file.list = InsertAt(L, j + 1, n) /\ y.at = j + 2
        /\ y.file.lf = [f EXCEPT ![L[j]].lf_end = k.lf_start - 1]
    BY <1>20, <1>21, <1>18 DEF LinkedAt
  <2>2. Linking(L, f, InsertAt(L, j + 1, n), [f EXCEPT ![L[j]].lf_end = k.lf_start - 1],
                j + 2, n, k, spare)
    <3>1. j \in 1..Len(L) /\ f[L[j]].lf_id = k.lf_id
          /\ f[L[j]].lf_start < k.lf_start /\ k.lf_start <= Hi(f[L[j]])
          /\ Hi(f[L[j]]) <= Hi(k)
      BY <1>11, <1>21, <1>18
    <3> QED
      BY <1>1, <1>8, <1>10, <3>1, Put4, Zenon
  <2>3. Len(InsertAt(L, j + 1, n)) = Len(L) + 1
    <3>1. IsInjective(L) /\ n \notin ToSet(L) /\ j + 1 \in 1..Len(L) + 1
      BY <1>1, <1>6, <1>10, <1>11, <1>18 DEF LockList
    <3> QED
      BY <1>1, <1>10, <3>1, InsertedList
  <2>4. (Len(L) + 1) - (j + 2) + 1 < Len(L)
    BY <1>10, <1>11
  <2> QED
    BY <1>1, <1>7, <1>18, <2>1, <2>2, <2>3, <2>4 DEF Turned
<1>19. CASE c = 5
  <2>1. /\ IsFile(y.file) /\ y.more = FALSE /\ y.file.list = InsertAt(L, j, n)
        /\ y.file.lf = [f EXCEPT ![L[j]].lf_start = k.lf_end + 1]
    BY <1>20, <1>21, <1>19 DEF LinkedAt
  <2>2. k.lf_start <= f[L[j]].lf_start
    BY <1>1, <1>10, <1>11, <1>19, HeldIs, ListIs
  <2>3. Linked(L, f, InsertAt(L, j, n), [f EXCEPT ![L[j]].lf_start = k.lf_end + 1], n, k, spare)
    <3>1. j \in 1..Len(L) /\ f[L[j]].lf_id = k.lf_id
          /\ f[L[j]].lf_start <= Hi(k) /\ Hi(k) < Hi(f[L[j]]) /\ k.lf_end # EOF
      BY <1>11, <1>21, <1>19
    <3> QED
      BY <1>1, <1>8, <1>10, <2>2, <3>1, PutBefore, Zenon
  <2> QED
    BY <2>1, <2>3 DEF Turned
<1>22. c \in {0, 1, 2, 3, 4, 5}
  BY <1>11
<1> QED
  BY <1>12, <1>13, <1>14, <1>15, <1>16, <1>17, <1>18, <1>19, <1>22, Zenon

\* A later turn.
LEMMA NextTurn ==
  ASSUME NEW M, NEW e, NEW x, NEW n, NEW k, x.more = TRUE, x.link = FALSE, IsFile(x.file),
         Linking(M, e, x.file.list, x.file.lf, x.at, n, k, NOLOCKF)
  PROVE  Turned(M, e, link_turn(x, n, NOLOCKF), n, k, NOLOCKF, Len(x.file.list) - x.at + 1)
<1> DEFINE spare == NOLOCKF
<1>1. PICK F, i, L, f : F = x.file /\ i = x.at /\ L = F.list /\ f = F.lf
  OBVIOUS
<1> DEFINE h == findoverlap_self(F, i, k)
<1>2. /\ IsFile(F) /\ LockList(L, f) /\ f[n] = k /\ i \in 1..Len(L) + 1 /\ Linking(M, e, L, f, i, n, k, spare)
      /\ n \in ToSet(L) /\ n \in Locks /\ k \in Held /\ k \in Structs /\ Proper(k)
      /\ k.lf_start \in Int /\ Hi(k) \in Int /\ k.lf_start <= Hi(k) /\ spare # n
      /\ L \in Seq(Locks) /\ f \in [Locks -> Structs]
  BY <1>1, LinkingIs DEF LockList
<1>3. link_turn(x, n, spare) = link_at(F, FALSE, h.at, h.case, n, spare)
  BY <1>1, <1>2 DEF link_turn
<1>4. Stopped(L, f, k, i, h.at, h.case)
  BY <1>1, <1>2, SearchStops
<1>6. PICK j, c, o, y : j = h.at /\ c = h.case /\ o = L[j] /\ y = link_at(F, FALSE, j, c, n, spare)
  OBVIOUS
<1>8. Stopped(L, f, k, i, j, c)
  BY <1>4, <1>6
<1> HIDE DEF h
<1>9. SUFFICES Turned(M, e, y, n, k, spare, Len(L) - i + 1)
  BY <1>1, <1>3, <1>6
<1>10. Len(L) \in Nat /\ spare \notin ToSet(L) /\ j \in i..Len(L) + 1
       /\ \A a \in i..j - 1 : f[L[a]].lf_id = k.lf_id => Hi(f[L[a]]) < k.lf_start
  BY <1>2, <1>8, ListIs, NotALock DEF Stopped
<1>11. /\ j \in 1..Len(L) + 1 /\ c \in 0..5
       /\ c # 0 => /\ j \in 1..Len(L) /\ f[L[j]].lf_id = k.lf_id /\ o \in Locks
                   /\ c = 1 => f[L[j]].lf_start = k.lf_start
                   /\ c = 2 => f[L[j]].lf_start <= k.lf_start
                   /\ c = 3 => k.lf_start <= f[L[j]].lf_start /\ Hi(f[L[j]]) <= Hi(k)
                   /\ c = 4 => f[L[j]].lf_start < k.lf_start
                   /\ c = 5 => /\ k.lf_start < f[L[j]].lf_start /\ f[L[j]].lf_start <= Hi(k)
                               /\ Hi(k) < Hi(f[L[j]]) /\ k.lf_end # EOF
  <2>1. HitLies(L, f, k, i, j, c)
    BY <1>2, <1>6, <1>8, StoppedIs
  <2> QED
    BY <1>2, <1>6, <1>8, <2>1 DEF HitLies
<1>12. Linking(M, e, L, f, j, n, k, spare)
  BY <1>2, <1>10, LinkingLater
<1>20. LinkedAt(F, FALSE, j, c, n, spare, o, k, y)
  BY <1>1, <1>2, <1>6, <1>11, LinkAt
<1>21. F.list = L /\ F.lf = f /\ o = L[j]
  BY <1>1, <1>6
<1>13. CASE c = 0
  <2>1. IsFile(y.file) /\ y.file.lf = f /\ y.file.list = L /\ y.more = FALSE
    BY <1>13, <1>20, <1>21 DEF LinkedAt
  <2>2. j \in 1..Len(L) => f[L[j]].lf_id = k.lf_id /\ Hi(k) < f[L[j]].lf_start
    BY <1>8, <1>10, <1>13 DEF Stopped
  <2>3. \A a \in j..Len(L) : f[L[a]].lf_id = k.lf_id => Hi(k) < f[L[a]].lf_start
    <3> SUFFICES ASSUME NEW a \in j..Len(L), f[L[a]].lf_id = k.lf_id
                 PROVE  Hi(k) < f[L[a]].lf_start
      OBVIOUS
    <3>1. j \in 1..Len(L) /\ a \in 1..Len(L)
      BY <1>10, <1>11
    <3>2. CASE a = j
      BY <2>2, <3>1, <3>2
    <3>3. CASE a # j
      <4>1. a \in j + 1..Len(L)
        BY <3>1, <3>3
      <4>2. Hi(f[L[j]]) < f[L[a]].lf_start
        BY <1>12, <2>2, <3>1, <4>1, LinkingBehind
      <4>3. /\ f[L[a]].lf_start \in Int /\ f[L[j]].lf_start \in Int /\ Hi(f[L[j]]) \in Int
            /\ f[L[j]].lf_start <= Hi(f[L[j]]) /\ Hi(k) < f[L[j]].lf_start
        BY <1>2, <2>2, <3>1, ListIs
      <4> QED
        BY <1>2, <4>2, <4>3
    <3> QED
      BY <3>2, <3>3
  <2>4. Linked(M, e, L, f, n, k, spare)
    BY <1>12, <2>3, More0
  <2> QED
    BY <2>1, <2>4 DEF Turned
<1>14. CASE c = 3
  <2>1. /\ IsFile(y.file) /\ y.more = TRUE /\ y.link = FALSE /\ y.file.lf = f
        /\ y.file.list = RemoveAt(L, j) /\ y.at = j
    BY <1>14, <1>20, <1>21 DEF LinkedAt
  <2>2. Linking(M, e, RemoveAt(L, j), f, j, n, k, spare)
    <3>1. j \in 1..Len(L) /\ f[L[j]].lf_id = k.lf_id /\ Hi(f[L[j]]) <= Hi(k)
      BY <1>11, <1>14
    <3> QED
      BY <1>2, <1>10, <1>12, <3>1, More3, Zenon
  <2>3. Len(RemoveAt(L, j)) = Len(L) - 1
    BY <1>2, <1>11, <1>14, RemovedList DEF LockList
  <2>4. (Len(L) - 1) - j + 1 < Len(L) - i + 1
    BY <1>2, <1>10, <1>11
  <2> QED
    BY <2>1, <2>2, <2>3, <2>4 DEF Turned
<1>15. CASE c = 5
  <2>1. /\ IsFile(y.file) /\ y.more = FALSE /\ y.file.list = L
        /\ y.file.lf = [f EXCEPT ![L[j]].lf_start = k.lf_end + 1]
    BY <1>15, <1>20, <1>21 DEF LinkedAt
  <2>2. Linked(M, e, L, [f EXCEPT ![L[j]].lf_start = k.lf_end + 1], n, k, spare)
    <3>1. j \in 1..Len(L) /\ f[L[j]].lf_id = k.lf_id
          /\ f[L[j]].lf_start <= Hi(k) /\ Hi(k) < Hi(f[L[j]]) /\ k.lf_end # EOF
      BY <1>11, <1>15
    <3> QED
      BY <1>2, <1>10, <1>12, <3>1, More5, Zenon
  <2> QED
    BY <2>1, <2>2 DEF Turned
<1>16. c \notin {1, 2, 4}
  <2> SUFFICES ASSUME c \in {1, 2, 4} PROVE FALSE
    OBVIOUS
  <2>1. j \in 1..Len(L) /\ f[L[j]].lf_id = k.lf_id /\ f[L[j]].lf_start \in Int
    BY <1>2, <1>11, ListIs
  <2>2. f[L[j]].lf_start <= k.lf_start
    BY <1>2, <1>11, <2>1
  <2>3. j \in j..Len(L)
    BY <2>1
  <2>4. k.lf_start < f[L[j]].lf_start
    BY <1>12, <2>1, <2>3, LinkingIs
  <2> QED
    BY <1>2, <2>1, <2>2, <2>4
<1>22. c \in {0, 3, 5}
  BY <1>11, <1>16
<1> QED
  BY <1>13, <1>14, <1>15, <1>22

\* So the loop ends, with the lock on the list.
LEMMA LinkLock ==
  ASSUME NEW F, NEW n, NEW k, NEW spare, Ready(F, n, k, spare)
  PROVE  LET G == link_lock(F, n, spare)
         IN  IsFile(G) /\ Linked(F.list, F.lf, G.list, G.lf, n, k, spare)
<1> DEFINE N == Len(F.list)
<1>1. F.list \in Seq(Locks) /\ N \in Nat
  BY DEF Ready, LockList
<1>2. PICK s : LinkSeq(F, n, spare, s)
  BY <1>1, LinkTurns
<1>9. /\ s[0] = Going(F, 1, TRUE)
      /\ \A t \in 1..N + 1 : s[t] = link_turn(s[t - 1], n, spare)
      /\ link_lock(F, n, spare) = s[N + 1].file
  BY <1>2 DEF LinkSeq
<1> HIDE DEF N
<1> DEFINE Ok(y, t) ==
             \/ IsFile(y.file) /\ y.more = FALSE /\ Linked(F.list, F.lf, y.file.list, y.file.lf, n, k, spare)
             \/ /\ y.more = TRUE /\ y.link = FALSE /\ IsFile(y.file) /\ spare = NOLOCKF
                /\ Linking(F.list, F.lf, y.file.list, y.file.lf, y.at, n, k, spare)
                /\ Len(y.file.list) - y.at + 1 + t <= N
           S == {t \in Nat : t + 1 \in 1..N + 1 => Ok(s[t + 1], t + 1)}
<1>3. 0 \in S
  <2>1. s[0 + 1] = link_turn(Going(F, 1, TRUE), n, spare)
    <3>1. 0 + 1 = 1 /\ 1 \in 1..N + 1 /\ 1 - 1 = 0
      BY <1>1
    <3> QED
      BY <1>9, <3>1
  <2>2. Turned(F.list, F.lf, s[0 + 1], n, k, spare, N) /\ (s[0 + 1].more = TRUE => spare = NOLOCKF)
    <3> DEFINE y == link_turn(Going(F, 1, TRUE), n, spare)
    <3>1. Turned(F.list, F.lf, y, n, k, spare, N) /\ (y.more = TRUE => spare = NOLOCKF)
      BY FirstTurn DEF N
    <3> HIDE DEF y
    <3> QED
      BY <2>1, <3>1 DEF y
  <2>3. ASSUME Linking(F.list, F.lf, s[0 + 1].file.list, s[0 + 1].file.lf, s[0 + 1].at, n, k, spare),
               Len(s[0 + 1].file.list) - s[0 + 1].at + 1 < N
        PROVE  Len(s[0 + 1].file.list) - s[0 + 1].at + 1 + 1 <= N
    <3>1. Len(s[0 + 1].file.list) \in Nat /\ s[0 + 1].at \in Int
      BY <2>3, LinkingIs, ListIs
    <3> QED
      BY <1>1, <2>3, <3>1
  <2>4. Ok(s[0 + 1], 0 + 1)
    BY <2>2, <2>3 DEF Turned
  <2> QED
    BY <2>4
<1>4. ASSUME NEW t \in Nat, t \in S PROVE t + 1 \in S
  <2> HIDE DEF Ok
  <2> SUFFICES ASSUME (t + 1) + 1 \in 1..N + 1 PROVE Ok(s[(t + 1) + 1], (t + 1) + 1)
    OBVIOUS
  <2>6. t + 1 \in 1..N + 1 => Ok(s[t + 1], t + 1)
    BY <1>4
  <2> USE DEF Ok
  <2>1. PICK x, y : x = s[t + 1] /\ y = s[(t + 1) + 1]
    OBVIOUS
  <2>2. t + 1 \in 1..N + 1 /\ ((t + 1) + 1) - 1 = t + 1
    BY <1>1
  <2>3. Ok(x, t + 1) /\ y = link_turn(x, n, spare)
    BY <1>9, <2>1, <2>2, <2>6
  <2>4. CASE x.more = FALSE
    <3>1. y = x
      BY <2>3, <2>4 DEF link_turn
    <3> QED
      BY <2>1, <2>3, <2>4, <3>1
  <2>5. CASE x.more = TRUE
    <3>1. /\ x.link = FALSE /\ IsFile(x.file) /\ spare = NOLOCKF
          /\ Linking(F.list, F.lf, x.file.list, x.file.lf, x.at, n, k, spare)
          /\ Len(x.file.list) - x.at + 1 + (t + 1) <= N
      BY <2>3, <2>5
    <3>2. Turned(F.list, F.lf, y, n, k, spare, Len(x.file.list) - x.at + 1)
      BY <2>3, <2>5, <3>1, NextTurn
    <3>3. ASSUME Linking(F.list, F.lf, y.file.list, y.file.lf, y.at, n, k, spare),
                 Len(y.file.list) - y.at + 1 < Len(x.file.list) - x.at + 1
          PROVE  Len(y.file.list) - y.at + 1 + ((t + 1) + 1) <= N
      <4>0. PICK L, i, f, M, j, e : /\ L = x.file.list /\ i = x.at /\ f = x.file.lf
                                    /\ M = y.file.list /\ j = y.at /\ e = y.file.lf
        OBVIOUS
      <4>3. Linking(F.list, F.lf, L, f, i, n, k, spare)
        BY <3>1, <4>0
      <4>4. Linking(F.list, F.lf, M, e, j, n, k, spare)
        BY <3>3, <4>0
      <4>5. LockList(L, f) /\ i \in 1..Len(L) + 1 /\ LockList(M, e) /\ j \in 1..Len(M) + 1
        BY <4>3, <4>4 DEF Linking
      <4>6. Len(L) \in Nat /\ Len(M) \in Nat
        BY <4>5, ListIs
      <4>1. Len(y.file.list) \in Nat /\ y.at \in Int /\ Len(x.file.list) \in Nat /\ x.at \in Int
        BY <4>0, <4>5, <4>6
      <4>2. Len(y.file.list) - y.at + 1 \in Int /\ Len(x.file.list) - x.at + 1 \in Int
        BY <4>1
      <4> QED
        BY <1>1, <3>1, <3>3, <4>2, OneLess
    <3> QED
      BY <2>1, <3>1, <3>2, <3>3 DEF Turned
  <2> QED
    BY <2>3, <2>4, <2>5
<1>5. N \in S
  <2> HIDE DEF S
  <2> QED
    BY <1>1, <1>3, <1>4, SetInduction
<1>6. Ok(s[N + 1], N + 1)
  BY <1>1, <1>5
<1>7. PICK y : y = s[N + 1]
  OBVIOUS
<1>8. ~ (/\ Linking(F.list, F.lf, y.file.list, y.file.lf, y.at, n, k, spare)
         /\ Len(y.file.list) - y.at + 1 + (N + 1) <= N)
  <2> SUFFICES ASSUME Linking(F.list, F.lf, y.file.list, y.file.lf, y.at, n, k, spare)
               PROVE  ~ (Len(y.file.list) - y.at + 1 + (N + 1) <= N)
    OBVIOUS
  <2>1. Len(y.file.list) \in Nat /\ y.at \in 1..Len(y.file.list) + 1
    BY LinkingIs, ListIs
  <2> QED
    BY <1>1, <2>1
<1> QED
  BY <1>6, <1>7, <1>8, <1>9

-----------------------------------------------------------------------------
(* The loop of lf_clearlock.                                               *)

\* The search for the range of k has come to place j.
Clearing(L, f, k, j) ==
  /\ LockList(L, f) /\ Ord(L, f, NOLOCKF) /\ k \in Structs /\ Proper(k) /\ j \in 1..Len(L) + 1
  /\ \A a \in 1..j - 1 : f[L[a]].lf_id = k.lf_id => Hi(f[L[a]]) < k.lf_start

\* The owner's locks from there on are beyond b.
Beyond(L, f, k, j, b) == \A a \in j..Len(L) : f[L[a]].lf_id = k.lf_id => b < f[L[a]].lf_start

LEMMA ClearingDone ==
  ASSUME NEW L, NEW f, NEW k, NEW j, Clearing(L, f, k, j), Beyond(L, f, k, j, Hi(k))
  PROVE  Cleared(L, f, k)
<1> SUFFICES ASSUME NEW c \in ToSet(L), f[c].lf_id = k.lf_id
             PROVE  Hi(f[c]) < k.lf_start \/ Hi(k) < f[c].lf_start
  BY DEF Cleared
<1>1. LockList(L, f) /\ j \in 1..Len(L) + 1
  BY DEF Clearing
<1>2. PICK a \in 1..Len(L) : c = L[a]
  BY <1>1, ListIs
<1>3. Len(L) \in Nat
  BY <1>1, ListIs
<1>4. a \in 1..j - 1 \/ a \in j..Len(L)
  BY <1>1, <1>3
<1> QED
  BY <1>2, <1>4 DEF Clearing, Beyond

\* What is known of the lock where the search stops.
LEMMA ClearingHit ==
  ASSUME NEW L, NEW f, NEW k, NEW j, Clearing(L, f, k, j), j \in 1..Len(L), f[L[j]].lf_id = k.lf_id
  PROVE  /\ LockList(L, f) /\ Len(L) \in Nat /\ L[j] \in ToSet(L) /\ L[j] \in Locks /\ L[j] # NOLOCKF
         /\ f[L[j]] \in Held /\ f[L[j]].lf_start \in Int /\ Hi(f[L[j]]) \in Int
         /\ f \in [Locks -> Structs] /\ L \in Seq(Locks) /\ IsInjective(L) /\ ToSet(L) \subseteq Locks
         /\ k \in Structs /\ Proper(k) /\ k.lf_start \in Int /\ Hi(k) \in Int /\ k.lf_start <= Hi(k)
         /\ f[L[j]].lf_start <= Hi(f[L[j]])
         /\ \A a \in 1..Len(L) : L[a] \in Locks /\ (a # j => L[a] # L[j]) /\ f[L[a]].lf_start \in Int
         /\ Beyond(L, f, k, j + 1, Hi(f[L[j]]))
<1>1. LockList(L, f) /\ Ord(L, f, NOLOCKF) /\ k \in Structs /\ Proper(k)
  BY DEF Clearing
<1>2. /\ Len(L) \in Nat /\ L[j] \in ToSet(L) /\ L[j] \in Locks /\ L[j] # NOLOCKF /\ f[L[j]] \in Held
      /\ f[L[j]].lf_start \in Int /\ Hi(f[L[j]]) \in Int /\ ToSet(L) \subseteq Locks
      /\ f[L[j]].lf_start <= Hi(f[L[j]])
  BY <1>1, ListIs
<1>3. \A a \in 1..Len(L) : /\ L[a] \in Locks /\ (a # j => L[a] # L[j]) /\ f[L[a]].lf_start \in Int
                           /\ L[a] # NOLOCKF
  BY <1>1, ListIs
<1>4. f \in [Locks -> Structs] /\ L \in Seq(Locks) /\ IsInjective(L)
  BY <1>1 DEF LockList
<1>5. k.lf_start \in Int /\ Hi(k) \in Int /\ k.lf_start <= Hi(k)
  BY <1>1, StructIs
<1>6. Beyond(L, f, k, j + 1, Hi(f[L[j]]))
  <2>1. \A a \in j + 1..Len(L) : a \in 1..Len(L) /\ j < a
    BY <1>2
  <2> QED
    BY <1>1, <1>3, <2>1 DEF Beyond, Ord, Clear
<1> QED
  BY <1>1, <1>2, <1>3, <1>4, <1>5, <1>6

\* Cases 1 and 3: the lock goes.
LEMMA ClearAll ==
  ASSUME NEW L, NEW f, NEW k, NEW j, Clearing(L, f, k, j), j \in 1..Len(L), f[L[j]].lf_id = k.lf_id,
         NEW spare, spare \notin ToSet(L), k.lf_start <= f[L[j]].lf_start, Hi(f[L[j]]) <= Hi(k)
  PROVE  LET q == RemoveAt(L, j)
         IN  /\ Clearing(q, f, k, j) /\ Beyond(q, f, k, j, Hi(f[L[j]])) /\ Len(q) = Len(L) - 1
             /\ Rel(ToSet(L), f, ToSet(q), f, k, NOLOCKF, spare)
<1> DEFINE q == RemoveAt(L, j)
<1>1. PICK o : o = L[j]
  OBVIOUS
<1>2. /\ LockList(L, f) /\ Len(L) \in Nat /\ o \in ToSet(L) /\ o \in Locks /\ o # NOLOCKF
      /\ f[o] \in Held /\ f \in [Locks -> Structs] /\ L \in Seq(Locks) /\ IsInjective(L)
      /\ ToSet(L) \subseteq Locks /\ k \in Structs /\ Proper(k)
      /\ Beyond(L, f, k, j + 1, Hi(f[o]))
  BY <1>1, ClearingHit
<1>3. Ord(L, f, NOLOCKF) /\ \A a \in 1..j - 1 : f[L[a]].lf_id = k.lf_id => Hi(f[L[a]]) < k.lf_start
  BY DEF Clearing
<1>4. /\ q \in Seq(Locks) /\ Len(q) = Len(L) - 1 /\ IsInjective(q)
      /\ \A a \in 1..Len(q) : q[a] = IF a < j THEN L[a] ELSE L[a + 1]
      /\ ToSet(q) = ToSet(L) \ {o} /\ Ord(q, f, NOLOCKF)
  BY <1>1, <1>2, <1>3, RemovedList
<1> HIDE DEF q
<1>5. LockList(q, f)
  BY <1>2, <1>4 DEF LockList
<1>6. Rel(ToSet(L), f, ToSet(q), f, k, NOLOCKF, spare)
  <2>1. f[o].lf_id = k.lf_id /\ k.lf_start <= f[o].lf_start /\ Hi(f[o]) <= Hi(k)
    BY <1>1
  <2> QED
    BY <1>2, <1>4, <2>1, RelGone, NotALock
<1>7. /\ j \in 1..Len(q) + 1 /\ \A a \in 1..j - 1 : q[a] = L[a]
      /\ \A a \in j..Len(q) : q[a] = L[a + 1] /\ a + 1 \in j + 1..Len(L)
  <2>1. j \in 1..Len(q) + 1 /\ \A a \in 1..j - 1 : a \in 1..Len(q) /\ a < j
    BY <1>2, <1>4
  <2>2. \A a \in j..Len(q) : a \in 1..Len(q) /\ ~ (a < j) /\ a + 1 \in j + 1..Len(L)
    BY <1>2, <1>4
  <2> QED
    BY <1>4, <2>1, <2>2
<1>8. Clearing(q, f, k, j)
  BY <1>2, <1>3, <1>4, <1>5, <1>7 DEF Clearing
<1>9. Beyond(q, f, k, j, Hi(f[o]))
  BY <1>2, <1>7 DEF Beyond
<1> QED
  BY <1>1, <1>4, <1>6, <1>8, <1>9 DEF q

\* Cases 2, with the same start, and 5: what is left starts behind the range.
LEMMA ClearFront ==
  ASSUME NEW L, NEW f, NEW k, NEW j, Clearing(L, f, k, j), j \in 1..Len(L), f[L[j]].lf_id = k.lf_id,
         NEW spare, spare \notin ToSet(L), k.lf_start <= f[L[j]].lf_start,
         f[L[j]].lf_start <= Hi(k), Hi(k) < Hi(f[L[j]]), k.lf_end # EOF
  PROVE  LET g == [f EXCEPT ![L[j]].lf_start = k.lf_end + 1]
         IN  /\ Clearing(L, g, k, j) /\ Beyond(L, g, k, j, Hi(k))
             /\ Rel(ToSet(L), f, ToSet(L), g, k, NOLOCKF, spare)
<1>1. PICK o : o = L[j]
  OBVIOUS
<1> DEFINE r == [f[o] EXCEPT !.lf_start = k.lf_end + 1]
           g == [f EXCEPT ![o] = r]
<1>2. /\ LockList(L, f) /\ Len(L) \in Nat /\ o \in ToSet(L) /\ o \in Locks /\ o # NOLOCKF
      /\ f[o] \in Held /\ f \in [Locks -> Structs] /\ L \in Seq(Locks) /\ IsInjective(L)
      /\ f[o].lf_start \in Int /\ Hi(f[o]) \in Int /\ k.lf_start \in Int /\ Hi(k) \in Int
      /\ ToSet(L) \subseteq Locks /\ k \in Structs /\ Proper(k)
      /\ \A a \in 1..Len(L) : L[a] \in Locks /\ (a # j => L[a] # o) /\ f[L[a]].lf_start \in Int
      /\ Beyond(L, f, k, j + 1, Hi(f[o]))
  BY <1>1, ClearingHit
<1>3. /\ Ord(L, f, NOLOCKF) /\ j \in 1..Len(L) + 1
      /\ \A a \in 1..j - 1 : f[L[a]].lf_id = k.lf_id => Hi(f[L[a]]) < k.lf_start
  BY DEF Clearing
<1>4. /\ r \in Held /\ r.lf_id = f[o].lf_id /\ r.lf_type = f[o].lf_type
      /\ r.lf_start = Hi(k) + 1 /\ Hi(r) = Hi(f[o])
  BY <1>1, <1>2, CutStart
<1>5. [f EXCEPT ![L[j]].lf_start = k.lf_end + 1] = g
  BY <1>1
<1> HIDE DEF r
<1>6. /\ Hi(r) <= Hi(f[o]) /\ f[o].lf_start <= r.lf_start /\ f[o].lf_start <= Hi(k) + 1
      /\ Hi(k) < r.lf_start /\ k.lf_start <= f[o].lf_start /\ f[o].lf_id = k.lf_id
  BY <1>1, <1>2, <1>4
<1>7. /\ Ord(L, g, NOLOCKF) /\ LockList(L, g) /\ Rel(ToSet(L), f, ToSet(L), g, k, NOLOCKF, spare)
  BY <1>2, <1>3, <1>4, <1>6, OrdChanged, RelLater, NotALock
<1>8. g[o] = r /\ \A a \in 1..Len(L) : a # j => g[L[a]] = f[L[a]]
  BY <1>2
<1> HIDE DEF g
<1>9. Clearing(L, g, k, j)
  <2>1. \A a \in 1..j - 1 : a \in 1..Len(L) /\ a # j
    BY <1>2
  <2> QED
    BY <1>2, <1>3, <1>7, <1>8, <2>1 DEF Clearing
<1>10. ASSUME NEW a \in j..Len(L), g[L[a]].lf_id = k.lf_id PROVE Hi(k) < g[L[a]].lf_start
  <2>1. CASE a = j
    BY <1>1, <1>6, <1>8, <2>1
  <2>2. CASE a # j
    <3>1. a \in j + 1..Len(L) /\ a \in 1..Len(L)
      BY <1>2, <2>2
    <3>2. Hi(f[o]) < f[L[a]].lf_start /\ f[L[a]].lf_start \in Int /\ g[L[a]] = f[L[a]]
      BY <1>2, <1>8, <1>10, <2>2, <3>1 DEF Beyond
    <3>3. Hi(k) < Hi(f[o])
      BY <1>1
    <3> QED
      BY <1>2, <3>2, <3>3
  <2> QED
    BY <2>1, <2>2
<1>11. Beyond(L, g, k, j, Hi(k))
  BY <1>10 DEF Beyond
<1> QED
  BY <1>5, <1>7, <1>9, <1>11

\* Cases 2, with the same end, and 4: what is left ends before the range.
LEMMA ClearBack ==
  ASSUME NEW L, NEW f, NEW k, NEW j, Clearing(L, f, k, j), j \in 1..Len(L), f[L[j]].lf_id = k.lf_id,
         NEW spare, spare \notin ToSet(L), f[L[j]].lf_start < k.lf_start,
         k.lf_start <= Hi(f[L[j]]), Hi(f[L[j]]) <= Hi(k)
  PROVE  LET g == [f EXCEPT ![L[j]].lf_end = k.lf_start - 1]
         IN  /\ Clearing(L, g, k, j + 1) /\ Beyond(L, g, k, j + 1, Hi(f[L[j]]))
             /\ Rel(ToSet(L), f, ToSet(L), g, k, NOLOCKF, spare)
<1>1. PICK o : o = L[j]
  OBVIOUS
<1> DEFINE r == [f[o] EXCEPT !.lf_end = k.lf_start - 1]
           g == [f EXCEPT ![o] = r]
<1>2. /\ LockList(L, f) /\ Len(L) \in Nat /\ o \in ToSet(L) /\ o \in Locks /\ o # NOLOCKF
      /\ f[o] \in Held /\ f \in [Locks -> Structs] /\ L \in Seq(Locks) /\ IsInjective(L)
      /\ f[o].lf_start \in Int /\ Hi(f[o]) \in Int /\ k.lf_start \in Int /\ Hi(k) \in Int
      /\ ToSet(L) \subseteq Locks /\ k \in Structs /\ Proper(k)
      /\ \A a \in 1..Len(L) : L[a] \in Locks /\ (a # j => L[a] # o)
      /\ Beyond(L, f, k, j + 1, Hi(f[o]))
  BY <1>1, ClearingHit
<1>3. /\ Ord(L, f, NOLOCKF) /\ j \in 1..Len(L) + 1
      /\ \A a \in 1..j - 1 : f[L[a]].lf_id = k.lf_id => Hi(f[L[a]]) < k.lf_start
  BY DEF Clearing
<1>4. /\ r \in Held /\ r.lf_id = f[o].lf_id /\ r.lf_type = f[o].lf_type
      /\ r.lf_start = f[o].lf_start /\ Hi(r) = k.lf_start - 1
  BY <1>1, <1>2, CutEnd
<1>5. [f EXCEPT ![L[j]].lf_end = k.lf_start - 1] = g
  BY <1>1
<1> HIDE DEF r
<1>6. /\ Hi(r) <= Hi(f[o]) /\ f[o].lf_start <= r.lf_start /\ k.lf_start <= Hi(f[o]) + 1
      /\ Hi(r) < k.lf_start /\ Hi(f[o]) <= Hi(k) /\ f[o].lf_id = k.lf_id
  BY <1>1, <1>2, <1>4
<1>7. /\ Ord(L, g, NOLOCKF) /\ LockList(L, g) /\ Rel(ToSet(L), f, ToSet(L), g, k, NOLOCKF, spare)
  BY <1>2, <1>3, <1>4, <1>6, OrdChanged, RelSooner, NotALock
<1>8. g[o] = r /\ \A a \in 1..Len(L) : a # j => g[L[a]] = f[L[a]]
  BY <1>2
<1> HIDE DEF g
<1>9. Clearing(L, g, k, j + 1)
  <2>1. /\ \A a \in 1..(j + 1) - 1 : a \in 1..Len(L) /\ (a = j \/ a \in 1..j - 1)
        /\ j + 1 \in 1..Len(L) + 1
    BY <1>2
  <2>2. \A a \in 1..(j + 1) - 1 : g[L[a]].lf_id = k.lf_id => Hi(g[L[a]]) < k.lf_start
    BY <1>1, <1>3, <1>6, <1>8, <2>1
  <2> QED
    BY <1>2, <1>7, <2>1, <2>2 DEF Clearing
<1>10. Beyond(L, g, k, j + 1, Hi(f[o]))
  <2>1. \A a \in j + 1..Len(L) : a \in 1..Len(L) /\ a # j
    BY <1>2
  <2> QED
    BY <1>2, <1>8, <2>1 DEF Beyond
<1> QED
  BY <1>1, <1>5, <1>7, <1>9, <1>10

\* Case 2, in the middle of the lock: it goes on behind the range.
LEMMA ClearSplit ==
  ASSUME NEW L, NEW f, NEW k, NEW j, Clearing(L, f, k, j), j \in 1..Len(L), f[L[j]].lf_id = k.lf_id,
         NEW spare \in Locks, spare \notin ToSet(L), f[L[j]].lf_start < k.lf_start,
         Hi(k) < Hi(f[L[j]]), k.lf_end # EOF
  PROVE  LET g == [[f EXCEPT ![L[j]].lf_end = k.lf_start - 1]
                      EXCEPT ![spare] = [f[L[j]] EXCEPT !.lf_start = k.lf_end + 1]]
             q == SubSeq(L, 1, j) \o <<>> \o <<spare>> \o SubSeq(L, j + 1, Len(L))
         IN  /\ LockList(q, g) /\ Ord(q, g, NOLOCKF) /\ Cleared(q, g, k)
             /\ Rel(ToSet(L), f, ToSet(q), g, k, NOLOCKF, spare)
<1> DEFINE g == [[f EXCEPT ![L[j]].lf_end = k.lf_start - 1]
                    EXCEPT ![spare] = [f[L[j]] EXCEPT !.lf_start = k.lf_end + 1]]
           q == SubSeq(L, 1, j) \o <<>> \o <<spare>> \o SubSeq(L, j + 1, Len(L))
<1> HIDE DEF g, q
<1>1. PICK o : o = L[j]
  OBVIOUS
<1>2. /\ LockList(L, f) /\ Len(L) \in Nat /\ o \in ToSet(L) /\ o \in Locks /\ o # NOLOCKF
      /\ f[o] \in Held /\ f \in [Locks -> Structs] /\ L \in Seq(Locks) /\ IsInjective(L)
      /\ f[o].lf_start \in Int /\ Hi(f[o]) \in Int /\ k.lf_start \in Int /\ Hi(k) \in Int
      /\ ToSet(L) \subseteq Locks /\ k \in Structs /\ Proper(k)
      /\ Beyond(L, f, k, j + 1, Hi(f[o]))
      /\ \A a \in 1..Len(L) : f[L[a]].lf_start \in Int
  <2>1. /\ LockList(L, f) /\ Len(L) \in Nat /\ L[j] \in ToSet(L) /\ L[j] \in Locks /\ L[j] # NOLOCKF
        /\ f[L[j]] \in Held /\ f[L[j]].lf_start \in Int /\ Hi(f[L[j]]) \in Int
        /\ f \in [Locks -> Structs] /\ L \in Seq(Locks) /\ IsInjective(L) /\ ToSet(L) \subseteq Locks
        /\ k \in Structs /\ Proper(k) /\ k.lf_start \in Int /\ Hi(k) \in Int
        /\ \A a \in 1..Len(L) : f[L[a]].lf_start \in Int
        /\ Beyond(L, f, k, j + 1, Hi(f[L[j]]))
    BY ClearingHit, Zenon
  <2> QED
    BY <1>1, <2>1, Zenon
<1>3. /\ Ord(L, f, NOLOCKF) /\ j \in 1..Len(L) + 1
      /\ \A a \in 1..j - 1 : f[L[a]].lf_id = k.lf_id => Hi(f[L[a]]) < k.lf_start
  BY Zenon DEF Clearing
<1>4. Inside(L, f, j, o, k, NOLOCKF, spare)
  <2>1. NOLOCKF \notin Locks /\ NOLOCKF \notin ToSet(L) /\ spare # NOLOCKF
    BY <1>2, NotALock, Zenon
  <2> QED
    BY <1>1, <1>2, <1>3, <2>1, Zenon DEF Inside
<1>5. CutOut(f, o, k, spare, g)
  BY <1>1, <1>4, SplitLocks, Zenon DEF g
<1> DEFINE m == <<spare>>
<1>6. m \in Seq(Locks) /\ IsInjective(m) /\ ToSet(m) = {spare} /\ Ord(m, g, NOLOCKF)
  BY <1>1, <1>2, Mids, Zenon
<1>7. q = SubSeq(L, 1, j) \o m \o SubSeq(L, j + 1, Len(L))
  <2> DEFINE A == SubSeq(L, 1, j)
  <2>1. A \in Seq(Locks)
    BY <1>2, SubSeqProperties
  <2>2. A \o <<>> = A
    <3> HIDE DEF A
    <3> QED
      BY <2>1, ConcatEmptySeq
  <2> QED
    BY <2>2, Zenon DEF q
<1>8. q \in Seq(Locks) /\ SplicedAt(L, j, m, q)
  <2>1. j \in 0..Len(L)
    BY <1>2
  <2> HIDE DEF m
  <2> QED
    BY <1>2, <1>6, <1>7, <2>1, Spliced, Zenon
<1>9. /\ LockList(q, g) /\ Ord(q, g, NOLOCKF) /\ ToSet(q) = ToSet(L) \cup ToSet(m)
      /\ Rel(ToSet(L), f, ToSet(q), g, k, NOLOCKF, spare)
  <2>1. spare \in ToSet(m) /\ ToSet(m) \subseteq {NOLOCKF, spare}
    BY <1>6, Zenon
  <2> HIDE DEF m
  <2> QED
    BY <1>4, <1>5, <1>6, <1>8, <2>1, SplitParts
<1>10. Cleared(q, g, k)
  <2> SUFFICES ASSUME NEW c \in ToSet(q), g[c].lf_id = k.lf_id
               PROVE  Hi(g[c]) < k.lf_start \/ Hi(k) < g[c].lf_start
    BY Zenon DEF Cleared
  <2>1. CASE c = spare
    <3>1. g[spare].lf_start = Hi(k) + 1
      BY <1>5, Zenon DEF CutOut
    <3>2. PICK x, b : x = g[spare].lf_start /\ b = Hi(k)
      OBVIOUS
    <3>3. x = b + 1 /\ b \in Int
      BY <1>2, <3>1, <3>2, Zenon
    <3>4. b < x
      BY <3>3, OneMore, Zenon
    <3> QED
      BY <2>1, <3>2, <3>4, Zenon
  <2>2. CASE c = o
    <3>1. Hi(g[o]) = k.lf_start - 1
      BY <1>5, Zenon DEF CutOut
    <3>4. Hi(g[o]) < k.lf_start
      BY <1>2, <3>1, OneMore, Zenon
    <3> QED
      BY <2>2, <3>4, Zenon
  <2>3. CASE c # spare /\ c # o
    <3>1. c \in ToSet(L)
      BY <1>6, <1>9, <2>3, Zenon
    <3>2. PICK a \in 1..Len(L) : c = L[a]
      BY <1>2, <3>1, ListIs, Zenon
    <3>3. g[c] = f[c]
      BY <1>2, <1>5, <2>3, <3>1, Zenon DEF CutOut
    <3>4. a # j
      BY <1>1, <2>3, <3>2, Zenon
    <3>5. a \in 1..j - 1 \/ a \in j + 1..Len(L)
      BY <1>2, <3>4, Apart2, Zenon
    <3>6. CASE a \in 1..j - 1
      BY <1>3, <3>2, <3>3, <3>6, Zenon
    <3>7. CASE a \in j + 1..Len(L)
      <4>1. Hi(f[o]) < f[L[a]].lf_start
        BY <1>2, <3>2, <3>3, <3>7, Zenon DEF Beyond
      <4>2. Hi(k) < Hi(f[o]) /\ f[L[a]].lf_start \in Int
        BY <1>1, <1>2, Zenon
      <4>3. Hi(k) < f[L[a]].lf_start
        BY <1>2, <4>1, <4>2, Transitive2, Zenon
      <4> QED
        BY <3>2, <3>3, <4>3, Zenon
    <3> QED
      BY <3>5, <3>6, <3>7, Zenon
  <2> QED
    BY <2>1, <2>2, <2>3, Zenon
<1> QED
  BY <1>9, <1>10, Zenon DEF g, q

LEMMA Rejoined ==
  ASSUME NEW L \in Seq(Locks), NEW j \in 1..Len(L)
  PROVE  SubSeq(L, 1, j) \o <<>> \o <<>> \o SubSeq(L, j + 1, Len(L)) = L
<1> DEFINE A == SubSeq(L, 1, j)
           C == SubSeq(L, j + 1, Len(L))
<1>1. /\ A \in Seq(Locks) /\ C \in Seq(Locks) /\ Len(A) = j /\ Len(C) = Len(L) - j
      /\ \A a \in 1..j : A[a] = L[a]
      /\ \A a \in 1..Len(L) - j : C[a] = L[a + j]
  BY SubSeqProperties
<1> HIDE DEF A, C
<1>2. A \o <<>> = A
  BY <1>1, ConcatEmptySeq
<1>3. A \o C = L
  <2>1. A \o C \in Seq(Locks) /\ Len(A \o C) = Len(A) + Len(C)
    BY <1>1, ConcatProperties
  <2>2. Len(L) \in Nat /\ Len(A \o C) = Len(L)
    BY <1>1, <2>1
  <2>3. ASSUME NEW a \in 1..Len(L) PROVE (A \o C)[a] = L[a]
    <3>0. (A \o C)[a] = IF a <= Len(A) THEN A[a] ELSE C[a - Len(A)]
      BY <1>1, <2>1, <2>2, ConcatProperties
    <3>1. CASE a <= j
      BY <1>1, <2>2, <3>0, <3>1
    <3>2. CASE ~ (a <= j)
      <4>1. a - j \in 1..Len(L) - j /\ (a - j) + j = a
        BY <2>2, <3>2
      <4>2. C[a - j] = L[(a - j) + j]
        BY <1>1, <4>1
      <4> QED
        BY <1>1, <3>0, <3>2, <4>1, <4>2
    <3> QED
      BY <3>1, <3>2
  <2> QED
    BY <2>1, <2>2, <2>3, SeqEqual
<1> QED
  BY <1>2, <1>3 DEF A, C

LEMMA BeyondLess ==
  ASSUME NEW L, NEW f, NEW k, NEW j, Clearing(L, f, k, j), NEW b \in Int, NEW a \in Int, a <= b,
         Beyond(L, f, k, j, b)
  PROVE  Beyond(L, f, k, j, a)
<1>1. LockList(L, f) /\ j \in 1..Len(L) + 1
  BY DEF Clearing
<1>2. \A i \in j..Len(L) : f[L[i]].lf_start \in Int
  <2>1. \A i \in j..Len(L) : i \in 1..Len(L)
    BY <1>1, ListIs
  <2> QED
    BY <1>1, <2>1, ListIs
<1> QED
  BY <1>2 DEF Beyond

\* Or the loop goes on, and is past where the range starts.
Unlinking(M, e, L, f, i, k, spare) ==
  /\ Clearing(L, f, k, i) /\ Beyond(L, f, k, i, k.lf_start)
  /\ Rel(ToSet(M), e, ToSet(L), f, k, NOLOCKF, spare)

Turning(M, e, y, k, spare, left) ==
  /\ IsFile(y.file)
  /\ \/ y.more = FALSE /\ Unlinked(M, e, y.file.list, y.file.lf, k, spare)
     \/ /\ y.more = TRUE /\ Unlinking(M, e, y.file.list, y.file.lf, y.at, k, spare)
        /\ Len(y.file.list) - y.at + 1 < left

LEMMA ClearTurn ==
  ASSUME NEW F, IsFile(F), NEW L, L = F.list, NEW f, f = F.lf, NEW k, NEW i, Clearing(L, f, k, i),
         NEW spare, spare \notin ToSet(L), NEW j, NEW c, Stopped(L, f, k, i, j, c),
         c = 2 /\ f[L[j]].lf_start # k.lf_start /\ f[L[j]].lf_end # k.lf_end => spare \in Locks,
         NEW y, y = unlink_at(F, j, c, k, spare)
  PROVE  Turning(L, f, y, k, spare, Len(L) - i + 1) /\ (y.more = TRUE => c \in {3, 4})
<1>1. /\ LockList(L, f) /\ Ord(L, f, NOLOCKF) /\ k \in Structs /\ Proper(k) /\ i \in 1..Len(L) + 1
      /\ \A a \in 1..i - 1 : f[L[a]].lf_id = k.lf_id => Hi(f[L[a]]) < k.lf_start
      /\ L \in Seq(Locks) /\ f \in [Locks -> Structs]
  BY DEF Clearing, LockList
<1>2. /\ Len(L) \in Nat /\ j \in 1..Len(L) + 1 /\ j \in i..Len(L) + 1 /\ c \in 0..5 /\ i \in Int
      /\ c # 0 => /\ j \in 1..Len(L) /\ f[L[j]].lf_id = k.lf_id
                  /\ L[j] \in ToSet(L) /\ L[j] \in Locks
                  /\ c = 1 => f[L[j]].lf_start = k.lf_start /\ f[L[j]].lf_end = k.lf_end
                  /\ c = 2 => /\ f[L[j]].lf_start <= k.lf_start /\ Hi(k) <= Hi(f[L[j]]) /\ k.lf_end # EOF
                              /\ Hi(k) = Hi(f[L[j]]) <=> f[L[j]].lf_end = k.lf_end
                              /\ ~ (f[L[j]].lf_start = k.lf_start /\ f[L[j]].lf_end = k.lf_end)
                  /\ c = 3 => k.lf_start <= f[L[j]].lf_start /\ Hi(f[L[j]]) <= Hi(k)
                  /\ c = 4 => /\ f[L[j]].lf_start < k.lf_start /\ k.lf_start <= Hi(f[L[j]])
                              /\ Hi(f[L[j]]) <= Hi(k)
                  /\ c = 5 => /\ k.lf_start < f[L[j]].lf_start /\ f[L[j]].lf_start <= Hi(k)
                              /\ Hi(k) < Hi(f[L[j]]) /\ k.lf_end # EOF
  <2>1. HitLies(L, f, k, i, j, c)
    BY <1>1, StoppedIs
  <2> QED
    BY <1>1, <2>1 DEF HitLies
<1>3. PICK o : o = L[j]
  OBVIOUS
<1>4. UnlinkedAt(F, j, c, k, spare, o, y)
  BY <1>2, <1>3, UnlinkAt
<1>5. Clearing(L, f, k, j)
  <2>1. \A a \in 1..j - 1 : a \in 1..i - 1 \/ a \in i..j - 1
    BY <1>1, <1>2
  <2> QED
    BY <1>1, <1>2, <2>1 DEF Clearing, Stopped
<1>6. k.lf_start \in Int /\ Hi(k) \in Int /\ k.lf_start <= Hi(k)
  BY <1>1, StructIs
<1>7. c # 0 => f[o].lf_start \in Int /\ Hi(f[o]) \in Int /\ f[o].lf_start <= Hi(f[o])
  BY <1>1, <1>2, <1>3, ListIs
<1>8. Rel(ToSet(L), f, ToSet(L), f, k, NOLOCKF, spare)
  BY RelSame
<1>9. ASSUME NEW q, NEW g, NEW a, Clearing(q, g, k, a), Beyond(q, g, k, a, Hi(k)),
             Rel(ToSet(L), f, ToSet(q), g, k, NOLOCKF, spare)
      PROVE  Unlinked(L, f, q, g, k, spare)
  BY <1>9, ClearingDone DEF Unlinked, Clearing
<1>10. CASE c = 0
  <2>1. y.file = F /\ y.more = FALSE
    BY <1>4, <1>10 DEF UnlinkedAt
  <2>2. Beyond(L, f, k, j, Hi(k))
    <3>1. CASE j \in 1..Len(L)
      <4>1. f[L[j]].lf_id = k.lf_id /\ Hi(k) < f[L[j]].lf_start
        BY <1>2, <1>10, <3>1 DEF Stopped
      <4>2. /\ Beyond(L, f, k, j + 1, Hi(f[L[j]])) /\ Hi(f[L[j]]) \in Int
            /\ f[L[j]].lf_start \in Int /\ f[L[j]].lf_start <= Hi(f[L[j]])
            /\ \A a \in 1..Len(L) : f[L[a]].lf_start \in Int
        BY <1>5, <3>1, <4>1, ClearingHit
      <4>3. \A a \in j..Len(L) : a = j \/ (a \in j + 1..Len(L) /\ a \in 1..Len(L))
        BY <1>2
      <4>4. ASSUME NEW a \in j..Len(L), f[L[a]].lf_id = k.lf_id PROVE Hi(k) < f[L[a]].lf_start
        <5>1. CASE a = j
          BY <4>1, <5>1
        <5>2. CASE a \in j + 1..Len(L) /\ a \in 1..Len(L)
          <6>1. Hi(f[L[j]]) < f[L[a]].lf_start /\ f[L[a]].lf_start \in Int
            BY <4>2, <4>4, <5>2 DEF Beyond
          <6>2. Hi(k) < Hi(f[L[j]])
            BY <1>6, <4>1, <4>2
          <6> QED
            BY <1>6, <4>2, <6>1, <6>2, Transitive2
        <5> QED
          BY <4>3, <5>1, <5>2
      <4> QED
        BY <4>4 DEF Beyond
    <3>2. CASE j \notin 1..Len(L)
      BY <1>2, <3>2 DEF Beyond
    <3> QED
      BY <3>1, <3>2
  <2>3. Unlinked(L, f, L, f, k, spare)
    BY <1>5, <1>8, <1>9, <2>2
  <2> QED
    BY <2>1, <2>3 DEF Turning
<1>11. CASE c \in {1, 3}
  <2> DEFINE q == RemoveAt(L, j)
  <2>1. IsFile(y.file) /\ y.file.lf = f /\ y.file.list = q
        /\ (c = 1 => y.more = FALSE) /\ (c = 3 => y.more = TRUE /\ y.at = j)
    BY <1>3, <1>4, <1>11 DEF UnlinkedAt
  <2>2. /\ j \in 1..Len(L) /\ f[L[j]].lf_id = k.lf_id
        /\ k.lf_start <= f[L[j]].lf_start /\ Hi(f[L[j]]) <= Hi(k) /\ (c = 1 => Hi(f[L[j]]) = Hi(k))
    <3>1. c = 1 => Hi(f[L[j]]) = Hi(k)
      BY <1>2, <1>11 DEF Hi
    <3> QED
      BY <1>2, <1>3, <1>6, <1>7, <1>11, <3>1
  <2>3. /\ Clearing(q, f, k, j) /\ Beyond(q, f, k, j, Hi(f[L[j]])) /\ Len(q) = Len(L) - 1
        /\ Rel(ToSet(L), f, ToSet(q), f, k, NOLOCKF, spare)
    BY <1>5, <2>2, ClearAll, Zenon
  <2> HIDE DEF q
  <2>4. CASE c = 1
    <3>1. Unlinked(L, f, q, f, k, spare)
      BY <1>9, <2>2, <2>3, <2>4
    <3> QED
      BY <2>1, <2>4, <3>1 DEF Turning
  <2>5. CASE c = 3
    <3>1. k.lf_start <= Hi(f[L[j]]) /\ Hi(f[L[j]]) \in Int
      BY <1>3, <1>6, <1>7, <2>2, <2>5
    <3>2. Beyond(q, f, k, j, k.lf_start)
      BY <1>6, <2>3, <3>1, BeyondLess
    <3>3. (Len(L) - 1) - j + 1 < Len(L) - i + 1
      BY <1>2
    <3>4. Unlinking(L, f, q, f, j, k, spare)
      BY <2>3, <3>2 DEF Unlinking
    <3> QED
      BY <2>1, <2>3, <2>5, <3>3, <3>4 DEF Turning
  <2> QED
    BY <1>11, <2>4, <2>5
<1>12. CASE c = 5 \/ (c = 2 /\ f[o].lf_start = k.lf_start)
  <2> DEFINE g == [f EXCEPT ![L[j]].lf_start = k.lf_end + 1]
  <2>1. IsFile(y.file) /\ y.file.lf = g /\ y.file.list = L /\ y.more = FALSE
    BY <1>3, <1>4, <1>12 DEF UnlinkedAt
  <2>2. /\ j \in 1..Len(L) /\ f[L[j]].lf_id = k.lf_id /\ k.lf_start <= f[L[j]].lf_start
        /\ f[L[j]].lf_start <= Hi(k) /\ Hi(k) < Hi(f[L[j]]) /\ k.lf_end # EOF
    BY <1>2, <1>3, <1>6, <1>7, <1>12
  <2>3. /\ Clearing(L, g, k, j) /\ Beyond(L, g, k, j, Hi(k))
        /\ Rel(ToSet(L), f, ToSet(L), g, k, NOLOCKF, spare)
    BY <1>5, <2>2, ClearFront, Zenon
  <2> HIDE DEF g
  <2>4. Unlinked(L, f, L, g, k, spare)
    BY <1>9, <2>3
  <2> QED
    BY <2>1, <2>4 DEF Turning
<1>13. CASE c = 4
  <2> DEFINE g == [f EXCEPT ![L[j]].lf_end = k.lf_start - 1]
  <2>1. IsFile(y.file) /\ y.file.lf = g /\ y.file.list = L /\ y.more = TRUE /\ y.at = j + 1
    BY <1>3, <1>4, <1>13 DEF UnlinkedAt
  <2>2. /\ j \in 1..Len(L) /\ f[L[j]].lf_id = k.lf_id /\ f[L[j]].lf_start < k.lf_start
        /\ k.lf_start <= Hi(f[L[j]]) /\ Hi(f[L[j]]) <= Hi(k) /\ Hi(f[L[j]]) \in Int
    BY <1>2, <1>3, <1>7, <1>13
  <2>3. /\ Clearing(L, g, k, j + 1) /\ Beyond(L, g, k, j + 1, Hi(f[L[j]]))
        /\ Rel(ToSet(L), f, ToSet(L), g, k, NOLOCKF, spare)
    BY <1>5, <2>2, ClearBack, Zenon
  <2> HIDE DEF g
  <2>4. Beyond(L, g, k, j + 1, k.lf_start)
    BY <1>6, <2>2, <2>3, BeyondLess
  <2>5. Unlinking(L, f, L, g, j + 1, k, spare) /\ Len(L) - (j + 1) + 1 < Len(L) - i + 1
    BY <1>2, <2>3, <2>4 DEF Unlinking
  <2> QED
    BY <1>13, <2>1, <2>5 DEF Turning
<1>14. CASE c = 2 /\ f[o].lf_start # k.lf_start
  <2> DEFINE W == lf_wakelock(F, o)
             S == lf_split(W, j, k, <<>>, spare)
  <2>1. y.file = S /\ y.more = FALSE
    BY <1>3, <1>4, <1>14 DEF UnlinkedAt
  <2>2. /\ j \in 1..Len(L) /\ f[L[j]].lf_id = k.lf_id /\ f[L[j]].lf_start < k.lf_start
        /\ o \in Locks /\ o \in ToSet(L) /\ k.lf_start <= Hi(f[L[j]]) /\ k.lf_end # EOF
        /\ f[o].lf_end # k.lf_end => Hi(k) < Hi(f[L[j]])
        /\ f[o].lf_end = k.lf_end => Hi(f[L[j]]) = Hi(k)
    BY <1>2, <1>3, <1>6, <1>7, <1>14
  <2>3. IsFile(W) /\ W.list = L /\ W.lf = f
    BY <2>2, WakeIs
  <2> HIDE DEF W
  <2>4. f[o].lf_end # k.lf_end => spare \in Locks /\ spare # o
    BY <1>3, <1>14, <2>2
  <2>5. SplitTo(W, j, k, <<>>, spare, S)
    <3>1. /\ j \in 1..Len(W.list) /\ W.list \in Seq(Locks) /\ W.lf \in [Locks -> Structs]
          /\ W.lf[W.list[j]].lf_end = k.lf_end \/ spare \in Locks \ {W.list[j]}
      BY <1>1, <1>3, <2>2, <2>3, <2>4
    <3> QED
      BY <2>3, <3>1, SplitIs
  <2> HIDE DEF S
  <2>6. CASE f[o].lf_end = k.lf_end
    <3> DEFINE g == [f EXCEPT ![L[j]].lf_end = k.lf_start - 1]
    <3>1. /\ IsFile(S) /\ S.lf = g
          /\ S.list = SubSeq(L, 1, j) \o <<>> \o <<>> \o SubSeq(L, j + 1, Len(L))
      BY <1>3, <2>3, <2>5, <2>6 DEF SplitTo
    <3>2. S.list = L
      BY <1>1, <2>2, <3>1, Rejoined
    <3>3. Hi(f[L[j]]) <= Hi(k) /\ Hi(f[L[j]]) = Hi(k)
      BY <1>6, <2>2, <2>6
    <3>4. /\ Clearing(L, g, k, j + 1) /\ Beyond(L, g, k, j + 1, Hi(f[L[j]]))
          /\ Rel(ToSet(L), f, ToSet(L), g, k, NOLOCKF, spare)
      BY <1>5, <2>2, <3>3, ClearBack, Zenon
    <3> HIDE DEF g
    <3>5. Unlinked(L, f, L, g, k, spare)
      BY <1>9, <3>3, <3>4
    <3> QED
      BY <2>1, <3>1, <3>2, <3>5 DEF Turning
  <2>7. CASE f[o].lf_end # k.lf_end
    <3> DEFINE g == [[f EXCEPT ![L[j]].lf_end = k.lf_start - 1]
                        EXCEPT ![spare] = [f[L[j]] EXCEPT !.lf_start = k.lf_end + 1]]
               q == SubSeq(L, 1, j) \o <<>> \o <<spare>> \o SubSeq(L, j + 1, Len(L))
    <3>1. IsFile(S) /\ S.lf = g /\ S.list = q
      BY <1>3, <2>3, <2>5, <2>7 DEF SplitTo
    <3>2. spare \in Locks /\ Hi(k) < Hi(f[L[j]])
      BY <2>2, <2>4, <2>7
    <3>3. /\ LockList(q, g) /\ Ord(q, g, NOLOCKF) /\ Cleared(q, g, k)
          /\ Rel(ToSet(L), f, ToSet(q), g, k, NOLOCKF, spare)
      BY <1>5, <2>2, <3>2, ClearSplit, Zenon
    <3> HIDE DEF g, q
    <3>4. Unlinked(L, f, q, g, k, spare)
      BY <3>3 DEF Unlinked
    <3> QED
      BY <2>1, <3>1, <3>4 DEF Turning
  <2> QED
    BY <2>6, <2>7
<1>15. c \in {0, 1, 2, 3, 4, 5}
  BY <1>2
<1> QED
  BY <1>10, <1>11, <1>12, <1>13, <1>14, <1>15, Zenon

\* The range of k may be cleared, with spare for a third piece.
Clearable(F, k, spare) ==
  /\ IsFile(F) /\ LockList(F.list, F.lf) /\ Ord(F.list, F.lf, NOLOCKF)
  /\ k \in Structs /\ Proper(k) /\ spare \notin ToSet(F.list)
  /\ \/ k.lf_end = EOF /\ spare = NOLOCKF
     \/ k.lf_type \notin Types /\ IF Splits(F, k) THEN spare \in Locks ELSE spare = NOLOCKF

\* The first turn.
LEMMA ClearFirst ==
  ASSUME NEW F, NEW k, NEW spare, Clearable(F, k, spare)
  PROVE  LET y == unlink_turn(Going(F, 1, FALSE), k, spare)
         IN  /\ Turning(F.list, F.lf, y, k, spare, Len(F.list))
             /\ y.more = TRUE => spare = NOLOCKF
<1> DEFINE h == findoverlap_self(F, 1, k)
<1>1. /\ IsFile(F) /\ LockList(F.list, F.lf) /\ Ord(F.list, F.lf, NOLOCKF)
      /\ k \in Structs /\ Proper(k) /\ spare \notin ToSet(F.list)
  BY DEF Clearable
<1>2. unlink_turn(Going(F, 1, FALSE), k, spare) = unlink_at(F, h.at, h.case, k, spare)
  BY DEF unlink_turn, Going
<1>3. 1 \in 1..Len(F.list) + 1 /\ Len(F.list) \in Nat
  BY <1>1, ListIs
<1>4. Stopped(F.list, F.lf, k, 1, h.at, h.case)
  BY <1>1, <1>3, SearchStops
<1>5. PICK j, c, L, f, y : j = h.at /\ c = h.case /\ L = F.list /\ f = F.lf
                            /\ y = unlink_at(F, j, c, k, spare)
  OBVIOUS
<1>6. Splits(F, k) <=> c = 2 /\ f[L[j]].lf_type # k.lf_type /\ f[L[j]].lf_start # k.lf_start
                         /\ f[L[j]].lf_end # k.lf_end
  BY <1>5 DEF Splits
<1>7. Stopped(L, f, k, 1, j, c)
  BY <1>4, <1>5
<1> HIDE DEF h
<1>8. SUFFICES Turning(L, f, y, k, spare, Len(L)) /\ (y.more = TRUE => spare = NOLOCKF)
  BY <1>2, <1>5
<1>9. LockList(L, f) /\ 1 \in 1..Len(L) + 1 /\ Len(L) \in Nat /\ spare \notin ToSet(L) /\ Ord(L, f, NOLOCKF)
  BY <1>1, <1>3, <1>5
<1>10. c # 0 => j \in 1..Len(L) /\ (c = 2 => k.lf_end # EOF)
  <2>1. HitLies(L, f, k, 1, j, c)
    BY <1>1, <1>7, <1>9, StoppedIs
  <2> QED
    BY <1>1, <1>7, <1>9, <2>1 DEF HitLies
<1>11. c # 0 => f[L[j]].lf_type \in Types
  BY <1>9, <1>10, ListIs, HeldIs
<1>12. /\ c = 2 /\ f[L[j]].lf_start # k.lf_start /\ f[L[j]].lf_end # k.lf_end => spare \in Locks
       /\ c # 2 => spare = NOLOCKF
  BY <1>6, <1>10, <1>11 DEF Clearable
<1>13. Clearing(L, f, k, 1)
  <2>1. \A a \in 1..1 - 1 : FALSE
    OBVIOUS
  <2> QED
    BY <1>1, <1>9, <2>1 DEF Clearing
<1>14. Turning(L, f, y, k, spare, Len(L) - 1 + 1) /\ (y.more = TRUE => c \in {3, 4})
  BY <1>1, <1>5, <1>7, <1>9, <1>12, <1>13, ClearTurn
<1>15. Turning(L, f, y, k, spare, Len(L))
  <2>1. Len(L) - 1 + 1 = Len(L)
    BY <1>9
  <2> QED
    BY <1>14, <2>1
<1> QED
  BY <1>12, <1>14, <1>15

\* A later turn.
LEMMA ClearNext ==
  ASSUME NEW M, NEW e, NEW x, NEW k, x.more = TRUE, IsFile(x.file),
         Unlinking(M, e, x.file.list, x.file.lf, x.at, k, NOLOCKF)
  PROVE  Turning(M, e, unlink_turn(x, k, NOLOCKF), k, NOLOCKF, Len(x.file.list) - x.at + 1)
<1> DEFINE spare == NOLOCKF
<1>1. PICK F, i, L, f : F = x.file /\ i = x.at /\ L = F.list /\ f = F.lf
  OBVIOUS
<1> DEFINE h == findoverlap_self(F, i, k)
<1>2. /\ IsFile(F) /\ Clearing(L, f, k, i) /\ Beyond(L, f, k, i, k.lf_start)
      /\ Rel(ToSet(M), e, ToSet(L), f, k, NOLOCKF, spare)
      /\ LockList(L, f) /\ k \in Structs /\ Proper(k) /\ i \in 1..Len(L) + 1
  BY <1>1 DEF Unlinking, Clearing
<1>3. unlink_turn(x, k, spare) = unlink_at(F, h.at, h.case, k, spare)
  BY <1>1 DEF unlink_turn
<1>4. Stopped(L, f, k, i, h.at, h.case)
  BY <1>1, <1>2, SearchStops
<1>5. PICK j, c, y : j = h.at /\ c = h.case /\ y = unlink_at(F, j, c, k, spare)
  OBVIOUS
<1>6. Stopped(L, f, k, i, j, c)
  BY <1>4, <1>5
<1> HIDE DEF h
<1>7. SUFFICES Turning(M, e, y, k, spare, Len(L) - i + 1)
  BY <1>1, <1>3, <1>5
<1>8. spare \notin ToSet(L)
  BY <1>2, ListIs, NotALock
<1>9. c # 2
  <2> SUFFICES ASSUME c = 2 PROVE FALSE
    OBVIOUS
  <2>1. j \in 1..Len(L) /\ j \in i..Len(L) + 1 /\ Len(L) \in Nat /\ i \in Int
        /\ f[L[j]].lf_id = k.lf_id /\ f[L[j]].lf_start <= k.lf_start
    <3>1. HitLies(L, f, k, i, j, c)
      BY <1>2, <1>6, StoppedIs
    <3> QED
      BY <1>2, <1>6, <3>1 DEF HitLies
  <2>2. j \in i..Len(L)
    BY <2>1
  <2>3. k.lf_start < f[L[j]].lf_start /\ f[L[j]].lf_start \in Int /\ k.lf_start \in Int
    BY <1>2, <2>1, <2>2, ListIs, StructIs DEF Beyond
  <2> QED
    BY <2>1, <2>3
<1>10. Turning(L, f, y, k, spare, Len(L) - i + 1)
  BY <1>1, <1>2, <1>5, <1>6, <1>8, <1>9, ClearTurn
<1>11. ASSUME NEW T, NEW g, Rel(ToSet(L), f, T, g, k, NOLOCKF, spare)
       PROVE  Rel(ToSet(M), e, T, g, k, NOLOCKF, spare)
  BY <1>2, <1>11, RelSteps
<1> QED
  BY <1>10, <1>11 DEF Turning, Unlinked, Unlinking

\* So the loop ends, with the range free.
LEMMA UnlinkRange ==
  ASSUME NEW F, NEW k, NEW spare, Clearable(F, k, spare)
  PROVE  LET G == unlink_range(F, k, spare)
         IN  IsFile(G) /\ Unlinked(F.list, F.lf, G.list, G.lf, k, spare)
<1> DEFINE N == Len(F.list)
<1>1. F.list \in Seq(Locks) /\ N \in Nat
  BY DEF Clearable, LockList
<1>2. PICK s : UnlinkSeq(F, k, spare, s)
  BY <1>1, UnlinkTurns
<1>9. /\ s[0] = Going(F, 1, FALSE)
      /\ \A t \in 1..N + 1 : s[t] = unlink_turn(s[t - 1], k, spare)
      /\ unlink_range(F, k, spare) = s[N + 1].file
  BY <1>2 DEF UnlinkSeq
<1> HIDE DEF N
<1> DEFINE Ok(y, t) ==
             \/ IsFile(y.file) /\ y.more = FALSE /\ Unlinked(F.list, F.lf, y.file.list, y.file.lf, k, spare)
             \/ /\ y.more = TRUE /\ IsFile(y.file) /\ spare = NOLOCKF
                /\ Unlinking(F.list, F.lf, y.file.list, y.file.lf, y.at, k, spare)
                /\ Len(y.file.list) - y.at + 1 + t <= N
           S == {t \in Nat : t + 1 \in 1..N + 1 => Ok(s[t + 1], t + 1)}
<1>3. 0 \in S
  <2>1. s[0 + 1] = unlink_turn(Going(F, 1, FALSE), k, spare)
    <3>1. 0 + 1 = 1 /\ 1 \in 1..N + 1 /\ 1 - 1 = 0
      BY <1>1
    <3> QED
      BY <1>9, <3>1
  <2>2. Turning(F.list, F.lf, s[0 + 1], k, spare, N) /\ (s[0 + 1].more = TRUE => spare = NOLOCKF)
    <3> DEFINE y == unlink_turn(Going(F, 1, FALSE), k, spare)
    <3>1. Turning(F.list, F.lf, y, k, spare, N) /\ (y.more = TRUE => spare = NOLOCKF)
      BY ClearFirst DEF N
    <3> HIDE DEF y
    <3> QED
      BY <2>1, <3>1 DEF y
  <2>3. ASSUME Unlinking(F.list, F.lf, s[0 + 1].file.list, s[0 + 1].file.lf, s[0 + 1].at, k, spare),
               Len(s[0 + 1].file.list) - s[0 + 1].at + 1 < N
        PROVE  Len(s[0 + 1].file.list) - s[0 + 1].at + 1 + 1 <= N
    <3>1. Len(s[0 + 1].file.list) \in Nat /\ s[0 + 1].at \in Int
      BY <2>3, ListIs DEF Unlinking, Clearing
    <3> QED
      BY <1>1, <2>3, <3>1
  <2>4. Ok(s[0 + 1], 0 + 1)
    BY <2>2, <2>3 DEF Turning
  <2> QED
    BY <2>4
<1>4. ASSUME NEW t \in Nat, t \in S PROVE t + 1 \in S
  <2> HIDE DEF Ok
  <2> SUFFICES ASSUME (t + 1) + 1 \in 1..N + 1 PROVE Ok(s[(t + 1) + 1], (t + 1) + 1)
    OBVIOUS
  <2>6. t + 1 \in 1..N + 1 => Ok(s[t + 1], t + 1)
    BY <1>4
  <2> USE DEF Ok
  <2>1. PICK x, y : x = s[t + 1] /\ y = s[(t + 1) + 1]
    OBVIOUS
  <2>2. t + 1 \in 1..N + 1 /\ ((t + 1) + 1) - 1 = t + 1
    BY <1>1
  <2>3. Ok(x, t + 1) /\ y = unlink_turn(x, k, spare)
    BY <1>9, <2>1, <2>2, <2>6
  <2>4. CASE x.more = FALSE
    <3>1. y = x
      BY <2>3, <2>4 DEF unlink_turn
    <3> QED
      BY <2>1, <2>3, <2>4, <3>1
  <2>5. CASE x.more = TRUE
    <3>1. /\ IsFile(x.file) /\ spare = NOLOCKF
          /\ Unlinking(F.list, F.lf, x.file.list, x.file.lf, x.at, k, spare)
          /\ Len(x.file.list) - x.at + 1 + (t + 1) <= N
      BY <2>3, <2>5
    <3>2. Turning(F.list, F.lf, y, k, spare, Len(x.file.list) - x.at + 1)
      BY <2>3, <2>5, <3>1, ClearNext
    <3>3. ASSUME Unlinking(F.list, F.lf, y.file.list, y.file.lf, y.at, k, spare),
                 Len(y.file.list) - y.at + 1 < Len(x.file.list) - x.at + 1
          PROVE  Len(y.file.list) - y.at + 1 + ((t + 1) + 1) <= N
      <4>1. Len(y.file.list) \in Nat /\ y.at \in Int /\ Len(x.file.list) \in Nat /\ x.at \in Int
        BY <3>1, <3>3, ListIs DEF Unlinking, Clearing
      <4>2. Len(y.file.list) - y.at + 1 \in Int /\ Len(x.file.list) - x.at + 1 \in Int 
        BY <1>1, <4>1
      <4> QED
        BY <1>1, <3>1, <3>3, <4>2, OneLess
    <3> QED
      BY <2>1, <3>1, <3>2, <3>3 DEF Turning
  <2> QED
    BY <2>3, <2>4, <2>5
<1>5. N \in S
  <2> HIDE DEF S
  <2> QED
    BY <1>1, <1>3, <1>4, SetInduction
<1>6. Ok(s[N + 1], N + 1)
  BY <1>1, <1>5
<1>7. PICK y : y = s[N + 1]
  OBVIOUS
<1>8. ~ (/\ Unlinking(F.list, F.lf, y.file.list, y.file.lf, y.at, k, spare)
         /\ Len(y.file.list) - y.at + 1 + (N + 1) <= N)
  <2> SUFFICES ASSUME Unlinking(F.list, F.lf, y.file.list, y.file.lf, y.at, k, spare)
               PROVE  ~ (Len(y.file.list) - y.at + 1 + (N + 1) <= N)
    OBVIOUS
  <2>1. Len(y.file.list) \in Nat /\ y.at \in 1..Len(y.file.list) + 1
    BY ListIs DEF Unlinking, Clearing
  <2> QED
    BY <1>1, <2>1
<1> QED
  BY <1>6, <1>7, <1>8, <1>9

-----------------------------------------------------------------------------
(* The steps keep the invariant.                                           *)

LEMMA OrderIs ==
  ASSUME NEW L, NEW f, LockList(L, f)
  PROVE  Ord(L, f, NOLOCKF) <=>
           \A i, j \in DOMAIN L : i < j /\ f[L[i]].lf_id = f[L[j]].lf_id =>
             f[L[i]].lf_end # EOF /\ f[L[i]].lf_end < f[L[j]].lf_start
<1>1. DOMAIN L = 1..Len(L) /\ \A i \in 1..Len(L) : L[i] # NOLOCKF /\ f[L[i]] \in Held
  BY ListIs
<1>2. ASSUME NEW i \in 1..Len(L), NEW j \in 1..Len(L)
      PROVE  Clear(f[L[i]], f[L[j]]) <=>
               (f[L[i]].lf_id = f[L[j]].lf_id =>
                  f[L[i]].lf_end # EOF /\ f[L[i]].lf_end < f[L[j]].lf_start)
  <2>1. PICK a, b : a = f[L[i]] /\ b = f[L[j]]
    OBVIOUS
  <2>2. a \in Structs /\ b \in Structs
    BY <1>1, <2>1 DEF Held
  <2>3. a.lf_end = EOF => ~ (Hi(a) < b.lf_start)
    BY <2>2, StructIs
  <2>4. a.lf_end # EOF => Hi(a) = a.lf_end
    BY <2>2, StructIs
  <2> QED
    BY <2>1, <2>3, <2>4 DEF Clear
<1> QED
  BY <1>1, <1>2 DEF Ord

\* What the invariant says of the list.
LEMMA InvIs ==
  ASSUME IInv
  PROVE  /\ TypeOK /\ LockList(i_lockf, lf) /\ Ord(i_lockf, lf, NOLOCKF)
         /\ \A p \in Procs :
              /\ state[p] \in States /\ (state[p] = "idle" <=> req[p] = NOLOCKF)
              /\ req[p] # NOLOCKF => Asks(p, i_lockf, lf, state[p], req[p])
<1>1. /\ TypeOK /\ i_lockf \in Seq(Locks) /\ IsInjective(i_lockf) /\ lf \in [Locks -> Structs]
      /\ state \in [Procs -> States] /\ req \in [Procs -> Locks \cup {NOLOCKF}]
  BY DEF IInv, TypeOK
<1>2. LockList(i_lockf, lf)
  <2>1. \A c \in ToSet(i_lockf) : c \in Locks
    BY <1>1 DEF ToSet
  <2> QED
    BY <1>1, <2>1 DEF IInv, LocksHeld, LockList, Held
<1>3. Ord(i_lockf, lf, NOLOCKF)
  BY <1>2, OrderIs DEF IInv, OwnLocksOrdered
<1>4. ASSUME NEW p \in Procs
      PROVE  /\ state[p] \in States /\ (state[p] = "idle" <=> req[p] = NOLOCKF)
             /\ req[p] # NOLOCKF => Asks(p, i_lockf, lf, state[p], req[p])
  <2>1. /\ state[p] \in States /\ (state[p] = "idle" <=> req[p] = NOLOCKF)
    BY <1>1 DEF IInv, RequestsOwned
  <2>2. ASSUME req[p] # NOLOCKF PROVE Asks(p, i_lockf, lf, state[p], req[p])
    <3>1. /\ req[p] \in Locks /\ req[p] \notin ToSet(i_lockf) /\ lf[req[p]].lf_id = p
          /\ Proper(lf[req[p]])
          /\ p \in Flocks => lf[req[p]].lf_start = 0 /\ lf[req[p]].lf_end = EOF
          /\ (lf[req[p]].lf_type = "F_UNLCK" <=> state[p] = "splitting_unlock")
      BY <1>1, <2>2 DEF IInv, RequestsOwned
    <3>2. state[p] \in {"splitting_lock", "splitting_unlock"} =>
            \E o \in ToSet(i_lockf) : Encloses(lf[o], lf[req[p]])
      BY <3>1 DEF IInv, SplitPending, Encloses
    <3> QED
      BY <3>1, <3>2 DEF Asks
  <2> QED
    BY <2>1, <2>2
<1> QED
  BY <1>1, <1>2, <1>3, <1>4

LEMMA FreeIs == Free \in Structs /\ 0 \in 0..MaxOff + 1
<1>1. MaxOff \in Nat
  BY BoundsNat
<1>2. 0 \in 0..MaxOff + 1 /\ EOF \in EOF..MaxOff
  BY <1>1 DEF EOF
<1> QED
  BY <1>2 DEF Free, Lock, Structs

\* What a step leaves of the structures that are in use.
LEMMA BecomesIs ==
  ASSUME IInv, NEW p \in Procs, NEW F, NEW s, NEW n, Fits(p, F, s, n), Becomes(p, F, s, n)
  PROVE  /\ TypeOK' /\ i_lockf' = F.list
         /\ \A c \in ToSet(F.list) : lf'[c] = F.lf[c]
         /\ n # NOLOCKF => lf'[n] = F.lf[n]
         /\ req'[p] = n /\ state'[p] = s
         /\ \A q \in Procs \ {p} :
              /\ req'[q] = req[q]
              /\ state'[q] = state[q] \/ (state[q] = "sleeping" /\ state'[q] = "awakened")
              /\ req[q] # NOLOCKF => lf'[req[q]] = F.lf[req[q]]
<1>1. /\ state \in [Procs -> States] /\ req \in [Procs -> Locks \cup {NOLOCKF}]
  BY InvIs DEF TypeOK
<1>2. /\ F.list \in Seq(Locks) /\ IsInjective(F.list) /\ F.lf \in [Locks -> Structs]
      /\ ToSet(F.list) \subseteq Locks
      /\ F.block \in Pointers /\ F.next \in Pointers /\ F.system \in Outcomes
      /\ n \in Locks \cup {NOLOCKF} /\ s \in States
  <2>1. LockList(F.list, F.lf) /\ IsFile(F)
    BY DEF Fits
  <2> QED
    BY <2>1, ListIs DEF Fits, LockList, IsFile, Asks
<1> DEFINE live == ToSet(F.list) \cup {IF q = p THEN n ELSE req[q] : q \in Procs}
           kept == live \cup {F.next[k] : k \in live \ ({NOLOCKF} \cup ToSet(F.list))}
<1>3. /\ i_lockf' = F.list
      /\ lf' = [k \in Locks |-> IF k \in live THEN F.lf[k] ELSE Free]
      /\ lf_block' = [k \in Locks |-> IF k \in kept THEN F.block[k] ELSE NOLOCKF]
      /\ lf_next' = [k \in Locks |-> IF k \in live \ ToSet(F.list) THEN F.next[k] ELSE NOLOCKF]
      /\ state' = [q \in Procs |->
                     CASE q = p -> s
                       [] q # p /\ state[q] = "sleeping" /\ req[q] \in F.woken -> "awakened"
                       [] OTHER -> state[q]]
      /\ req' = [req EXCEPT ![p] = n]
      /\ system' = F.system
  BY DEF Becomes
<1>4. /\ ToSet(F.list) \subseteq live /\ n \in live
      /\ \A q \in Procs \ {p} : req[q] \in live
  OBVIOUS
<1> HIDE DEF live, kept
<1>5. lf' \in [Locks -> Structs]
  BY <1>2, <1>3, FreeIs
<1>6. lf_block' \in [Locks -> Locks \cup {NOLOCKF}] /\ lf_next' \in [Locks -> Locks \cup {NOLOCKF}]
  BY <1>2, <1>3 DEF Pointers
<1>7. \A q \in Procs \ {p} :
        state'[q] = state[q] \/ (state[q] = "sleeping" /\ state'[q] = "awakened")
  BY <1>3
<1>8. state'[p] = s
  BY <1>3
<1>9. state' \in [Procs -> States]
  <2>1. "awakened" \in States
    BY DEF States
  <2>2. \A q \in Procs : state'[q] \in States
    BY <1>1, <1>2, <1>7, <1>8, <2>1
  <2>3. state' = [q \in Procs |-> state'[q]]
    BY <1>3
  <2> QED
    BY <2>2, <2>3
<1>10. req' \in [Procs -> Locks \cup {NOLOCKF}] /\ req'[p] = n
       /\ \A q \in Procs \ {p} : req'[q] = req[q]
  BY <1>1, <1>2, <1>3
<1>11. TypeOK'
  BY <1>2, <1>3, <1>5, <1>6, <1>9, <1>10 DEF TypeOK
<1>12. \A c \in live \cap Locks : lf'[c] = F.lf[c]
  BY <1>3
<1>13. \A c \in ToSet(F.list) : lf'[c] = F.lf[c]
  BY <1>2, <1>4, <1>12
<1>14. n # NOLOCKF => lf'[n] = F.lf[n]
  BY <1>2, <1>4, <1>12
<1>15. \A q \in Procs \ {p} : req[q] # NOLOCKF => lf'[req[q]] = F.lf[req[q]]
  BY <1>1, <1>4, <1>12
<1> QED
  BY <1>3, <1>7, <1>8, <1>10, <1>11, <1>13, <1>14, <1>15

LEMMA StepInv ==
  ASSUME IInv, NEW p \in Procs, NEW F, NEW s, NEW n, Fits(p, F, s, n), Becomes(p, F, s, n)
  PROVE  IInv'
<1>1. /\ TypeOK' /\ i_lockf' = F.list
      /\ \A c \in ToSet(F.list) : lf'[c] = F.lf[c]
      /\ n # NOLOCKF => lf'[n] = F.lf[n]
      /\ req'[p] = n /\ state'[p] = s
      /\ \A q \in Procs \ {p} :
           /\ req'[q] = req[q]
           /\ state'[q] = state[q] \/ (state[q] = "sleeping" /\ state'[q] = "awakened")
           /\ req[q] # NOLOCKF => lf'[req[q]] = F.lf[req[q]]
  BY BecomesIs
<1>2. /\ LockList(F.list, F.lf) /\ Ord(F.list, F.lf, NOLOCKF) /\ Others(p, F.list, F.lf)
      /\ (s = "idle" <=> n = NOLOCKF) /\ (n # NOLOCKF => Asks(p, F.list, F.lf, s, n))
  BY DEF Fits
<1>3. LockList(F.list, lf')
  BY <1>1, <1>2 DEF LockList, TypeOK
<1>4. LocksHeld'
  BY <1>1, <1>3 DEF LocksHeld, LockList, Held, Proper
<1>5. OwnLocksOrdered'
  <2>1. Ord(F.list, lf', NOLOCKF)
    <3>1. \A i \in 1..Len(F.list) : F.list[i] \in ToSet(F.list)
      BY <1>2, ListIs
    <3> QED
      BY <1>1, <1>2, <3>1 DEF Ord
  <2>2. \A i, j \in DOMAIN F.list : i < j /\ lf'[F.list[i]].lf_id = lf'[F.list[j]].lf_id =>
             lf'[F.list[i]].lf_end # EOF /\ lf'[F.list[i]].lf_end < lf'[F.list[j]].lf_start
    BY <1>3, <2>1, OrderIs
  <2>3. \A i \in DOMAIN F.list : Proper(lf'[F.list[i]])
    BY <1>3, ListIs DEF Held
  <2> QED
    BY <1>1, <2>2, <2>3 DEF OwnLocksOrdered, Proper
<1>6. ASSUME NEW q \in Procs, req'[q] # NOLOCKF
      PROVE  /\ state'[q] # "idle" /\ Asks(q, F.list, lf', state'[q], req'[q])
  <2>1. CASE q = p
    <3>1. n # NOLOCKF /\ Asks(p, F.list, F.lf, s, n)
      BY <1>1, <1>2, <1>6, <2>1
    <3>2. \A o \in ToSet(F.list) : lf'[o] = F.lf[o]
      BY <1>1
    <3> QED
      BY <1>1, <1>2, <2>1, <3>1, <3>2 DEF Asks
  <2>2. CASE q # p
    <3>1. /\ req'[q] = req[q] /\ req[q] # NOLOCKF /\ lf'[req[q]] = F.lf[req[q]]
          /\ state'[q] = state[q] \/ (state[q] = "sleeping" /\ state'[q] = "awakened")
      BY <1>1, <1>6, <2>2
    <3>2. Asks(q, i_lockf, lf, state[q], req[q]) /\ state[q] # "idle"
      BY <3>1, InvIs
    <3>3. req[q] \notin ToSet(F.list) /\ F.lf[req[q]] = lf[req[q]] /\ lf'[req[q]] = lf[req[q]]
      BY <1>2, <2>2, <3>1 DEF Others
    <3>4. \A o \in ToSet(i_lockf) : lf[o].lf_id = q => o \in ToSet(F.list) /\ lf'[o] = lf[o]
      BY <1>1, <1>2, <2>2 DEF Others
    <3>5. ASSUME state'[q] \in {"splitting_lock", "splitting_unlock"}
          PROVE  \E o \in ToSet(F.list) : Encloses(lf'[o], lf'[req[q]])
      <4>1. state[q] \in {"splitting_lock", "splitting_unlock"} /\ lf[req[q]].lf_id = q
        BY <3>1, <3>2, <3>5 DEF Asks
      <4>2. PICK o \in ToSet(i_lockf) : Encloses(lf[o], lf[req[q]])
        BY <3>2, <4>1 DEF Asks
      <4> QED
        BY <3>3, <3>4, <4>1, <4>2 DEF Encloses
    <3>6. lf'[req[q]].lf_type = "F_UNLCK" <=> state'[q] = "splitting_unlock"
      BY <3>1, <3>2, <3>3 DEF Asks
    <3> QED
      BY <3>1, <3>2, <3>3, <3>5, <3>6 DEF Asks
  <2> QED
    BY <2>1, <2>2
<1>7. ASSUME NEW q \in Procs, req'[q] = NOLOCKF
      PROVE  state'[q] = "idle"
  <2>1. CASE q = p
    BY <1>1, <1>2, <1>7, <2>1
  <2>2. CASE q # p
    <3>1. req[q] = NOLOCKF /\ state[q] = "idle"
      BY <1>1, <1>7, <2>2, InvIs
    <3> QED
      BY <1>1, <2>2, <3>1
  <2> QED
    BY <2>1, <2>2
<1>8. RequestsOwned'
  BY <1>1, <1>6, <1>7 DEF RequestsOwned, Asks, Proper
<1>9. SplitPending'
  <2> SUFFICES ASSUME NEW q \in Procs, state'[q] \in {"splitting_lock", "splitting_unlock"}
               PROVE  \E o \in ToSet(i_lockf') :
                        LET k == lf'[req'[q]]
                        IN  /\ lf'[o].lf_id = q /\ lf'[o].lf_start < k.lf_start /\ k.lf_end # EOF
                            /\ lf'[o].lf_end = EOF \/ k.lf_end < lf'[o].lf_end
    BY DEF SplitPending
  <2>1. req'[q] # NOLOCKF
    BY <1>7
  <2>2. Asks(q, F.list, lf', state'[q], req'[q])
    BY <1>6, <2>1
  <2> QED
    BY <1>1, <2>2 DEF Asks, Encloses
<1> QED
  BY <1>1, <1>4, <1>5, <1>8, <1>9 DEF IInv

\* What a routine leaves of the others.
LEMMA OthersStep ==
  ASSUME IInv, NEW p, NEW L, NEW f, NEW M, NEW g, NEW k, NEW n, NEW spare,
         Others(p, L, f), Rel(ToSet(L), f, ToSet(M), g, k, n, spare), k.lf_id = p,
         \A q \in Procs \ {p} : req[q] # NOLOCKF => req[q] # n /\ req[q] # spare
  PROVE  Others(p, M, g)
<1>1. ASSUME NEW q \in Procs \ {p}, req[q] # NOLOCKF
      PROVE  req[q] \notin ToSet(M) /\ g[req[q]] = lf[req[q]]
  <2>1. req[q] \in Locks
    BY <1>1, InvIs DEF Asks
  <2>2. req[q] \notin ToSet(L) /\ f[req[q]] = lf[req[q]]
    BY <1>1 DEF Others
  <2> QED
    BY <1>1, <2>1, <2>2 DEF Rel
<1>2. ASSUME NEW c \in ToSet(i_lockf), lf[c].lf_id # p
      PROVE  c \in ToSet(M) /\ g[c] = lf[c]
  BY <1>2 DEF Others, Rel
<1>3. ASSUME NEW c \in ToSet(M)
      PROVE  g[c].lf_id = p \/ (c \in ToSet(i_lockf) /\ g[c] = lf[c])
  <2>1. g[c].lf_id = p \/ (c \in ToSet(L) /\ g[c] = f[c])
    BY DEF Rel
  <2>2. c \in ToSet(L) => f[c].lf_id = p \/ (c \in ToSet(i_lockf) /\ f[c] = lf[c])
    BY DEF Others
  <2> QED
    BY <2>1, <2>2
<1> QED
  BY <1>1, <1>2, <1>3 DEF Others

LEMMA FileIs ==
  ASSUME IInv, NEW p \in Procs
  PROVE  Starts(p, File, req[p]) /\ File.lf = lf /\ Starts(p, File, NOLOCKF)
<1>1. /\ TypeOK /\ LockList(i_lockf, lf) /\ Ord(i_lockf, lf, NOLOCKF)
      /\ \A q \in Procs : /\ (state[q] = "idle" <=> req[q] = NOLOCKF)
                          /\ req[q] # NOLOCKF => Asks(q, i_lockf, lf, state[q], req[q])
  BY InvIs
<1>2. IsFile(File) /\ File.list = i_lockf /\ File.lf = lf
  BY <1>1 DEF File, IsFile, TypeOK, Pointers
<1>3. Others(p, i_lockf, lf)
  BY <1>1 DEF Others, Asks
<1>4. \A q \in Procs \ {p} : req[q] # req[p] \/ req[p] = NOLOCKF
  BY <1>1 DEF Asks
<1> QED
  BY <1>1, <1>2, <1>3, <1>4 DEF Starts, Asks

LEMMA MallocIs ==
  ASSUME IInv, NEW p \in Procs, NEW n \in Locks \ InUse, NEW k \in Structs, Proper(k), k.lf_id = p,
         p \in Flocks => k.lf_start = 0 /\ k.lf_end = EOF
  PROVE  Starts(p, malloc(n, k), n) /\ malloc(n, k).lf[n] = k
<1>1. /\ TypeOK /\ LockList(i_lockf, lf) /\ Ord(i_lockf, lf, NOLOCKF)
      /\ \A q \in Procs : /\ (state[q] = "idle" <=> req[q] = NOLOCKF)
                          /\ req[q] # NOLOCKF => Asks(q, i_lockf, lf, state[q], req[q])
  BY InvIs
<1> DEFINE F == malloc(n, k)
           g == [lf EXCEPT ![n] = k]
<1>2. lf \in [Locks -> Structs] /\ lf_block \in Pointers /\ lf_next \in Pointers /\ system \in Outcomes
  BY <1>1 DEF TypeOK, Pointers
<1>3. IsFile(F) /\ F.list = i_lockf /\ F.lf = g
  <2>1. PICK R : R = File
    OBVIOUS
  <2>2. /\ DOMAIN R = {"list", "lf", "block", "next", "woken", "system"}
        /\ R.list = i_lockf /\ R.lf = lf /\ R.block = lf_block /\ R.next = lf_next
        /\ R.woken = {} /\ R.system = system
    BY <2>1 DEF File
  <2>3. F = [R EXCEPT !.lf[n] = k, !.block[n] = NOLOCKF, !.next[n] = NOLOCKF]
    BY <2>1 DEF malloc
  <2> HIDE DEF F
  <2>4. /\ DOMAIN F = DOMAIN R /\ F.list = R.list /\ F.woken = R.woken /\ F.system = R.system
        /\ F.lf = [R.lf EXCEPT ![n] = k] /\ F.block = [R.block EXCEPT ![n] = NOLOCKF]
        /\ F.next = [R.next EXCEPT ![n] = NOLOCKF]
    BY <2>2, <2>3
  <2>5. [lf_block EXCEPT ![n] = NOLOCKF] \in Pointers /\ [lf_next EXCEPT ![n] = NOLOCKF] \in Pointers
    BY <1>2 DEF Pointers
  <2> QED
    BY <1>2, <2>2, <2>4, <2>5 DEF IsFile
<1>4. n \notin ToSet(i_lockf) /\ n # NOLOCKF /\ \A q \in Procs : req[q] # n
  BY NotALock DEF InUse, Requests
<1>5. g \in [Locks -> Structs] /\ g[n] = k /\ \A c \in Locks : c # n => g[c] = lf[c]
  BY <1>2
<1> HIDE DEF F, g
<1>6. \A c \in ToSet(i_lockf) : c \in Locks /\ c # n /\ g[c] = lf[c]
  BY <1>1, <1>4, <1>5, ListIs
<1>7. LockList(i_lockf, g)
  BY <1>1, <1>5, <1>6 DEF LockList
<1>8. Ord(i_lockf, g, NOLOCKF)
  <2>1. \A i \in 1..Len(i_lockf) : g[i_lockf[i]] = lf[i_lockf[i]]
    BY <1>1, <1>6, ListIs
  <2> QED
    BY <1>1, <2>1 DEF Ord
<1>9. Others(p, i_lockf, g)
  <2>1. \A q \in Procs \ {p} : req[q] # NOLOCKF => req[q] \in Locks /\ req[q] \notin ToSet(i_lockf)
    BY <1>1 DEF Asks
  <2> QED
    BY <1>4, <1>5, <1>6, <2>1 DEF Others
<1> QED
  BY <1>3, <1>4, <1>5, <1>6, <1>7, <1>8, <1>9 DEF Starts, F

LEMMA GetblockIs ==
  ASSUME NEW F, F.list = i_lockf, LockList(i_lockf, F.lf), NEW k,
         \A c \in ToSet(i_lockf) : F.lf[c] = lf[c]
  PROVE  LET b == lf_getblock(F, k)
         IN  /\ b = NOLOCKF => Unopposed(k)
             /\ b # NOLOCKF => /\ b \in ToSet(i_lockf) /\ ~ Unopposed(k)
                               /\ lf[b].lf_id # k.lf_id /\ ovcase(lf[b], k) # 0
                               /\ "F_WRLCK" \in {lf[b].lf_type, k.lf_type}
<1> DEFINE hits == {j \in DOMAIN i_lockf :
                 LET l == lf[i_lockf[j]]
                 IN  /\ l.lf_id # k.lf_id /\ ovcase(l, k) # 0
                     /\ "F_WRLCK" \in {l.lf_type, k.lf_type}}
           L == i_lockf
<1>1. /\ Len(L) \in Nat /\ DOMAIN L = 1..Len(L) /\ ToSet(L) \subseteq Locks
      /\ \A i \in 1..Len(L) : L[i] \in ToSet(L) /\ L[i] \in Locks /\ L[i] # NOLOCKF
      /\ \A c \in ToSet(L) : \E i \in 1..Len(L) : c = L[i]
  BY ListIs
<1>2. lf_getblock(F, k) = IF hits = {} THEN NOLOCKF ELSE L[Least(hits)]
  <2>1. \A j \in DOMAIN L : F.lf[L[j]] = lf[L[j]]
    BY <1>1
  <2>2. {j \in DOMAIN F.list :
                 LET l == F.lf[F.list[j]]
                 IN  /\ l.lf_id # k.lf_id /\ ovcase(l, k) # 0
                     /\ "F_WRLCK" \in {l.lf_type, k.lf_type}} = hits
    BY <2>1
  <2> HIDE DEF hits
  <2> QED
    BY <2>2 DEF lf_getblock
<1>3. hits # {} => Least(hits) \in hits
  <2>1. hits \subseteq Nat
    BY <1>1
  <2> HIDE DEF hits
  <2> QED
    BY <2>1, LeastIs
<1>4. CASE hits = {}
  <2>1. Unopposed(k)
    BY <1>1, <1>4 DEF Unopposed
  <2> QED
    BY <1>2, <1>4, <2>1
<1>5. CASE hits # {}
  <2>1. PICK j \in hits : lf_getblock(F, k) = L[j]
    BY <1>2, <1>3, <1>5
  <2>2. /\ j \in 1..Len(L) /\ lf[L[j]].lf_id # k.lf_id /\ ovcase(lf[L[j]], k) # 0
        /\ "F_WRLCK" \in {lf[L[j]].lf_type, k.lf_type}
    BY <1>1, <2>1
  <2>3. L[j] \in ToSet(L) /\ L[j] # NOLOCKF
    BY <1>1, <2>2
  <2>4. ~ Unopposed(k)
    BY <2>2, <2>3 DEF Unopposed
  <2> QED
    BY <2>1, <2>2, <2>3, <2>4
<1> QED
  BY <1>4, <1>5

\* The lock that is split.
LEMMA SplitsIs ==
  ASSUME NEW F, LockList(F.list, F.lf), NEW k \in Structs, Proper(k), Splits(F, k)
  PROVE  LET j == findoverlap_self(F, 1, k).at
         IN  /\ j \in 1..Len(F.list) /\ F.list[j] \in ToSet(F.list)
             /\ Encloses(F.lf[F.list[j]], k)
<1> DEFINE h == findoverlap_self(F, 1, k)
<1>1. 1 \in 1..Len(F.list) + 1
  BY ListIs
<1>2. Stopped(F.list, F.lf, k, 1, h.at, h.case)
  BY <1>1, SearchStops
<1>3. /\ h.case = 2 /\ F.lf[F.list[h.at]].lf_start # k.lf_start
      /\ F.lf[F.list[h.at]].lf_end # k.lf_end
  BY DEF Splits
<1> HIDE DEF h
<1>4. PICK j, l : j = h.at /\ l = F.lf[F.list[j]]
  OBVIOUS
<1>5. /\ j \in 1..Len(F.list) /\ F.list[j] \in ToSet(F.list) /\ l.lf_id = k.lf_id
      /\ l.lf_start <= k.lf_start /\ Hi(k) <= Hi(l) /\ k.lf_end # EOF
  <2>1. HitLies(F.list, F.lf, k, 1, h.at, h.case)
    BY <1>1, <1>2, <1>3, <1>4, StoppedIs
  <2> QED
    BY <1>1, <1>2, <1>3, <1>4, <2>1 DEF HitLies
<1>6. l \in Structs
  BY <1>4, <1>5, ListIs DEF Held
<1>7. l.lf_start < k.lf_start
  BY <1>3, <1>4, <1>5, <1>6, StructIs
<1>8. l.lf_end = EOF \/ k.lf_end < l.lf_end
  <2>1. l.lf_end \in Int /\ k.lf_end \in Int /\ Hi(k) = k.lf_end /\ (l.lf_end # EOF => Hi(l) = l.lf_end)
    BY <1>5, <1>6, StructIs
  <2> QED
    BY <1>3, <1>4, <1>5, <2>1
<1>9. Encloses(l, k)
  BY <1>5, <1>7, <1>8 DEF Encloses
<1> QED
  BY <1>4, <1>5, <1>9 DEF h

\* While malloc sleeps it stays the lock where the search ends.
LEMMA StillInside ==
  ASSUME NEW F, LockList(F.list, F.lf), Ord(F.list, F.lf, NOLOCKF), NEW k \in Structs, Proper(k),
         NEW o \in ToSet(F.list), Encloses(F.lf[o], k)
  PROVE  LET j == findoverlap_self(F, 1, k).at
         IN  j \in 1..Len(F.list) /\ F.list[j] = o /\ Clearing(F.list, F.lf, k, j)
<1> DEFINE h == findoverlap_self(F, 1, k)
<1>1. 1 \in 1..Len(F.list) + 1
  BY ListIs
<1>2. Stopped(F.list, F.lf, k, 1, h.at, h.case)
  BY <1>1, SearchStops
<1> HIDE DEF h
<1>3. PICK j, c, L, f : j = h.at /\ c = h.case /\ L = F.list /\ f = F.lf
  OBVIOUS
<1>4. LockList(L, f) /\ Ord(L, f, NOLOCKF) /\ o \in ToSet(L) /\ Encloses(f[o], k)
      /\ Stopped(L, f, k, 1, j, c) /\ 1 \in 1..Len(L) + 1
  BY <1>1, <1>2, <1>3
<1>5. /\ Len(L) \in Nat /\ j \in 1..Len(L) + 1
      /\ \A a \in 1..j - 1 : f[L[a]].lf_id = k.lf_id => Hi(f[L[a]]) < k.lf_start
      /\ j \in 1..Len(L) => /\ f[L[j]].lf_id = k.lf_id /\ c = ovcase(f[L[j]], k)
                            /\ c = 0 => Hi(k) < f[L[j]].lf_start
  BY <1>4, ListIs DEF Stopped
<1>6. PICK i \in 1..Len(L) : o = L[i]
  BY <1>4, ListIs
<1>7. /\ f[o] \in Structs /\ f[o].lf_id = k.lf_id /\ f[o].lf_start \in Int /\ k.lf_start \in Int
      /\ Hi(f[o]) \in Int /\ Hi(k) \in Int /\ k.lf_start <= Hi(k) /\ f[o].lf_start < k.lf_start
  BY <1>4, <1>6, ListIs, StructIs DEF Encloses, Held
<1>8. Hi(k) < Hi(f[o])
  BY <1>4, <1>7, StructIs DEF Encloses
<1>9. ~ (i \in 1..j - 1)
  <2> SUFFICES ASSUME i \in 1..j - 1 PROVE FALSE
    OBVIOUS
  <2>1. Hi(f[o]) < k.lf_start
    BY <1>5, <1>6, <1>7
  <2> QED
    BY <1>7, <1>8, <2>1
<1>10. i = j
  <2> SUFFICES ASSUME i # j PROVE FALSE
    OBVIOUS
  <2>1. j \in 1..Len(L) /\ j < i
    BY <1>5, <1>6, <1>9
  <2>2. /\ L[i] # NOLOCKF /\ L[j] # NOLOCKF /\ f[L[j]] \in Structs /\ Proper(f[L[j]])
        /\ f[L[j]].lf_start \in Int /\ Hi(f[L[j]]) \in Int /\ f[L[j]].lf_start <= Hi(f[L[j]])
        /\ f[L[j]].lf_id = k.lf_id /\ c = ovcase(f[L[j]], k)
    BY <1>4, <1>5, <1>6, <2>1, ListIs DEF Held
  <2>3. Hi(f[L[j]]) < f[o].lf_start
    BY <1>4, <1>5, <1>6, <1>7, <2>1, <2>2 DEF Ord, Clear
  <2>4. Hi(f[L[j]]) < k.lf_start
    BY <1>7, <2>2, <2>3
  <2>5. c = 0
    BY <2>2, <2>4, Cases
  <2>6. Hi(k) < f[L[j]].lf_start
    BY <1>5, <2>1, <2>5
  <2> QED
    BY <1>7, <2>2, <2>4, <2>6
<1>11. Clearing(L, f, k, j)
  BY <1>4, <1>5 DEF Clearing
<1> QED
  BY <1>3, <1>6, <1>10, <1>11 DEF h

LEMMA StartsIs ==
  ASSUME NEW p \in Procs, NEW F, NEW n, Tries(p, F, n)
  PROVE  /\ Wants(p, F.lf[n]) /\ F.lf[n] \in Held /\ F.lf[n].lf_type \in Types
         /\ LockList(F.list, F.lf) /\ Ord(F.list, F.lf, NOLOCKF) /\ Same(F) /\ IsFile(F)
         /\ n \in Locks /\ n \notin ToSet(F.list) /\ F.list = i_lockf /\ Others(p, F.list, F.lf)
         /\ \A q \in Procs \ {p} : req[q] # n
<1>1. F.lf[n] \in Structs
  BY DEF Tries, Starts, LockList
<1>2. F.lf[n].lf_type \in Types
  BY <1>1 DEF Structs, Tries
<1> QED
  BY <1>1, <1>2 DEF Tries, Starts, Wants, Same, Held

LEMMA TriesLink ==
  ASSUME IInv, NEW p \in Procs, NEW F, NEW n, Tries(p, F, n), Unopposed(F.lf[n]),
         NEW spare \in Spares(F, F.lf[n], InUse \cup {n}),
         Becomes(p, link_lock(F, n, spare), "idle", NOLOCKF)
  PROVE  /\ Moves(p, link_lock(F, n, spare), "idle", NOLOCKF)
         /\ Serves(p, link_lock(F, n, spare), F.lf[n], NOLOCKF)
<1> DEFINE G == link_lock(F, n, spare)
<1>1. PICK k : k = F.lf[n]
  OBVIOUS
<1>2. /\ Wants(p, k) /\ k \in Held
      /\ LockList(F.list, F.lf) /\ Ord(F.list, F.lf, NOLOCKF) /\ Same(F) /\ IsFile(F)
      /\ n \in Locks /\ n \notin ToSet(F.list) /\ F.list = i_lockf /\ Others(p, F.list, F.lf)
      /\ \A q \in Procs \ {p} : req[q] # n
  BY <1>1, StartsIs
<1>3. /\ IF Splits(F, k) THEN spare \in Locks ELSE spare = NOLOCKF
      /\ spare # n /\ spare \notin ToSet(F.list)
      /\ \A q \in Procs : req[q] # NOLOCKF => req[q] # spare
  <2>1. CASE Splits(F, k)
    <3>1. spare \in Locks \ (InUse \cup {n})
      BY <1>1, <2>1 DEF Spares
    <3> QED
      BY <1>2, <2>1, <3>1, InvIs DEF InUse, Requests
  <2>2. CASE ~ Splits(F, k)
    <3>1. spare = NOLOCKF
      BY <1>1, <2>2 DEF Spares
    <3> QED
      BY <1>2, <2>2, <3>1, NotALock, ListIs
  <2> QED
    BY <2>1, <2>2
<1>4. IsFile(G) /\ Linked(F.list, F.lf, G.list, G.lf, n, k, spare)
  <2>1. Ready(F, n, k, spare)
    BY <1>1, <1>2, <1>3 DEF Ready
  <2> QED
    BY <2>1, LinkLock
<1> HIDE DEF G
<1>5. Others(p, G.list, G.lf)
  <2>1. Rel(ToSet(F.list), F.lf, ToSet(G.list), G.lf, k, n, spare) /\ k.lf_id = p
    BY <1>2, <1>4 DEF Linked, Wants
  <2> QED
    BY <1>2, <1>3, <2>1, OthersStep
<1>6. Fits(p, G, "idle", NOLOCKF)
  BY <1>4, <1>5 DEF Fits, Linked, States
<1>7. Takes(G, k)
  BY <1>2, <1>4 DEF Takes, Same
<1>8. Serves(p, G, k, NOLOCKF)
  BY <1>1, <1>7 DEF Serves, Tries
<1> QED
  BY <1>1, <1>2, <1>6, <1>7, <1>8 DEF Moves, G

LEMMA TriesStay ==
  ASSUME IInv, NEW p \in Procs, NEW F, NEW n, Tries(p, F, n), NEW s, NEW m,
         Becomes(p, F, s, m), (s = "idle" /\ m = NOLOCKF)
                              \/ (/\ s = "splitting_lock" /\ m = n /\ Splits(F, F.lf[n])
                                  /\ MallocSleeps)
  PROVE  Moves(p, F, s, m)
<1>1. /\ LockList(F.list, F.lf) /\ Ord(F.list, F.lf, NOLOCKF) /\ Same(F) /\ IsFile(F)
      /\ Others(p, F.list, F.lf) /\ Wants(p, F.lf[n]) /\ n \in Locks /\ n \notin ToSet(F.list)
      /\ F.lf[n].lf_type \in Types
  BY StartsIs
<1>2. s \in States /\ (s = "idle" <=> m = NOLOCKF) /\ s # "sleeping"
  BY <1>1, NotALock DEF States
<1>3. ASSUME m # NOLOCKF PROVE Asks(p, F.list, F.lf, s, m)
  <2>1. s = "splitting_lock" /\ m = n /\ Splits(F, F.lf[n])
    BY <1>3
  <2>2. \E o \in ToSet(F.list) : Encloses(F.lf[o], F.lf[n])
    <3>1. F.lf[n] \in Structs /\ Proper(F.lf[n])
      BY <1>1 DEF Wants
    <3> QED
      BY <1>1, <2>1, <3>1, SplitsIs
  <2> QED
    BY <1>1, <2>1, <2>2 DEF Asks, Wants, Types
<1>4. Fits(p, F, s, m)
  BY <1>1, <1>2, <1>3 DEF Fits
<1> QED
  BY <1>1, <1>2, <1>4 DEF Moves

LEMMA SleepIs ==
  ASSUME IInv, NEW G, IsFile(G), NEW n \in Locks, NEW b \in ToSet(i_lockf)
  PROVE  \E H : /\ H = lf_addblock([G EXCEPT !.next[n] = b], b, n)
                /\ IsFile(H) /\ H.list = G.list /\ H.lf = G.lf
<1>1. b \in Locks
  BY InvIs, ListIs
<1>2. PICK N : N = [G EXCEPT !.next[n] = b]
  OBVIOUS
<1>3. IsFile(N) /\ N.list = G.list /\ N.lf = G.lf
  BY <1>1, <1>2 DEF IsFile, Pointers
<1>4. n \in Locks \cup {NOLOCKF}
  OBVIOUS
<1> DEFINE H == lf_addblock(N, b, n)
<1>5. IsFile(H) /\ H.list = N.list /\ H.lf = N.lf
  BY <1>1, <1>3, <1>4, AddIs
<1> HIDE DEF H
<1>6. H = lf_addblock([G EXCEPT !.next[n] = b], b, n)
  BY <1>2 DEF H
<1> QED
  BY <1>3, <1>5, <1>6

LEMMA SleepFits ==
  ASSUME NEW p, NEW H, IsFile(H), NEW n \in Locks, NEW k, Wants(p, k), k.lf_type \in Types,
         LockList(H.list, H.lf), Ord(H.list, H.lf, NOLOCKF), Others(p, H.list, H.lf),
         n \notin ToSet(H.list), H.lf[n] = k
  PROVE  Fits(p, H, "sleeping", n)
BY NotALock DEF Fits, Asks, Wants, Types, States

LEMMA TriesBlock ==
  ASSUME IInv, NEW p \in Procs, NEW F, NEW n, Tries(p, F, n), NEW b \in ToSet(i_lockf),
         ~ Unopposed(F.lf[n]), Block(p, F, n, b)
  PROVE  \E H : Moves(p, H, "sleeping", n) /\ Serves(p, H, F.lf[n], n)
<1>1. PICK k : k = F.lf[n]
  OBVIOUS
<1>2. /\ Wants(p, k) /\ k \in Held /\ k.lf_type \in Types /\ ~ Unopposed(k)
      /\ LockList(F.list, F.lf) /\ Ord(F.list, F.lf, NOLOCKF) /\ Same(F) /\ IsFile(F)
      /\ n \in Locks /\ n \notin ToSet(F.list) /\ F.list = i_lockf /\ Others(p, F.list, F.lf)
      /\ \A q \in Procs \ {p} : req[q] # n
  BY <1>1, StartsIs
<1> DEFINE drops == p \in Flocks /\ k.lf_type = "F_WRLCK"
<1>3. PICK G : /\ G = (IF drops THEN unlink_range(F, k, NOLOCKF) ELSE F)
               /\ Becomes(p, lf_addblock([G EXCEPT !.next[n] = b], b, n), "sleeping", n)
  BY <1>1 DEF Block
<1>4. CASE drops
  <2>1. Clearable(F, k, NOLOCKF)
    BY <1>2, <1>4, ListIs, NotALock DEF Clearable, Wants
  <2>2. IsFile(G) /\ Unlinked(F.list, F.lf, G.list, G.lf, k, NOLOCKF)
    BY <1>3, <1>4, <2>1, UnlinkRange
  <2>3. Rel(ToSet(F.list), F.lf, ToSet(G.list), G.lf, k, NOLOCKF, NOLOCKF) /\ k.lf_id = p
        /\ LockList(G.list, G.lf) /\ Ord(G.list, G.lf, NOLOCKF)
    BY <1>2, <2>2 DEF Unlinked, Wants
  <2>4. Others(p, G.list, G.lf)
    BY <1>2, <2>3, OthersStep
  <2>5. n \notin ToSet(G.list) /\ G.lf[n] = k
    BY <1>1, <1>2, <2>3, NotALock DEF Rel
  <2>6. Frees(G, k)
    BY <1>2, <2>2 DEF Frees, Same
  <2>7. PICK H : /\ H = lf_addblock([G EXCEPT !.next[n] = b], b, n)
                 /\ IsFile(H) /\ H.list = G.list /\ H.lf = G.lf
    BY <1>2, <2>2, SleepIs
  <2>8. Fits(p, H, "sleeping", n)
    BY <1>2, <2>3, <2>4, <2>5, <2>7, SleepFits
  <2>9. Frees(H, k)
    BY <2>6, <2>7 DEF Frees
  <2>10. Serves(p, H, k, n)
    BY <1>2, <1>4, <2>5, <2>7, <2>9 DEF Serves
  <2> QED
    BY <1>1, <1>2, <1>3, <2>7, <2>8, <2>9, <2>10 DEF Moves
<1>5. CASE ~ drops
  <2>1. G = F
    BY <1>3, <1>5
  <2>2. PICK H : /\ H = lf_addblock([G EXCEPT !.next[n] = b], b, n)
                 /\ IsFile(H) /\ H.list = F.list /\ H.lf = F.lf
    BY <1>2, <2>1, SleepIs
  <2>3. Fits(p, H, "sleeping", n)
    BY <1>1, <1>2, <2>2, SleepFits
  <2>4. Same(H)
    BY <1>2, <2>2 DEF Same
  <2>5. p \in Flocks => k.lf_type = "F_RDLCK"
    BY <1>2, <1>5 DEF Types
  <2>6. Serves(p, H, k, n)
    BY <1>1, <1>2, <1>5, <2>2, <2>4 DEF Serves, Types
  <2> QED
    BY <1>1, <1>2, <1>3, <2>2, <2>3, <2>4, <2>5, <2>6 DEF Moves
<1> QED
  BY <1>4, <1>5

LEMMA Attempts ==
  ASSUME IInv, NEW p \in Procs, NEW F, NEW n, Tries(p, F, n), Attempt(p, F, n)
  PROVE  \E G, s, m : Moves(p, G, s, m) /\ Serves(p, G, F.lf[n], m)
<1>1. /\ LockList(i_lockf, F.lf) /\ F.list = i_lockf /\ \A c \in ToSet(i_lockf) : F.lf[c] = lf[c]
      /\ n # NOLOCKF
  BY DEF Tries, Starts
<1> DEFINE b == lf_getblock(F, F.lf[n])
<1>2. /\ b = NOLOCKF => Unopposed(F.lf[n])
      /\ b # NOLOCKF => b \in ToSet(i_lockf) /\ ~ Unopposed(F.lf[n])
  BY <1>1, GetblockIs
<1>3. \/ /\ b = NOLOCKF
         /\ \E spare \in Spares(F, F.lf[n], InUse \cup {n}) :
              Becomes(p, link_lock(F, n, spare), "idle", NOLOCKF)
      \/ MallocSleeps /\ Splits(F, F.lf[n]) /\ Becomes(p, F, "splitting_lock", n)
      \/ b # NOLOCKF /\ TRUE \in deadlock(F, n, b) /\ Becomes(p, F, "idle", NOLOCKF)
      \/ b # NOLOCKF /\ Block(p, F, n, b)
  BY DEF Attempt
<1> HIDE DEF b
<1>4. CASE /\ b = NOLOCKF
           /\ \E spare \in Spares(F, F.lf[n], InUse \cup {n}) :
                Becomes(p, link_lock(F, n, spare), "idle", NOLOCKF)
  <2>1. PICK spare \in Spares(F, F.lf[n], InUse \cup {n}) :
               Becomes(p, link_lock(F, n, spare), "idle", NOLOCKF)
    BY <1>4
  <2>2. /\ Moves(p, link_lock(F, n, spare), "idle", NOLOCKF)
        /\ Serves(p, link_lock(F, n, spare), F.lf[n], NOLOCKF)
    BY <1>2, <1>4, <2>1, TriesLink
  <2> QED
    BY <2>2
<1>5. CASE MallocSleeps /\ Splits(F, F.lf[n]) /\ Becomes(p, F, "splitting_lock", n)
  <2>1. Moves(p, F, "splitting_lock", n) /\ Serves(p, F, F.lf[n], n)
    BY <1>5, TriesStay DEF Serves
  <2> QED
    BY <2>1
<1>6. CASE b # NOLOCKF /\ TRUE \in deadlock(F, n, b) /\ Becomes(p, F, "idle", NOLOCKF)
  <2>1. Moves(p, F, "idle", NOLOCKF)
    BY <1>6, TriesStay
  <2>2. F.lf[n].lf_id = p /\ Same(F) /\ F.lf[n].lf_type # "F_UNLCK"
    BY StartsIs DEF Wants, Tries
  <2>3. p \notin Flocks
    BY <1>6, <2>2 DEF deadlock
  <2>4. Serves(p, F, F.lf[n], NOLOCKF)
    BY <1>2, <1>6, <2>2, <2>3 DEF Serves
  <2> QED
    BY <2>1, <2>4
<1>7. CASE b # NOLOCKF /\ Block(p, F, n, b)
  BY <1>2, <1>7, TriesBlock
<1> QED
  BY <1>3, <1>4, <1>5, <1>6, <1>7

LEMMA LockIs ==
  ASSUME NEW p \in Procs, NEW t \in Types \cup {"F_UNLCK"}, NEW r \in Ranges(p)
  PROVE  Wants(p, Lock(p, t, r)) /\ Lock(p, t, r).lf_type = t
<1>1. PICK a, b : a = r[1] /\ b = r[2]
  OBVIOUS
<1>2. Lock(p, t, r) = [lf_id |-> p, lf_type |-> t, lf_start |-> a, lf_end |-> b]
  BY <1>1 DEF Lock
<1>3. MaxOff \in Nat
  BY BoundsNat
<1>4. /\ a \in 0..MaxOff + 1 /\ b \in EOF..MaxOff /\ (b = EOF \/ a <= b)
      /\ p \in Flocks => a = 0 /\ b = EOF
  <2>1. CASE p \in Flocks
    <3>1. a = 0 /\ b = EOF
      BY <1>1, <2>1 DEF Ranges
    <3> QED
      BY <1>3, <3>1 DEF EOF
  <2>2. CASE p \notin Flocks
    <3>1. a \in 0..MaxOff /\ b \in EOF..MaxOff /\ (b = EOF \/ a <= b)
      BY <1>1, <2>2 DEF Ranges
    <3> QED
      BY <1>3, <2>2, <3>1
  <2> QED
    BY <2>1, <2>2
<1> QED
  BY <1>2, <1>4 DEF Wants, Structs, Proper

LEMMA SetlockMoves ==
  ASSUME IInv, NEW p \in Procs, NEW t \in Requested, NEW r \in Ranges(p), lf_setlock(p, t, r)
  PROVE  \E G, s, m : Moves(p, G, s, m) /\ Serves(p, G, Lock(p, t, r), m)
<1>1. PICK n \in Locks \ InUse : Attempt(p, malloc(n, Lock(p, t, r)), n)
  BY DEF lf_setlock
<1>2. Wants(p, Lock(p, t, r)) /\ Lock(p, t, r).lf_type # "F_UNLCK"
  BY TypesAsked, LockIs DEF Types
<1>3. PICK k, F : k = Lock(p, t, r) /\ F = malloc(n, k)
  OBVIOUS
<1>4. Starts(p, F, n) /\ F.lf[n] = k
  BY <1>2, <1>3, MallocIs DEF Wants
<1>5. Tries(p, F, n)
  BY <1>2, <1>3, <1>4, NotALock DEF Tries
<1> QED
  BY <1>1, <1>3, <1>4, <1>5, Attempts

LEMMA RetryMoves ==
  ASSUME IInv, NEW p \in Procs, retry(p)
  PROVE  \E G, s, m : Moves(p, G, s, m) /\ Serves(p, G, lf[req[p]], m)
<1>1. state[p] = "awakened" /\ Attempt(p, File, req[p])
  BY DEF retry
<1>2. req[p] # NOLOCKF /\ lf[req[p]].lf_type # "F_UNLCK"
  BY <1>1, InvIs DEF Asks
<1>3. Tries(p, File, req[p])
  BY <1>2, FileIs DEF Tries
<1> QED
  BY <1>1, <1>3, FileIs, Attempts

LEMMA ClearlockMoves ==
  ASSUME IInv, NEW p \in Procs, NEW r \in Ranges(p), lf_clearlock(p, r)
  PROVE  \E G, s, m : Moves(p, G, s, m) /\ Serves(p, G, Lock(p, "F_UNLCK", r), m)
<1>1. PICK k : k = Lock(p, "F_UNLCK", r)
  OBVIOUS
<1>2. Wants(p, k) /\ k.lf_type = "F_UNLCK" /\ k \in Structs /\ Proper(k) /\ k.lf_id = p
  BY <1>1, LockIs DEF Wants
<1>3. \/ \E spare \in Spares(File, k, InUse) :
           Becomes(p, unlink_range(File, k, spare), "idle", NOLOCKF)
      \/ /\ MallocSleeps /\ Splits(File, k)
         /\ \E n \in Locks \ InUse :
              Becomes(p, lf_wakelock(malloc(n, k), i_lockf[findoverlap_self(File, 1, k).at]),
                      "splitting_unlock", n)
  BY <1>1 DEF lf_clearlock
<1>4. /\ IsFile(File) /\ File.list = i_lockf /\ File.lf = lf /\ LockList(i_lockf, lf)
      /\ Ord(i_lockf, lf, NOLOCKF) /\ Others(p, i_lockf, lf)
  BY FileIs DEF Starts
<1>5. CASE \E spare \in Spares(File, k, InUse) :
             Becomes(p, unlink_range(File, k, spare), "idle", NOLOCKF)
  <2>1. PICK spare \in Spares(File, k, InUse) :
               Becomes(p, unlink_range(File, k, spare), "idle", NOLOCKF)
    BY <1>5
  <2>2. PICK G : G = unlink_range(File, k, spare)
    OBVIOUS
  <2>3. /\ IF Splits(File, k) THEN spare \in Locks ELSE spare = NOLOCKF
        /\ spare \notin ToSet(i_lockf)
        /\ \A q \in Procs : req[q] # NOLOCKF => req[q] # spare
    <3>1. CASE Splits(File, k)
      <4>1. spare \in Locks \ InUse
        BY <2>1, <3>1 DEF Spares
      <4> QED
        BY <3>1, <4>1, InvIs DEF InUse, Requests
    <3>2. CASE ~ Splits(File, k)
      <4>1. spare = NOLOCKF
        BY <2>1, <3>2 DEF Spares
      <4> QED
        BY <1>4, <3>2, <4>1, NotALock, ListIs
    <3> QED
      BY <3>1, <3>2
  <2>4. Clearable(File, k, spare)
    BY <1>2, <1>4, <2>3 DEF Clearable, Types
  <2>5. IsFile(G) /\ Unlinked(File.list, File.lf, G.list, G.lf, k, spare)
    BY <2>2, <2>4, UnlinkRange
  <2>6. Rel(ToSet(i_lockf), lf, ToSet(G.list), G.lf, k, NOLOCKF, spare)
    BY <1>4, <2>5 DEF Unlinked
  <2>7. Others(p, G.list, G.lf)
    BY <1>2, <1>4, <2>3, <2>6, OthersStep
  <2>8. Fits(p, G, "idle", NOLOCKF)
    BY <2>5, <2>7 DEF Fits, Unlinked, States
  <2>9. Frees(G, k)
    BY <1>4, <2>5 DEF Frees
  <2>10. Moves(p, G, "idle", NOLOCKF)
    BY <1>2, <2>1, <2>2, <2>8, <2>9 DEF Moves
  <2>11. Serves(p, G, k, NOLOCKF)
    BY <1>2, <2>9 DEF Serves
  <2> QED
    BY <1>1, <2>10, <2>11
<1>6. CASE /\ MallocSleeps /\ Splits(File, k)
           /\ \E n \in Locks \ InUse :
                Becomes(p, lf_wakelock(malloc(n, k), i_lockf[findoverlap_self(File, 1, k).at]),
                        "splitting_unlock", n)
  <2>1. PICK o : o = i_lockf[findoverlap_self(File, 1, k).at]
    OBVIOUS
  <2>2. PICK n \in Locks \ InUse :
               Becomes(p, lf_wakelock(malloc(n, k), o), "splitting_unlock", n)
    BY <1>6, <2>1
  <2>3. o \in ToSet(i_lockf) /\ o \in Locks /\ Encloses(lf[o], k)
    <3>1. Splits(File, k)
      BY <1>6
    <3>2. o \in ToSet(File.list) /\ Encloses(File.lf[o], k)
      BY <1>2, <1>4, <2>1, <3>1, SplitsIs
    <3> QED
      BY <1>4, <3>2, ListIs
  <2>4. PICK F, G : F = malloc(n, k) /\ G = lf_wakelock(F, o)
    OBVIOUS
  <2>5. Starts(p, F, n) /\ F.lf[n] = k
    BY <1>2, <2>4, MallocIs DEF Wants
  <2>6. IsFile(G) /\ G.list = F.list /\ G.lf = F.lf
    BY <2>3, <2>4, <2>5, WakeIs DEF Starts
  <2>7. /\ G.list = i_lockf /\ LockList(i_lockf, G.lf) /\ Ord(i_lockf, G.lf, NOLOCKF)
        /\ Others(p, G.list, G.lf) /\ n \notin ToSet(i_lockf) /\ G.lf[n] = k
        /\ \A c \in ToSet(i_lockf) : G.lf[c] = lf[c]
    BY <2>5, <2>6, NotALock DEF Starts
  <2>8. Asks(p, G.list, G.lf, "splitting_unlock", n)
    BY <1>2, <2>3, <2>7 DEF Asks, Wants
  <2>9. Fits(p, G, "splitting_unlock", n)
    BY <2>6, <2>7, <2>8, NotALock DEF Fits, States
  <2>10. Moves(p, G, "splitting_unlock", n)
    BY <1>6, <2>2, <2>4, <2>7, <2>9 DEF Moves, Same
  <2>11. Serves(p, G, k, n)
    BY <1>6, <2>7 DEF Serves
  <2> QED
    BY <1>1, <2>10, <2>11
<1> QED
  BY <1>3, <1>5, <1>6

LEMMA WakesMoves ==
  ASSUME IInv, NEW p \in Procs, malloc_wakes(p)
  PROVE  \E G, s, m : Moves(p, G, s, m)
<1>1. PICK n, k, j, o : /\ n = req[p] /\ k = lf[n] /\ j = findoverlap_self(File, 1, k).at
                        /\ o = i_lockf[j]
  OBVIOUS
<1>2. /\ state[p] \in {"splitting_lock", "splitting_unlock"}
      /\ \E spare \in Locks \ InUse :
           \/ /\ state[p] = "splitting_lock"
              /\ Becomes(p, lf_wakelock(lf_split(File, j, k, <<n>>, spare), o), "idle", NOLOCKF)
           \/ /\ state[p] = "splitting_unlock"
              /\ Becomes(p, lf_split(File, j, k, <<>>, spare), "idle", NOLOCKF)
  BY <1>1 DEF malloc_wakes
<1>3. /\ IsFile(File) /\ File.list = i_lockf /\ File.lf = lf /\ LockList(i_lockf, lf)
      /\ Ord(i_lockf, lf, NOLOCKF) /\ Others(p, i_lockf, lf)
      /\ \A q \in Procs \ {p} : req[q] # n \/ n = NOLOCKF
      /\ i_lockf \in Seq(Locks) /\ lf \in [Locks -> Structs]
  BY <1>1, FileIs DEF Starts, LockList
<1>4. n # NOLOCKF /\ Asks(p, i_lockf, lf, state[p], n)
  BY <1>1, <1>2, InvIs
<1>5. /\ Wants(p, k) /\ k \in Structs /\ Proper(k) /\ k.lf_id = p /\ n \in Locks
      /\ n \notin ToSet(i_lockf) /\ (k.lf_type = "F_UNLCK" <=> state[p] = "splitting_unlock")
  BY <1>1, <1>3, <1>4 DEF Asks, Wants
<1>6. /\ j \in 1..Len(i_lockf) /\ o = i_lockf[j] /\ o \in ToSet(i_lockf) /\ o \in Locks
      /\ Encloses(lf[o], k) /\ Clearing(i_lockf, lf, k, j)
  <2>1. PICK c \in ToSet(i_lockf) : Encloses(lf[c], k)
    BY <1>1, <1>2, <1>4 DEF Asks
  <2>2. j \in 1..Len(i_lockf) /\ i_lockf[j] = c /\ Clearing(i_lockf, lf, k, j)
    BY <1>1, <1>3, <1>5, <2>1, StillInside
  <2> QED
    BY <1>1, <1>3, <2>1, <2>2, ListIs
<1>7. /\ lf[o] \in Structs /\ lf[o].lf_id = k.lf_id /\ lf[o].lf_start < k.lf_start
      /\ Hi(k) < Hi(lf[o]) /\ k.lf_end # EOF /\ lf[o].lf_end # k.lf_end
  <2>1. lf[o] \in Structs /\ lf[o].lf_id = k.lf_id /\ lf[o].lf_start < k.lf_start /\ k.lf_end # EOF
    BY <1>3, <1>6 DEF Encloses
  <2>2. Hi(k) = k.lf_end /\ Hi(k) \in Int /\ Hi(lf[o]) \in Int /\ Hi(k) <= MaxOff + 1
        /\ (lf[o].lf_end # EOF => Hi(lf[o]) = lf[o].lf_end)
        /\ (lf[o].lf_end = EOF => Hi(lf[o]) = MaxOff + 1) /\ MaxOff \in Nat /\ k.lf_end \in Int
    BY <1>5, <2>1, StructIs
  <2>3. Hi(k) # MaxOff + 1
    BY <1>5, <2>1, StructIs
  <2>4. Hi(k) < Hi(lf[o])
    BY <1>6, <2>2, <2>3 DEF Encloses
  <2>5. lf[o].lf_end # k.lf_end
    BY <1>6, <2>1, <2>2 DEF Encloses
  <2> QED
    BY <2>1, <2>4, <2>5
<1>8. PICK spare \in Locks \ InUse :
           \/ /\ state[p] = "splitting_lock"
              /\ Becomes(p, lf_wakelock(lf_split(File, j, k, <<n>>, spare), o), "idle", NOLOCKF)
           \/ /\ state[p] = "splitting_unlock"
              /\ Becomes(p, lf_split(File, j, k, <<>>, spare), "idle", NOLOCKF)
  BY <1>2
<1>9. /\ spare \in Locks /\ spare \notin ToSet(i_lockf) /\ spare # n /\ spare # o
      /\ \A q \in Procs : req[q] # NOLOCKF => req[q] # spare
  BY <1>1, <1>4, <1>6 DEF InUse, Requests
<1> DEFINE S(mid) == lf_split(File, j, k, mid, spare)
           g == [[lf EXCEPT ![i_lockf[j]].lf_end = k.lf_start - 1]
                    EXCEPT ![spare] = [lf[i_lockf[j]] EXCEPT !.lf_start = k.lf_end + 1]]
           q(mid) == SubSeq(i_lockf, 1, j) \o mid \o <<spare>> \o SubSeq(i_lockf, j + 1, Len(i_lockf))
<1>10. ASSUME NEW mid PROVE IsFile(S(mid)) /\ S(mid).list = q(mid) /\ S(mid).lf = g
  <2>1. SplitTo(File, j, k, mid, spare, S(mid))
    <3>1. j \in 1..Len(File.list) /\ File.list \in Seq(Locks) /\ File.lf \in [Locks -> Structs]
          /\ spare \in Locks \ {File.list[j]}
      BY <1>3, <1>6, <1>9
    <3> QED
      BY <1>3, <3>1, SplitIs
  <2> HIDE DEF S
  <2> QED
    BY <1>3, <1>6, <1>7, <2>1 DEF SplitTo
<1> HIDE DEF S, g, q
<1>11. CASE /\ state[p] = "splitting_lock"
            /\ Becomes(p, lf_wakelock(lf_split(File, j, k, <<n>>, spare), o), "idle", NOLOCKF)
  <2>1. PICK G : G = lf_wakelock(S(<<n>>), o)
    OBVIOUS
  <2>2. IsFile(G) /\ G.list = q(<<n>>) /\ G.lf = g
    BY <1>6, <1>10, <2>1, WakeIs
  <2>3. k \in Held
    BY <1>5, <1>11 DEF Held, Structs
  <2>4. Start(i_lockf, lf, n, k, j)
    BY <1>1, <1>3, <1>5, <1>6, <2>3 DEF Start, Clearing
  <2>5. Linked(i_lockf, lf, q(<<n>>), g, n, k, spare)
    BY <1>6, <1>7, <1>9, <2>4, PutSplit, Zenon DEF q, g
  <2>6. Linked(i_lockf, lf, G.list, G.lf, n, k, spare)
    BY <2>2, <2>5
  <2>7. Others(p, G.list, G.lf)
    <3>1. Rel(ToSet(i_lockf), lf, ToSet(G.list), G.lf, k, n, spare)
      BY <2>6 DEF Linked
    <3> QED
      BY <1>3, <1>4, <1>5, <1>9, <3>1, OthersStep
  <2>8. Fits(p, G, "idle", NOLOCKF)
    BY <2>2, <2>6, <2>7 DEF Fits, Linked, States
  <2>9. Takes(G, k)
    BY <2>3, <2>6 DEF Takes
  <2>10. Moves(p, G, "idle", NOLOCKF)
    BY <1>5, <1>11, <2>1, <2>8, <2>9 DEF Moves, S
  <2> QED
    BY <2>10
<1>12. CASE /\ state[p] = "splitting_unlock"
            /\ Becomes(p, lf_split(File, j, k, <<>>, spare), "idle", NOLOCKF)
  <2>1. PICK G : G = S(<<>>)
    OBVIOUS
  <2>2. IsFile(G) /\ G.list = q(<<>>) /\ G.lf = g
    BY <1>10, <2>1
  <2>3. /\ LockList(q(<<>>), g) /\ Ord(q(<<>>), g, NOLOCKF) /\ Cleared(q(<<>>), g, k)
        /\ Rel(ToSet(i_lockf), lf, ToSet(q(<<>>)), g, k, NOLOCKF, spare)
    BY <1>6, <1>7, <1>9, ClearSplit, Zenon DEF q, g
  <2>4. Unlinked(i_lockf, lf, G.list, G.lf, k, spare)
    BY <2>2, <2>3 DEF Unlinked
  <2>5. Others(p, G.list, G.lf)
    <3>1. Rel(ToSet(i_lockf), lf, ToSet(G.list), G.lf, k, NOLOCKF, spare)
      BY <2>4 DEF Unlinked
    <3> QED
      BY <1>3, <1>5, <1>9, <3>1, OthersStep
  <2>6. Fits(p, G, "idle", NOLOCKF)
    BY <2>2, <2>4, <2>5 DEF Fits, Unlinked, States
  <2>7. Frees(G, k)
    BY <2>4 DEF Frees
  <2>8. Moves(p, G, "idle", NOLOCKF)
    BY <1>5, <1>12, <2>1, <2>6, <2>7 DEF Moves, S
  <2> QED
    BY <2>8
<1> QED
  BY <1>8, <1>11, <1>12

LEMMA InterruptedMoves ==
  ASSUME IInv, NEW p \in Procs, lf_interrupted(p)
  PROVE  \E G, s, m : /\ Moves(p, G, s, m) /\ Same(G)
                      /\ m # NOLOCKF => G.lf[m] = lf[req[p]]
<1>1. PICK n, start : n = req[p] /\ start = lf_next[n]
  OBVIOUS
<1>2. /\ IsFile(File) /\ File.list = i_lockf /\ File.lf = lf /\ LockList(i_lockf, lf)
      /\ Ord(i_lockf, lf, NOLOCKF) /\ Others(p, i_lockf, lf)
      /\ lf_block \in Pointers /\ lf_next \in Pointers /\ File.block = lf_block
  <2>1. lf_block \in Pointers /\ lf_next \in Pointers
    BY InvIs DEF TypeOK, Pointers
  <2> QED
    BY <2>1, FileIs DEF Starts, File
<1>3. state[p] = "interrupted" /\ n # NOLOCKF /\ Asks(p, i_lockf, lf, state[p], n) /\ n \in Locks
  BY <1>1, InvIs DEF lf_interrupted, Asks
<1> DEFINE walk == IF start = NOLOCKF THEN {} ELSE {start} \cup Blocked(lf_block, start)
<1>4. \/ \E k \in walk : Becomes(p, unblock(k, n), "idle", NOLOCKF)
      \/ Becomes(p, [File EXCEPT !.system = "panic: lost lock"], "interrupted", n)
  BY <1>1 DEF lf_interrupted
<1>5. walk \subseteq Locks
  <2>1. start \in Locks \cup {NOLOCKF}
    BY <1>1, <1>2, <1>3 DEF Pointers
  <2> QED
    BY <1>2, <2>1, BlockedLocks
<1> HIDE DEF walk
<1>6. CASE \E k \in walk : Becomes(p, unblock(k, n), "idle", NOLOCKF)
  <2>1. PICK k \in Locks : Becomes(p, unblock(k, n), "idle", NOLOCKF)
    BY <1>5, <1>6
  <2>2. PICK G : G = unblock(k, n)
    OBVIOUS
  <2>3. IsFile(G) /\ G.list = i_lockf /\ G.lf = lf
    <3>1. PICK R : R = File
      OBVIOUS
    <3>2. G = [R EXCEPT !.block[k] = lf_block[n]]
      BY <2>2, <3>1 DEF unblock
    <3>3. lf_block[n] \in Locks \cup {NOLOCKF}
      BY <1>2, <1>3 DEF Pointers
    <3> QED
      BY <1>2, <3>1, <3>2, <3>3 DEF IsFile, Pointers
  <2>4. Fits(p, G, "idle", NOLOCKF) /\ Same(G)
    BY <1>2, <2>3 DEF Fits, Same, States
  <2>5. Moves(p, G, "idle", NOLOCKF)
    BY <2>1, <2>2, <2>4 DEF Moves
  <2> QED
    BY <2>4, <2>5
<1>7. CASE Becomes(p, [File EXCEPT !.system = "panic: lost lock"], "interrupted", n)
  <2>1. PICK G : G = [File EXCEPT !.system = "panic: lost lock"]
    OBVIOUS
  <2>2. IsFile(G) /\ G.list = i_lockf /\ G.lf = lf
    <3>1. PICK R : R = File
      OBVIOUS
    <3> QED
      BY <1>2, <2>1, <3>1 DEF IsFile, Outcomes
  <2>3. Fits(p, G, "interrupted", n) /\ Same(G)
    BY <1>2, <1>3, <2>2 DEF Fits, Same, States, Asks
  <2>4. Moves(p, G, "interrupted", n)
    BY <1>7, <2>1, <2>3 DEF Moves
  <2> QED
    BY <1>1, <2>2, <2>3, <2>4
<1> QED
  BY <1>4, <1>6, <1>7

LEMMA SignalInv ==
  ASSUME IInv, NEW p \in Procs, psignal(p)
  PROVE  /\ IInv' /\ UNCHANGED <<i_lockf, lf, req>>
         /\ \A q \in Procs : state'[q] = "sleeping" => state[q] = "sleeping"
         /\ \A q \in Procs : state'[q] \in {"splitting_lock", "splitting_unlock"} => state'[q] = state[q]
<1>1. /\ UNCHANGED <<i_lockf, lf, lf_block, lf_next, req, system>>
      /\ state[p] \in {"sleeping", "awakened"}
      /\ \E s \in {"interrupted", "awakened"} : state' = [state EXCEPT ![p] = s]
  BY DEF psignal
<1>2. TypeOK /\ state \in [Procs -> States]
  BY InvIs DEF TypeOK
<1>3. /\ state' \in [Procs -> States]
      /\ \A q \in Procs : \/ state'[q] = state[q]
                          \/ /\ state[q] \in {"sleeping", "awakened"}
                             /\ state'[q] \in {"interrupted", "awakened"}
  BY <1>1, <1>2 DEF States
<1>4. TypeOK'
  BY <1>1, <1>2, <1>3 DEF TypeOK
<1>5. RequestsOwned' /\ LocksHeld' /\ OwnLocksOrdered' /\ SplitPending'
  <2>1. RequestsOwned'
    BY <1>1, <1>3 DEF IInv, RequestsOwned, Proper
  <2>2. LocksHeld' /\ OwnLocksOrdered'
    BY <1>1 DEF IInv, LocksHeld, OwnLocksOrdered, Proper
  <2>3. SplitPending'
    BY <1>1, <1>3 DEF IInv, SplitPending
  <2> QED
    BY <2>1, <2>2, <2>3
<1> QED
  BY <1>1, <1>3, <1>4, <1>5 DEF IInv

\* Every step is a move, or a signal.
LEMMA NextMoves ==
  ASSUME IInv, Next
  PROVE  \E p \in Procs : psignal(p) \/ \E G, s, m : Moves(p, G, s, m)
<1>1. PICK p \in Procs :
       \/ \E t \in Requested, r \in Ranges(p) : lf_setlock(p, t, r)
       \/ \E r \in Ranges(p) : lf_clearlock(p, r)
       \/ retry(p)
       \/ malloc_wakes(p)
       \/ psignal(p)
       \/ lf_interrupted(p)
  BY DEF Next
<1> QED
  BY <1>1, SetlockMoves, ClearlockMoves, RetryMoves, WakesMoves, InterruptedMoves

LEMMA InvNext == IInv /\ [Next]_vars => IInv'
<1> SUFFICES ASSUME IInv, [Next]_vars PROVE IInv'
  OBVIOUS
<1>1. CASE Next
  <2>1. PICK p \in Procs : psignal(p) \/ \E G, s, m : Moves(p, G, s, m)
    BY <1>1, NextMoves
  <2>2. CASE psignal(p)
    BY <2>2, SignalInv
  <2>3. CASE \E G, s, m : Moves(p, G, s, m)
    <3>1. PICK G, s, m : Fits(p, G, s, m) /\ Becomes(p, G, s, m)
      BY <2>3 DEF Moves
    <3> QED
      BY <3>1, StepInv
  <2> QED
    BY <2>1, <2>2, <2>3
<1>2. CASE UNCHANGED vars
  BY <1>2 DEF vars, IInv, TypeOK, RequestsOwned, LocksHeld, OwnLocksOrdered, SplitPending, Proper
<1> QED
  BY <1>1, <1>2

LEMMA InvInit == Init => IInv
<1> SUFFICES ASSUME Init PROVE IInv
  OBVIOUS
<1>1. /\ i_lockf = <<>> /\ ToSet(i_lockf) = {} /\ DOMAIN i_lockf = {}
      /\ i_lockf \in Seq(Locks) /\ IsInjective(i_lockf)
  BY DEF Init, ToSet, IsInjective
<1>2. TypeOK
  BY <1>1, FreeIs DEF Init, TypeOK, States, Outcomes
<1>3. RequestsOwned /\ LocksHeld /\ OwnLocksOrdered /\ SplitPending
  BY <1>1 DEF Init, RequestsOwned, LocksHeld, OwnLocksOrdered, SplitPending
<1> QED
  BY <1>2, <1>3 DEF IInv

-----------------------------------------------------------------------------
(* The theorems.                                                           *)

\* The inductive invariant: the list and the requests of its owners are as
\* lf_setlock, lf_clearlock and lf_split leave them (ufs_lockf.c:82, 300 and
\* 569), whatever signals and sleeps of malloc come between.
THEOREM Invariance == Spec => []IInv
<1>1. Init => IInv
  BY InvInit
<1>2. IInv /\ [Next]_vars => IInv'
  BY InvNext
<1> QED
  BY <1>1, <1>2, PTL DEF Spec

\* The variables stay in their types: a list without repetitions.
THEOREM TypeCorrect == Spec => []TypeOK
<1>1. IInv => TypeOK
  BY DEF IInv
<1> QED
  BY <1>1, Invariance, PTL

\* No overlap hides behind the lock where lf_findoverlap gives up
\* (ufs_lockf.c:491): the locks of each owner stay disjoint and ordered, in
\* every sequence of sets, splits and clears of any owners.
THEOREM OwnersOrdered == Spec => []OwnLocksOrdered
<1>1. IInv => OwnLocksOrdered
  BY DEF IInv
<1> QED
  BY <1>1, Invariance, PTL

-----------------------------------------------------------------------------
(* The list of locks implements locking of bytes.                          *)

\* A byte is locked as the one lock says that covers it.
LEMMA OwnIs ==
  ASSUME NEW L, NEW f, LockList(L, f), Ord(L, f, NOLOCKF), NEW p \in Procs, NEW b \in Bytes
  PROVE  ByteIs(Own(L, f)[p][b], ToSet(L), f, p, b)
<1> DEFINE over == {k \in ToSet(L) : /\ f[k].lf_id = p /\ f[k].lf_start <= b
                                     /\ f[k].lf_end = EOF \/ b <= f[k].lf_end}
           v == IF over = {} THEN "F_UNLCK" ELSE f[CHOOSE k \in over : TRUE].lf_type
<1>1. Own(L, f)[p][b] = v
  BY DEF Own
<1>2. b \in Int /\ 0 <= b /\ b <= MaxOff + 1
  BY BoundsNat DEF Bytes
<1>3. \A k \in ToSet(L) : f[k] \in Held /\ f[k].lf_type \in Types
  BY DEF LockList, Held
<1>4. \A k \in ToSet(L) : (f[k].lf_end = EOF \/ b <= f[k].lf_end) <=> b <= Hi(f[k])
  <2> TAKE k \in ToSet(L)
  <2>1. PICK l : l = f[k]
    OBVIOUS
  <2>2. l \in Structs
    BY <1>3, <2>1 DEF Held
  <2>3. (l.lf_end = EOF \/ b <= l.lf_end) <=> b <= Hi(l)
    BY <1>2, <2>2, StructIs
  <2> QED
    BY <2>1, <2>3
<1>5. over = {k \in ToSet(L) : f[k].lf_id = p /\ Covers(f[k], b)}
  BY <1>4 DEF Covers
<1> HIDE DEF over
<1>6. ASSUME NEW c \in over, NEW d \in over PROVE c = d
  <2>1. PICK i \in 1..Len(L), j \in 1..Len(L) : c = L[i] /\ d = L[j]
    BY <1>5, ListIs
  <2>2. /\ L[i] # NOLOCKF /\ L[j] # NOLOCKF /\ f[c].lf_id = f[d].lf_id
        /\ Covers(f[c], b) /\ Covers(f[d], b)
        /\ f[c].lf_start \in Int /\ f[d].lf_start \in Int /\ Hi(f[c]) \in Int /\ Hi(f[d]) \in Int
    BY <1>5, <2>1, ListIs
  <2>3. ~ (i < j)
    BY <1>2, <2>1, <2>2 DEF Ord, Clear, Covers
  <2>4. ~ (j < i)
    BY <1>2, <2>1, <2>2 DEF Ord, Clear, Covers
  <2>5. i = j
    BY <2>3, <2>4
  <2> QED
    BY <2>1, <2>5
<1>7. CASE over = {}
  <2>1. \A t \in Types : ~ Has(ToSet(L), f, p, b, t)
    BY <1>5, <1>7 DEF Has
  <2> QED
    BY <1>1, <1>7, <2>1 DEF ByteIs, Types
<1>8. CASE over # {}
  <2>1. PICK c \in over : v = f[c].lf_type
    BY <1>8
  <2>2. \A t \in Types : v = t <=> Has(ToSet(L), f, p, b, t)
    BY <1>5, <1>6, <2>1 DEF Has
  <2>3. v \in Types
    BY <1>3, <1>5, <2>1
  <2> QED
    BY <1>1, <2>2, <2>3 DEF ByteIs
<1> QED
  BY <1>7, <1>8

LEMMA OwnBytes ==
  ASSUME NEW L, NEW f, NEW M, NEW g, LockList(L, f), Ord(L, f, NOLOCKF),
         LockList(M, g), Ord(M, g, NOLOCKF), NEW p \in Procs, NEW b \in Bytes,
         \A t \in Types : Has(ToSet(L), f, p, b, t) <=> Has(ToSet(M), g, p, b, t)
  PROVE  Own(L, f)[p][b] = Own(M, g)[p][b]
<1>1. ByteIs(Own(L, f)[p][b], ToSet(L), f, p, b) /\ ByteIs(Own(M, g)[p][b], ToSet(M), g, p, b)
  BY OwnIs
<1> QED
  BY <1>1 DEF ByteIs

LEMMA OwnLocked ==
  ASSUME NEW L, NEW f, LockList(L, f), Ord(L, f, NOLOCKF), NEW k \in Held, NEW b \in Bytes,
         Locked(L, f, k), Covers(k, b)
  PROVE  Own(L, f)[k.lf_id][b] = k.lf_type
<1>1. k.lf_id \in Procs /\ k.lf_type \in Types /\ k.lf_start \in Int /\ Hi(k) \in Int /\ b \in Int
  BY HeldIs, BoundsNat DEF Bytes
<1>2. PICK c \in ToSet(L) : /\ f[c].lf_id = k.lf_id /\ f[c].lf_type = k.lf_type
                            /\ f[c].lf_start <= k.lf_start /\ Hi(k) <= Hi(f[c])
  BY DEF Locked
<1>3. f[c].lf_start \in Int /\ Hi(f[c]) \in Int
  BY HeldIs DEF LockList
<1>4. Covers(f[c], b)
  BY <1>1, <1>2, <1>3 DEF Covers
<1>5. Has(ToSet(L), f, k.lf_id, b, k.lf_type)
  BY <1>2, <1>4 DEF Has
<1> QED
  BY <1>1, <1>5, OwnIs DEF ByteIs

LEMMA OwnCleared ==
  ASSUME NEW L, NEW f, LockList(L, f), Ord(L, f, NOLOCKF), NEW k \in Structs, Proper(k),
         NEW b \in Bytes, Cleared(L, f, k), Covers(k, b)
  PROVE  Own(L, f)[k.lf_id][b] = "F_UNLCK"
<1>1. k.lf_id \in Procs /\ k.lf_start \in Int /\ Hi(k) \in Int /\ b \in Int
  BY StructIs, BoundsNat DEF Bytes, Proper
<1>2. ASSUME NEW t \in Types PROVE ~ Has(ToSet(L), f, k.lf_id, b, t)
  <2> SUFFICES ASSUME NEW c \in ToSet(L), f[c].lf_id = k.lf_id, Covers(f[c], b) PROVE FALSE
    BY DEF Has
  <2>1. f[c].lf_start \in Int /\ Hi(f[c]) \in Int
    BY HeldIs DEF LockList
  <2>2. Hi(f[c]) < k.lf_start \/ Hi(k) < f[c].lf_start
    BY DEF Cleared
  <2> QED
    BY <1>1, <2>1, <2>2 DEF Covers
<1> QED
  BY <1>1, <1>2, OwnIs DEF ByteIs

\* What each kind of move does to the bytes: for the others nothing.
LEMMA OwnOthers ==
  ASSUME IInv, NEW p \in Procs, NEW L, NEW f, LockList(L, f), Ord(L, f, NOLOCKF), Others(p, L, f),
         NEW q \in Procs \ {p}, NEW b \in Bytes
  PROVE  Own(L, f)[q][b] = own[q][b]
<1>1. LockList(i_lockf, lf) /\ Ord(i_lockf, lf, NOLOCKF) /\ own = Own(i_lockf, lf)
  BY InvIs DEF own, Own
<1>2. \A t \in Types : Has(ToSet(L), f, q, b, t) <=> Has(ToSet(i_lockf), lf, q, b, t)
  BY DEF Others, Has
<1> QED
  BY <1>1, <1>2, OwnBytes

LEMMA OwnSame ==
  ASSUME IInv, NEW F, Same(F), LockList(F.list, F.lf), Ord(F.list, F.lf, NOLOCKF),
         NEW p \in Procs, NEW b \in Bytes
  PROVE  Own(F.list, F.lf)[p][b] = own[p][b]
<1>1. LockList(i_lockf, lf) /\ Ord(i_lockf, lf, NOLOCKF) /\ own = Own(i_lockf, lf)
  BY InvIs DEF own, Own
<1>2. \A t \in Types : Has(ToSet(F.list), F.lf, p, b, t) <=> Has(ToSet(i_lockf), lf, p, b, t)
  BY DEF Same, Has
<1> QED
  BY <1>1, <1>2, OwnBytes

LEMMA OwnFrees ==
  ASSUME IInv, NEW p \in Procs, NEW k, Wants(p, k), NEW F, Frees(F, k), NEW b \in Bytes
  PROVE  Own(F.list, F.lf)[p][b] = IF b \in Ranged(k) THEN "F_UNLCK" ELSE own[p][b]
<1>1. LockList(i_lockf, lf) /\ Ord(i_lockf, lf, NOLOCKF) /\ own = Own(i_lockf, lf)
  BY InvIs DEF own, Own
<1>2. PICK e, spare : /\ \A c \in ToSet(i_lockf) : e[c] = lf[c]
                      /\ Unlinked(i_lockf, e, F.list, F.lf, k, spare)
  BY DEF Frees
<1>3. /\ LockList(F.list, F.lf) /\ Ord(F.list, F.lf, NOLOCKF) /\ Cleared(F.list, F.lf, k)
      /\ Rel(ToSet(i_lockf), e, ToSet(F.list), F.lf, k, NOLOCKF, spare)
      /\ k \in Structs /\ Proper(k) /\ k.lf_id = p /\ b \in Int
  BY <1>2, BoundsNat DEF Unlinked, Wants, Bytes
<1>4. CASE Covers(k, b)
  <2>1. Own(F.list, F.lf)[k.lf_id][b] = "F_UNLCK"
    BY <1>3, <1>4, OwnCleared
  <2> QED
    BY <1>3, <1>4, <2>1 DEF Ranged
<1>5. CASE ~ Covers(k, b)
  <2>1. \A t \in Types : Has(ToSet(F.list), F.lf, p, b, t) <=> Has(ToSet(i_lockf), e, p, b, t)
    BY <1>3, <1>5 DEF Rel
  <2>2. \A t \in Types : Has(ToSet(i_lockf), e, p, b, t) <=> Has(ToSet(i_lockf), lf, p, b, t)
    BY <1>2 DEF Has
  <2>3. Own(F.list, F.lf)[p][b] = own[p][b]
    BY <1>1, <1>3, <2>1, <2>2, OwnBytes
  <2> QED
    BY <1>5, <2>3 DEF Ranged
<1> QED
  BY <1>4, <1>5

LEMMA OwnTakes ==
  ASSUME IInv, NEW p \in Procs, NEW k, Wants(p, k), NEW F, Takes(F, k), NEW b \in Bytes
  PROVE  Own(F.list, F.lf)[p][b] = IF b \in Ranged(k) THEN k.lf_type ELSE own[p][b]
<1>1. LockList(i_lockf, lf) /\ Ord(i_lockf, lf, NOLOCKF) /\ own = Own(i_lockf, lf)
  BY InvIs DEF own, Own
<1>2. PICK e, n, spare : /\ k \in Held /\ \A c \in ToSet(i_lockf) : e[c] = lf[c]
                         /\ Linked(i_lockf, e, F.list, F.lf, n, k, spare)
  BY DEF Takes
<1>3. /\ LockList(F.list, F.lf) /\ Ord(F.list, F.lf, NOLOCKF) /\ Locked(F.list, F.lf, k)
      /\ Rel(ToSet(i_lockf), e, ToSet(F.list), F.lf, k, n, spare)
      /\ k.lf_id = p /\ b \in Int
  BY <1>2, BoundsNat DEF Linked, Wants, Bytes
<1>4. CASE Covers(k, b)
  <2>1. Own(F.list, F.lf)[k.lf_id][b] = k.lf_type
    BY <1>2, <1>3, <1>4, OwnLocked
  <2> QED
    BY <1>3, <1>4, <2>1 DEF Ranged
<1>5. CASE ~ Covers(k, b)
  <2>1. \A t \in Types : Has(ToSet(F.list), F.lf, p, b, t) <=> Has(ToSet(i_lockf), e, p, b, t)
    BY <1>3, <1>5 DEF Rel
  <2>2. \A t \in Types : Has(ToSet(i_lockf), e, p, b, t) <=> Has(ToSet(i_lockf), lf, p, b, t)
    BY <1>2 DEF Has
  <2>3. Own(F.list, F.lf)[p][b] = own[p][b]
    BY <1>1, <1>3, <2>1, <2>2, OwnBytes
  <2> QED
    BY <1>5, <2>3 DEF Ranged
<1> QED
  BY <1>4, <1>5

\* What lf_getblock lets through does not conflict with any byte of the others.
LEMMA Unopposing ==
  ASSUME IInv, NEW k \in Held, Unopposed(k), NEW q \in Procs \ {k.lf_id}, NEW b \in Ranged(k)
  PROVE  B!Compatible(k.lf_type, own[q][b])
<1>1. LockList(i_lockf, lf) /\ Ord(i_lockf, lf, NOLOCKF) /\ own = Own(i_lockf, lf)
  BY InvIs DEF own, Own
<1>2. b \in Bytes /\ Covers(k, b) /\ k.lf_start \in Int /\ Hi(k) \in Int /\ b \in Int /\ k \in Structs
      /\ Proper(k) /\ k.lf_type \in Types
  BY HeldIs, BoundsNat DEF Ranged, Bytes
<1>3. ByteIs(own[q][b], ToSet(i_lockf), lf, q, b)
  BY <1>1, <1>2, OwnIs
<1>4. CASE own[q][b] \in Types
  <2>1. PICK c \in ToSet(i_lockf) : /\ lf[c].lf_id = q /\ Covers(lf[c], b)
                                    /\ lf[c].lf_type = own[q][b]
    BY <1>3, <1>4 DEF ByteIs, Has
  <2>2. lf[c] \in Held /\ lf[c] \in Structs /\ Proper(lf[c])
        /\ lf[c].lf_start \in Int /\ Hi(lf[c]) \in Int
    BY <1>1, <2>1, HeldIs DEF LockList
  <2>3. ~ (Hi(lf[c]) < k.lf_start \/ Hi(k) < lf[c].lf_start)
    BY <1>2, <2>1, <2>2 DEF Covers
  <2>4. ovcase(lf[c], k) # 0
    BY <1>2, <2>2, <2>3, Cases
  <2>5. "F_WRLCK" \notin {lf[c].lf_type, k.lf_type}
    BY <2>1, <2>4 DEF Unopposed
  <2> QED
    BY <1>2, <1>4, <2>1, <2>5 DEF Types, B!Compatible
<1>5. CASE own[q][b] = "F_UNLCK"
  BY <1>5 DEF B!Compatible
<1> QED
  BY <1>3, <1>4, <1>5 DEF ByteIs

LEMMA OwnAgrees ==
  ASSUME NEW L, NEW f, NEW g, \A k \in ToSet(L) : f[k] = g[k]
  PROVE  Own(L, f) = Own(L, g)
<1> DEFINE over(h, p, b) == {k \in ToSet(L) : /\ h[k].lf_id = p /\ h[k].lf_start <= b
                                              /\ h[k].lf_end = EOF \/ b <= h[k].lf_end}
           v(h, p, b) == IF over(h, p, b) = {} THEN "F_UNLCK"
                         ELSE h[CHOOSE k \in over(h, p, b) : TRUE].lf_type
<1>1. ASSUME NEW p, NEW b PROVE v(f, p, b) = v(g, p, b)
  <2>1. over(f, p, b) = over(g, p, b) /\ over(f, p, b) \subseteq ToSet(L)
    OBVIOUS
  <2> HIDE DEF over
  <2> QED
    BY <2>1
<1>2. Own(L, f) = [p \in Procs |-> [b \in Bytes |-> v(f, p, b)]]
  BY DEF Own
<1>3. Own(L, g) = [p \in Procs |-> [b \in Bytes |-> v(g, p, b)]]
  BY DEF Own
<1> HIDE DEF v
<1> QED
  BY <1>1, <1>2, <1>3

LEMMA ChangeIs ==
  ASSUME NEW L, NEW f, NEW p \in Procs, NEW t, NEW R, BytesAre(L, f, p, R, t)
  PROVE  Own(L, f) = SetBytes(own, p, R, t)
<1>0. /\ \A q \in Procs \ {p}, b \in Bytes : Own(L, f)[q][b] = own[q][b]
      /\ \A b \in Bytes : Own(L, f)[p][b] = IF b \in R THEN t ELSE own[p][b]
  BY DEF BytesAre
<1>1. PICK v : v = Own(L, f)
  OBVIOUS
<1>2. v = [q \in Procs |-> [b \in Bytes |-> v[q][b]]]
  BY <1>1 DEF Own
<1>3. own = [q \in Procs |-> [b \in Bytes |-> own[q][b]]]
  BY DEF own
<1>4. PICK w : w = own
  OBVIOUS
<1>5. \A q \in Procs \ {p} : v[q] = w[q]
  BY <1>0, <1>1, <1>2, <1>3, <1>4
<1>6. v[p] = [b \in Bytes |-> IF b \in R THEN t ELSE w[p][b]]
  BY <1>0, <1>1, <1>2, <1>4
<1>7. v = [w EXCEPT ![p] = [b \in Bytes |-> IF b \in R THEN t ELSE @[b]]]
  BY <1>2, <1>3, <1>4, <1>5, <1>6
<1>8. v = SetBytes(w, p, R, t)
  BY <1>7 DEF SetBytes
<1> QED
  BY <1>1, <1>4, <1>8

\* The bytes after a step of p.
LEMMA MovedBytes ==
  ASSUME IInv, NEW p \in Procs, NEW F, NEW s, NEW n, Fits(p, F, s, n), Becomes(p, F, s, n)
  PROVE  /\ own' = Own(F.list, F.lf)
         /\ \A q \in Procs \ {p}, b \in Bytes : Own(F.list, F.lf)[q][b] = own[q][b]
         /\ Same(F) => own' = own
<1>1. /\ LockList(F.list, F.lf) /\ Ord(F.list, F.lf, NOLOCKF) /\ Others(p, F.list, F.lf)
  BY DEF Fits
<1>2. own' = Own(F.list, F.lf)
  <2>1. i_lockf' = F.list /\ \A c \in ToSet(F.list) : lf'[c] = F.lf[c]
    BY BecomesIs
  <2>2. own' = Own(i_lockf', lf')
    BY DEF own, Own, Bytes
  <2> QED
    BY <2>1, <2>2, OwnAgrees
<1>3. \A q \in Procs \ {p}, b \in Bytes : Own(F.list, F.lf)[q][b] = own[q][b]
  BY <1>1, OwnOthers
<1>4. ASSUME Same(F) PROVE Own(F.list, F.lf) = own
  <2>1. PICK L, f : L = F.list /\ f = F.lf
    OBVIOUS
  <2>2. L = i_lockf /\ \A c \in ToSet(L) : f[c] = lf[c]
    BY <1>4, <2>1 DEF Same
  <2>3. Own(L, f) = Own(L, lf)
    BY <2>2, OwnAgrees
  <2>4. own = Own(i_lockf, lf)
    BY DEF own, Own
  <2> QED
    BY <2>1, <2>2, <2>3, <2>4
<1> QED
  BY <1>2, <1>3, <1>4

LEMMA SpanIs ==
  ASSUME NEW k \in Structs, Proper(k)
  PROVE  Span(k) = Ranged(k) /\ Span(k) \in B!Intervals
<1>1. /\ k.lf_start \in Int /\ 0 <= k.lf_start /\ k.lf_start <= Hi(k) /\ Hi(k) \in Int
      /\ Hi(k) <= MaxOff + 1 /\ MaxOff \in Nat
  BY StructIs
<1>2. ASSUME NEW b \in Bytes PROVE (k.lf_end = EOF \/ b <= k.lf_end) <=> b <= Hi(k)
  <2>1. b \in Int /\ b <= MaxOff + 1
    BY <1>1 DEF Bytes
  <2> QED
    BY <1>1, <2>1, StructIs
<1>3. Span(k) = Ranged(k)
  BY <1>2 DEF Span, Ranged, Covers
<1>4. Ranged(k) = {b \in Bytes : k.lf_start <= b /\ b <= Hi(k)}
  BY DEF Ranged, Covers
<1>5. k.lf_start \in Bytes /\ Hi(k) \in Bytes
  BY <1>1 DEF Bytes
<1> QED
  BY <1>3, <1>4, <1>5 DEF B!Intervals

\* What lf_getblock stops at conflicts with a byte of somebody else.
LEMMA Opposing ==
  ASSUME IInv, NEW k \in Structs, Proper(k), k.lf_type # "F_UNLCK", ~ Unopposed(k)
  PROVE  \E q \in Procs \ {k.lf_id}, b \in Ranged(k) : ~ B!Compatible(k.lf_type, own[q][b])
<1>1. LockList(i_lockf, lf) /\ Ord(i_lockf, lf, NOLOCKF) /\ own = Own(i_lockf, lf)
  BY InvIs DEF own, Own
<1>2. PICK c \in ToSet(i_lockf) : /\ lf[c].lf_id # k.lf_id /\ ovcase(lf[c], k) # 0
                                  /\ "F_WRLCK" \in {lf[c].lf_type, k.lf_type}
  BY DEF Unopposed
<1>3. PICK l : l = lf[c]
  OBVIOUS
<1>4. l \in Held /\ l \in Structs /\ Proper(l) /\ l.lf_id \in Procs /\ l.lf_type \in Types
      /\ l.lf_start \in Int /\ 0 <= l.lf_start /\ Hi(l) \in Int /\ l.lf_start <= Hi(l)
      /\ Hi(l) <= MaxOff + 1
  BY <1>1, <1>3, HeldIs DEF LockList
<1>5. k.lf_start \in Int /\ 0 <= k.lf_start /\ Hi(k) \in Int /\ k.lf_start <= Hi(k)
      /\ Hi(k) <= MaxOff + 1 /\ MaxOff \in Nat
  BY StructIs
<1>6. ~ (Hi(l) < k.lf_start \/ Hi(k) < l.lf_start)
  BY <1>2, <1>3, <1>4, Cases
<1>7. \E b \in Bytes : Covers(l, b) /\ Covers(k, b)
  <2>1. CASE l.lf_start <= k.lf_start
    <3>1. k.lf_start \in Bytes /\ Covers(l, k.lf_start) /\ Covers(k, k.lf_start)
      BY <1>4, <1>5, <1>6, <2>1 DEF Covers, Bytes
    <3> QED
      BY <3>1
  <2>2. CASE k.lf_start <= l.lf_start
    <3>1. l.lf_start \in Bytes /\ Covers(l, l.lf_start) /\ Covers(k, l.lf_start)
      BY <1>4, <1>5, <1>6, <2>2 DEF Covers, Bytes
    <3> QED
      BY <3>1
  <2> QED
    BY <1>4, <1>5, <2>1, <2>2
<1>8. PICK b \in Bytes : Covers(l, b) /\ Covers(k, b)
  BY <1>7
<1>9. own[l.lf_id][b] = l.lf_type
  <2>1. Has(ToSet(i_lockf), lf, l.lf_id, b, l.lf_type)
    BY <1>3, <1>8 DEF Has
  <2>2. ByteIs(own[l.lf_id][b], ToSet(i_lockf), lf, l.lf_id, b)
    BY <1>1, <1>4, OwnIs
  <2> QED
    BY <1>4, <2>1, <2>2 DEF ByteIs
<1>10. ~ B!Compatible(k.lf_type, l.lf_type)
  BY <1>2, <1>3, <1>4 DEF B!Compatible, Types
<1> QED
  BY <1>2, <1>3, <1>4, <1>8, <1>9, <1>10 DEF Ranged

\* A request is granted when lf_getblock finds nothing.
LEMMA GrantedIs ==
  ASSUME IInv, NEW p \in Procs, NEW k, Wants(p, k)
  PROVE  B!Granted(p, Span(k), k.lf_type) <=> k.lf_type = "F_UNLCK" \/ Unopposed(k)
<1>1. k \in Structs /\ Proper(k) /\ k.lf_id = p /\ Span(k) = Ranged(k)
  BY SpanIs DEF Wants
<1>2. CASE k.lf_type = "F_UNLCK"
  BY <1>2 DEF B!Granted, B!Compatible
<1>3. CASE k.lf_type # "F_UNLCK" /\ Unopposed(k)
  <2>1. k \in Held
    BY <1>1, <1>3 DEF Held, Structs
  <2>2. \A q \in Procs \ {p}, b \in Ranged(k) : B!Compatible(k.lf_type, own[q][b])
    BY <1>1, <1>3, <2>1, Unopposing
  <2> QED
    BY <1>1, <1>3, <2>2 DEF B!Granted
<1>4. CASE k.lf_type # "F_UNLCK" /\ ~ Unopposed(k)
  <2>1. \E q \in Procs \ {p}, b \in Ranged(k) : ~ B!Compatible(k.lf_type, own[q][b])
    BY <1>1, <1>4, Opposing
  <2> QED
    BY <1>1, <1>4, <2>1 DEF B!Granted
<1> QED
  BY <1>2, <1>3, <1>4

LEMMA FreesBytes ==
  ASSUME IInv, NEW p \in Procs, NEW F, NEW s, NEW n, Moves(p, F, s, n), NEW k, Wants(p, k),
         Frees(F, k)
  PROVE  B!Change(p, Span(k), "F_UNLCK")
<1>1. PICK R : R = Span(k) /\ R = Ranged(k)
  BY SpanIs DEF Wants
<1>2. own' = Own(F.list, F.lf)
      /\ \A q \in Procs \ {p}, b \in Bytes : Own(F.list, F.lf)[q][b] = own[q][b]
  BY MovedBytes DEF Moves
<1>3. \A b \in Bytes : Own(F.list, F.lf)[p][b] = IF b \in R THEN "F_UNLCK" ELSE own[p][b]
  BY <1>1, OwnFrees
<1>4. BytesAre(F.list, F.lf, p, R, "F_UNLCK")
  BY <1>2, <1>3 DEF BytesAre
<1>5. own' = SetBytes(own, p, R, "F_UNLCK")
  BY <1>2, <1>4, ChangeIs
<1> QED
  BY <1>1, <1>5 DEF B!Change, SetBytes

LEMMA TakesBytes ==
  ASSUME IInv, NEW p \in Procs, NEW F, NEW s, NEW n, Moves(p, F, s, n), NEW k, Wants(p, k),
         Takes(F, k)
  PROVE  B!Change(p, Span(k), k.lf_type)
<1>1. PICK R, t : R = Span(k) /\ R = Ranged(k) /\ t = k.lf_type
  BY SpanIs DEF Wants
<1>2. own' = Own(F.list, F.lf)
      /\ \A q \in Procs \ {p}, b \in Bytes : Own(F.list, F.lf)[q][b] = own[q][b]
  BY MovedBytes DEF Moves
<1>3. \A b \in Bytes : Own(F.list, F.lf)[p][b] = IF b \in R THEN t ELSE own[p][b]
  BY <1>1, OwnTakes
<1>4. BytesAre(F.list, F.lf, p, R, t)
  BY <1>2, <1>3 DEF BytesAre
<1>5. own' = SetBytes(own, p, R, t)
  BY <1>2, <1>4, ChangeIs
<1> QED
  BY <1>1, <1>5 DEF B!Change, SetBytes

\* A step that works on a request answers it.
LEMMA ServesBytes ==
  ASSUME IInv, ~ MallocSleeps, NEW p \in Procs, NEW F, NEW s, NEW n, Moves(p, F, s, n),
         NEW k, Wants(p, k), Serves(p, F, k, n)
  PROVE  Answers(p, k)
<1>1. /\ Fits(p, F, s, n) /\ Becomes(p, F, s, n)
      /\ n # NOLOCKF => F.lf[n] = k
  BY DEF Moves, Serves
<1>2. state'[p] # "idle" => lf'[req'[p]] = k
  <2>1. state'[p] = s /\ req'[p] = n /\ (n # NOLOCKF => lf'[n] = F.lf[n])
    BY <1>1, BecomesIs
  <2> QED
    BY <1>1, <2>1 DEF Fits
<1>3. B!Granted(p, Span(k), k.lf_type) <=> k.lf_type = "F_UNLCK" \/ Unopposed(k)
  BY GrantedIs
<1>4. CASE k.lf_type = "F_UNLCK" /\ Frees(F, k)
  <2>1. B!Change(p, Span(k), k.lf_type)
    BY <1>4, FreesBytes
  <2> QED
    BY <1>2, <1>3, <1>4, <2>1 DEF Answers, B!Request
<1>5. CASE k.lf_type # "F_UNLCK" /\ Unopposed(k) /\ Takes(F, k)
  <2>1. B!Change(p, Span(k), k.lf_type)
    BY <1>5, TakesBytes
  <2> QED
    BY <1>2, <1>3, <1>5, <2>1 DEF Answers, B!Request
<1>6. CASE k.lf_type = "F_WRLCK" /\ ~ Unopposed(k) /\ p \in Flocks /\ Frees(F, k)
  <2>1. B!Change(p, Span(k), "F_UNLCK")
    BY <1>6, FreesBytes
  <2> QED
    BY <1>2, <1>3, <1>6, <2>1 DEF Answers, B!Request
<1>7. CASE /\ k.lf_type # "F_UNLCK" /\ ~ Unopposed(k) /\ Same(F)
           /\ p \in Flocks => k.lf_type # "F_WRLCK"
  <2>1. own' = own
    BY <1>1, <1>7, MovedBytes
  <2> QED
    BY <1>2, <1>3, <1>7, <2>1 DEF Answers, B!Request
<1> QED
  BY <1>4, <1>5, <1>6, <1>7 DEF Serves

LEMMA SetlockAnswers ==
  ASSUME IInv, ~ MallocSleeps, NEW p \in Procs, NEW t \in Requested, NEW r \in Ranges(p),
         lf_setlock(p, t, r)
  PROVE  Answers(p, Lock(p, t, r))
<1>1. PICK k : k = Lock(p, t, r)
  OBVIOUS
<1>2. PICK G, s, m : Moves(p, G, s, m) /\ Serves(p, G, k, m)
  BY <1>1, SetlockMoves
<1>3. Wants(p, k)
  BY <1>1, TypesAsked, LockIs DEF Types
<1>4. Answers(p, k)
  BY <1>2, <1>3, ServesBytes
<1> QED
  BY <1>1, <1>4

LEMMA ClearlockAnswers ==
  ASSUME IInv, ~ MallocSleeps, NEW p \in Procs, NEW r \in Ranges(p), lf_clearlock(p, r)
  PROVE  Answers(p, Lock(p, "F_UNLCK", r))
<1>1. PICK k : k = Lock(p, "F_UNLCK", r)
  OBVIOUS
<1>2. PICK G, s, m : Moves(p, G, s, m) /\ Serves(p, G, k, m)
  BY <1>1, ClearlockMoves
<1>3. Wants(p, k)
  BY <1>1, LockIs
<1>4. Answers(p, k)
  BY <1>2, <1>3, ServesBytes
<1> QED
  BY <1>1, <1>4

LEMMA RetryAnswers ==
  ASSUME IInv, ~ MallocSleeps, NEW p \in Procs, retry(p)
  PROVE  Answers(p, lf[req[p]]) /\ Wants(p, lf[req[p]])
<1>1. PICK k : k = lf[req[p]]
  OBVIOUS
<1>2. PICK G, s, m : Moves(p, G, s, m) /\ Serves(p, G, k, m)
  BY <1>1, RetryMoves
<1>3. Wants(p, k)
  <2>1. state[p] = "awakened"
    BY DEF retry
  <2>2. Asks(p, i_lockf, lf, state[p], req[p]) /\ lf \in [Locks -> Structs]
    BY <2>1, InvIs DEF TypeOK
  <2> QED
    BY <1>1, <2>2 DEF Asks, Wants
<1>4. Answers(p, k)
  BY <1>2, <1>3, ServesBytes
<1> QED
  BY <1>1, <1>3, <1>4

LEMMA InterruptedKeeps ==
  ASSUME IInv, NEW p \in Procs, lf_interrupted(p)
  PROVE  UNCHANGED own
<1>1. PICK G, s, m : Moves(p, G, s, m) /\ Same(G)
  BY InterruptedMoves
<1> QED
  BY <1>1, MovedBytes DEF Moves

LEMMA SignalKeeps ==
  ASSUME IInv, NEW p \in Procs, psignal(p)
  PROVE  UNCHANGED own /\ RequestsKept
<1>1. UNCHANGED <<i_lockf, lf, req>>
  BY SignalInv
<1> QED
  BY <1>1 DEF own, Bytes, RequestsKept

\* Without a malloc that sleeps no lock is split across a sleep.
LEMMA SplittingNext ==
  ASSUME IInv, NoSplitting, ~ MallocSleeps, [Next]_vars
  PROVE  NoSplitting'
<1>1. CASE Next
  <2>1. PICK p \in Procs : psignal(p) \/ \E G, s, m : Moves(p, G, s, m)
    BY <1>1, NextMoves
  <2>2. CASE psignal(p)
    BY <2>2, SignalInv DEF NoSplitting
  <2>3. CASE \E G, s, m : Moves(p, G, s, m)
    <3>1. PICK G, s, m : /\ Fits(p, G, s, m) /\ Becomes(p, G, s, m)
                         /\ s \notin {"splitting_lock", "splitting_unlock"}
      BY <2>3 DEF Moves
    <3>2. /\ state'[p] = s
          /\ \A q \in Procs \ {p} : state'[q] = state[q] \/ state'[q] = "awakened"
      BY <3>1, BecomesIs
    <3> QED
      BY <3>1, <3>2 DEF NoSplitting
  <2> QED
    BY <2>1, <2>2, <2>3
<1>2. CASE UNCHANGED vars
  BY <1>2 DEF vars, NoSplitting
<1> QED
  BY <1>1, <1>2

\* The requests of the others stay what they were.
LEMMA OthersKept ==
  ASSUME IInv, NEW p \in Procs, NEW G, NEW s, NEW m, Moves(p, G, s, m),
         state[p] = "idle" \/ (m # NOLOCKF => G.lf[m] = lf[req[p]])
  PROVE  RequestsKept
<1>1. /\ Fits(p, G, s, m) /\ Becomes(p, G, s, m) /\ Others(p, G.list, G.lf)
      /\ s = "idle" <=> m = NOLOCKF
  BY DEF Moves, Fits
<1>2. /\ req'[p] = m /\ state'[p] = s /\ (m # NOLOCKF => lf'[m] = G.lf[m])
      /\ \A q \in Procs \ {p} : /\ req'[q] = req[q]
                                /\ req[q] # NOLOCKF => lf'[req[q]] = G.lf[req[q]]
  BY <1>1, BecomesIs
<1>3. ASSUME NEW q \in Procs, state[q] # "idle", state'[q] # "idle"
      PROVE  lf'[req'[q]] = lf[req[q]]
  <2>1. req[q] # NOLOCKF
    BY <1>3, InvIs
  <2>2. CASE q = p
    BY <1>1, <1>2, <1>3, <2>2
  <2>3. CASE q # p
    BY <1>1, <1>2, <2>1, <2>3 DEF Others
  <2> QED
    BY <2>2, <2>3
<1> QED
  BY <1>3 DEF RequestsKept

LEMMA AnswersNext ==
  ASSUME IInv, ~ MallocSleeps, NEW p \in Procs, NEW k, Wants(p, k), Answers(p, k)
  PROVE  [B!Next]_own
<1>1. k \in Structs /\ Proper(k)
  BY DEF Wants
<1>2. Span(k) \in B!Intervals /\ k.lf_type \in B!LockTypes
  BY <1>1, SpanIs DEF Structs, Types, B!LockTypes
<1> QED
  BY <1>2 DEF Answers, B!Next

\* Each step answers the request it works on, and no other.
LEMMA BytesNext ==
  ASSUME IInv, NoSplitting, ~ MallocSleeps, [Next]_vars
  PROVE  [B!Next]_own /\ [EachAnswers]_vars
<1>1. \A p \in Procs :
       /\ \A t \in Requested, r \in Ranges(p) : lf_setlock(p, t, r) => Answers(p, Lock(p, t, r))
       /\ \A r \in Ranges(p) : lf_clearlock(p, r) => Answers(p, Lock(p, "F_UNLCK", r))
       /\ retry(p) => Answers(p, lf[req[p]])
       /\ psignal(p) \/ lf_interrupted(p) => UNCHANGED own
  BY SetlockAnswers, ClearlockAnswers, RetryAnswers, SignalKeeps, InterruptedKeeps
<1>2. CASE UNCHANGED vars
  BY <1>2 DEF vars, own, Bytes
<1>3. CASE Next
  <2>1. PICK p \in Procs :
       \/ \E t \in Requested, r \in Ranges(p) : lf_setlock(p, t, r)
       \/ \E r \in Ranges(p) : lf_clearlock(p, r)
       \/ retry(p)
       \/ malloc_wakes(p)
       \/ psignal(p)
       \/ lf_interrupted(p)
    BY <1>3 DEF Next
  <2>2. [B!Next]_own /\ RequestsKept
    <3>1. ASSUME NEW t \in Requested, NEW r \in Ranges(p), lf_setlock(p, t, r)
          PROVE  [B!Next]_own /\ RequestsKept
      <4>1. Wants(p, Lock(p, t, r))
        BY TypesAsked, LockIs DEF Types
      <4>2. Answers(p, Lock(p, t, r))
        BY <3>1, SetlockAnswers
      <4>3. state[p] = "idle"
        BY <3>1 DEF lf_setlock
      <4>4. \E G, s, m : Moves(p, G, s, m)
        BY <3>1, SetlockMoves
      <4>5. [B!Next]_own
        BY <4>1, <4>2, AnswersNext
      <4> QED
        BY <4>3, <4>4, <4>5, OthersKept
    <3>2. ASSUME NEW r \in Ranges(p), lf_clearlock(p, r)
          PROVE  [B!Next]_own /\ RequestsKept
      <4>1. Wants(p, Lock(p, "F_UNLCK", r))
        BY LockIs
      <4>2. Answers(p, Lock(p, "F_UNLCK", r))
        BY <3>2, ClearlockAnswers
      <4>3. state[p] = "idle"
        BY <3>2 DEF lf_clearlock
      <4>4. \E G, s, m : Moves(p, G, s, m)
        BY <3>2, ClearlockMoves
      <4>5. [B!Next]_own
        BY <4>1, <4>2, AnswersNext
      <4> QED
        BY <4>3, <4>4, <4>5, OthersKept
    <3>3. CASE retry(p)
      <4>1. PICK G, s, m : Moves(p, G, s, m) /\ Serves(p, G, lf[req[p]], m)
        BY <3>3, RetryMoves
      <4>2. RequestsKept
        BY <4>1, OthersKept DEF Serves
      <4>3. [B!Next]_own
        BY <3>3, RetryAnswers, AnswersNext
      <4> QED
        BY <4>2, <4>3
    <3>4. CASE malloc_wakes(p)
      BY <3>4 DEF malloc_wakes, NoSplitting
    <3>5. CASE psignal(p)
      BY <3>5, SignalKeeps
    <3>6. CASE lf_interrupted(p)
      <4>1. PICK G, s, m : Moves(p, G, s, m) /\ (m # NOLOCKF => G.lf[m] = lf[req[p]])
        BY <3>6, InterruptedMoves
      <4> QED
        BY <3>6, <4>1, OthersKept, InterruptedKeeps
    <3> QED
      BY <2>1, <3>1, <3>2, <3>3, <3>4, <3>5, <3>6
  <2> QED
    BY <1>1, <2>2 DEF EachAnswers
<1> QED
  BY <1>2, <1>3

LEMMA BytesInit == Init => B!Init /\ NoSplitting
<1> SUFFICES ASSUME Init PROVE B!Init /\ NoSplitting
  OBVIOUS
<1>1. ToSet(i_lockf) = {}
  BY DEF Init, ToSet
<1>2. NoSplitting
  BY DEF Init, NoSplitting
<1>3. B!Init
  BY <1>1 DEF B!Init, own
<1> QED
  BY <1>2, <1>3

\* Unless malloc sleeps in lf_split, the list of ranges implements the
\* locking of bytes: a step of lf_setlock or lf_clearlock (ufs_lockf.c:92-288
\* and 322-361) grants the request it works on if no byte of its range is
\* locked against it, and then sets exactly the bytes of that range to its
\* type; and it changes nothing if one is, or gives up what a flock owner
\* has.  This holds for any owners, ranges, signals and memory for locks.
THEOREM Refinement == ASSUME ~ MallocSleeps PROVE Spec => ImplementsByteLocks
<1>1. Init => B!Init /\ NoSplitting /\ IInv
  BY BytesInit, InvInit
<1>2. IInv /\ NoSplitting /\ [Next]_vars
        => [B!Next]_own /\ [EachAnswers]_vars /\ IInv' /\ NoSplitting'
  BY BytesNext, SplittingNext, InvNext
<1> QED
  BY <1>1, <1>2, PTL DEF Spec, ImplementsByteLocks, B!Spec

-----------------------------------------------------------------------------
(* Owners that use flock do not deadlock.                                  *)

LEMMA FlockSplits ==
  ASSUME IInv, Flocks = Procs
  PROVE  NoSplitting
<1> SUFFICES ASSUME NEW p \in Procs, state[p] \in {"splitting_lock", "splitting_unlock"} PROVE FALSE
  BY DEF NoSplitting
<1>1. Asks(p, i_lockf, lf, state[p], req[p])
  BY InvIs
<1> QED
  BY <1>1 DEF Asks, Encloses

\* The first byte of a lock that is whole.
LEMMA FirstByte ==
  /\ 0 \in Bytes /\ 0 \in Int
  /\ \A k \in Structs : k.lf_start = 0 /\ k.lf_end = EOF => Covers(k, 0) /\ 0 \in Ranged(k)
<1>1. 0 \in Bytes /\ 0 \in Int /\ MaxOff \in Nat
  BY BoundsNat DEF Bytes
<1>2. ASSUME NEW k \in Structs, k.lf_start = 0, k.lf_end = EOF PROVE Covers(k, 0)
  BY <1>1, <1>2 DEF Covers, Hi
<1> QED
  BY <1>1, <1>2 DEF Ranged

\* An owner with a lock has the first byte.
LEMMA HasFirst ==
  ASSUME IInv, WholeFile, NEW c \in ToSet(i_lockf)
  PROVE  own[lf[c].lf_id][0] = lf[c].lf_type /\ lf[c].lf_type \in Types
<1>1. LockList(i_lockf, lf) /\ Ord(i_lockf, lf, NOLOCKF) /\ own = Own(i_lockf, lf)
  BY InvIs DEF own, Own
<1>2. lf[c] \in Held /\ lf[c] \in Structs /\ lf[c].lf_id \in Procs /\ lf[c].lf_type \in Types
  BY <1>1, HeldIs DEF LockList
<1>3. Covers(lf[c], 0) /\ 0 \in Bytes
  BY <1>2, FirstByte DEF WholeFile
<1>4. Has(ToSet(i_lockf), lf, lf[c].lf_id, 0, lf[c].lf_type)
  BY <1>3 DEF Has
<1> QED
  BY <1>1, <1>2, <1>3, <1>4, OwnIs DEF ByteIs

LEMMA MoveWhole ==
  ASSUME FlockInv, Flocks = Procs, NEW p \in Procs, NEW F, NEW s, NEW n, Moves(p, F, s, n)
  PROVE  \A c \in ToSet(F.list) : F.lf[c].lf_start = 0 /\ F.lf[c].lf_end = EOF
<1>1. /\ LockList(F.list, F.lf) /\ Ord(F.list, F.lf, NOLOCKF) /\ Others(p, F.list, F.lf) /\ WholeFile
  BY DEF Moves, Fits, FlockInv
<1> SUFFICES ASSUME NEW c \in ToSet(F.list) PROVE F.lf[c].lf_start = 0 /\ F.lf[c].lf_end = EOF
  OBVIOUS
<1>2. CASE c \in ToSet(i_lockf) /\ F.lf[c] = lf[c]
  BY <1>1, <1>2 DEF WholeFile
<1>3. CASE F.lf[c].lf_id = p /\ ~ Same(F)
  <2>1. PICK l : l = F.lf[c]
    OBVIOUS
  <2>2. l \in Held /\ l \in Structs /\ l.lf_start \in Int /\ Hi(l) \in Int /\ MaxOff \in Nat
        /\ 0 <= l.lf_start /\ l.lf_start <= Hi(l) /\ Hi(l) <= MaxOff + 1
        /\ (l.lf_end = EOF <=> Hi(l) = MaxOff + 1)
    BY <1>1, <2>1, HeldIs, StructIs DEF LockList
  <2>3. ASSUME NEW k, Wants(p, k)
        PROVE  k.lf_start = 0 /\ Hi(k) = MaxOff + 1
    BY <2>3 DEF Wants, Hi
  <2>4. CASE \E k : Wants(p, k) /\ Frees(F, k)
    <3>1. PICK k : Wants(p, k) /\ Frees(F, k)
      BY <2>4
    <3>2. Cleared(F.list, F.lf, k) /\ k.lf_id = p
      BY <3>1 DEF Frees, Unlinked, Wants
    <3>3. Hi(l) < k.lf_start \/ Hi(k) < l.lf_start
      BY <1>3, <2>1, <3>2 DEF Cleared
    <3> QED
      BY <2>2, <2>3, <3>1, <3>3
  <2>5. CASE \E k : Wants(p, k) /\ Takes(F, k)
    <3>1. PICK k : Wants(p, k) /\ Takes(F, k)
      BY <2>5
    <3>2. Locked(F.list, F.lf, k) /\ k.lf_id = p
      BY <3>1 DEF Takes, Linked, Wants
    <3>3. PICK d \in ToSet(F.list) : /\ F.lf[d].lf_id = p /\ F.lf[d].lf_start <= k.lf_start
                                     /\ Hi(k) <= Hi(F.lf[d])
      BY <3>2 DEF Locked
    <3>4. PICK m : m = F.lf[d]
      OBVIOUS
    <3>5. m \in Held /\ m.lf_start \in Int /\ Hi(m) \in Int /\ 0 <= m.lf_start /\ Hi(m) <= MaxOff + 1
      BY <1>1, <3>4, HeldIs DEF LockList
    <3>6. m.lf_start = 0 /\ Hi(m) = MaxOff + 1
      BY <2>2, <2>3, <3>1, <3>3, <3>4, <3>5
    <3>7. c = d
      <4>1. PICK i \in 1..Len(F.list), j \in 1..Len(F.list) : c = F.list[i] /\ d = F.list[j]
        BY <1>1, ListIs
      <4>2. F.list[i] # NOLOCKF /\ F.list[j] # NOLOCKF
        BY <1>1, ListIs
      <4>3. i < j => Hi(l) < m.lf_start
        BY <1>1, <1>3, <2>1, <3>3, <3>4, <4>1, <4>2 DEF Ord, Clear
      <4>4. j < i => Hi(m) < l.lf_start
        BY <1>1, <1>3, <2>1, <3>3, <3>4, <4>1, <4>2 DEF Ord, Clear
      <4>5. ~ (i < j) /\ ~ (j < i)
        BY <2>2, <3>6, <4>3, <4>4
      <4>6. i = j
        BY <4>5
      <4> QED
        BY <4>1, <4>6
    <3> QED
      BY <2>1, <2>2, <3>4, <3>6, <3>7
  <2> QED
    BY <1>3, <2>4, <2>5 DEF Moves
<1>4. (c \in ToSet(i_lockf) /\ F.lf[c] = lf[c]) \/ (F.lf[c].lf_id = p /\ ~ Same(F))
  BY <1>1 DEF Others, Same
<1> QED
  BY <1>2, <1>3, <1>4

LEMMA MoveFlock ==
  ASSUME FlockInv, Flocks = Procs, NEW p \in Procs, NEW F, NEW s, NEW n, Moves(p, F, s, n)
  PROVE  WholeFile' /\ Peace' /\ EmptyHanded'
<1>1. /\ IInv /\ Fits(p, F, s, n) /\ Becomes(p, F, s, n) /\ LockList(F.list, F.lf)
      /\ Ord(F.list, F.lf, NOLOCKF) /\ Others(p, F.list, F.lf)
  BY DEF Moves, Fits, FlockInv
<1>2. /\ i_lockf' = F.list /\ \A c \in ToSet(F.list) : lf'[c] = F.lf[c]
      /\ state'[p] = s
      /\ \A q \in Procs \ {p} : state'[q] = "sleeping" => state[q] = "sleeping"
  BY <1>1, BecomesIs
<1>3. WholeFile'
  BY <1>2, MoveWhole DEF WholeFile
<1>4. own' = Own(F.list, F.lf)
  <2>1. own' = Own(i_lockf', lf')
    BY DEF own, Own, Bytes
  <2> QED
    BY <1>2, <2>1, OwnAgrees
<1>5. \A q \in Procs \ {p} : own'[q][0] = own[q][0]
  BY <1>1, <1>4, OwnOthers, FirstByte
<1>6. ASSUME own'[p][0] = "F_UNLCK" PROVE Peace' /\ EmptyHanded'
  <2>1. Peace'
    BY <1>5, <1>6 DEF Peace, FlockInv, B!Compatible
  <2>2. EmptyHanded'
    BY <1>2, <1>5, <1>6 DEF EmptyHanded, FlockInv
  <2> QED
    BY <2>1, <2>2
<1>7. ASSUME own'[p][0] = own[p][0], s # "sleeping" PROVE Peace' /\ EmptyHanded'
  BY <1>2, <1>5, <1>7 DEF Peace, EmptyHanded, FlockInv
<1>8. CASE /\ Same(F)
           /\ s = "sleeping" /\ p \in Flocks =>
                \E k : Wants(p, k) /\ k.lf_type = "F_RDLCK" /\ ~ Unopposed(k)
  <2>0. Same(F)
    BY <1>8, Zenon
  <2>1. own'[p][0] = own[p][0]
    BY <1>1, <1>4, <2>0, OwnSame, FirstByte
  <2>2. CASE s = "sleeping" /\ \E k : Wants(p, k) /\ k.lf_type = "F_RDLCK" /\ ~ Unopposed(k)
    <3>1. PICK k : Wants(p, k) /\ k.lf_type = "F_RDLCK" /\ ~ Unopposed(k)
      BY <2>2
    <3>2. PICK c \in ToSet(i_lockf) : lf[c].lf_id # p /\ lf[c].lf_type = "F_WRLCK"
      BY <3>1 DEF Unopposed, Wants
    <3>3. own[lf[c].lf_id][0] = "F_WRLCK" /\ lf[c].lf_id \in Procs
      <4>1. lf[c].lf_id \in Procs
        BY InvIs, HeldIs, <1>1 DEF LockList
      <4> QED
        BY <1>1, <3>2, <4>1, HasFirst DEF FlockInv
    <3>4. B!Compatible(own[p][0], own[lf[c].lf_id][0])
      BY <3>2, <3>3 DEF Peace, FlockInv
    <3>5. own[p][0] = "F_UNLCK"
      BY <3>3, <3>4 DEF B!Compatible
    <3> QED
      BY <1>3, <1>6, <2>1, <3>5
  <2>3. CASE s # "sleeping"
    BY <1>3, <1>7, <2>1, <2>3
  <2>4. s = "sleeping" => \E k : Wants(p, k) /\ k.lf_type = "F_RDLCK" /\ ~ Unopposed(k)
    BY <1>8, Zenon
  <2> QED
    BY <2>2, <2>3, <2>4, Zenon
<1>9. CASE \E k : Wants(p, k) /\ Frees(F, k)
  <2>1. PICK k : Wants(p, k) /\ Frees(F, k)
    BY <1>9
  <2>2. own'[p][0] = "F_UNLCK"
    <3>1. 0 \in Ranged(k) /\ 0 \in Bytes
      BY <2>1, FirstByte DEF Wants
    <3> QED
      BY <1>1, <1>4, <2>1, <3>1, OwnFrees
  <2> QED
    BY <1>3, <1>6, <2>2
<1>10. CASE \E k : /\ Wants(p, k) /\ Takes(F, k) /\ s = "idle"
                   /\ Unopposed(k) \/ state[p] = "splitting_lock"
  <2>1. PICK k : Wants(p, k) /\ Takes(F, k) /\ s = "idle" /\ Unopposed(k)
    BY <1>1, <1>10, FlockSplits DEF NoSplitting
  <2>2. 0 \in Ranged(k) /\ 0 \in Bytes
    BY <2>1, FirstByte DEF Wants
  <2>3. own'[p][0] = k.lf_type
    BY <1>1, <1>4, <2>1, <2>2, OwnTakes
  <2>4. k \in Held /\ k.lf_id = p
    BY <2>1 DEF Takes, Wants
  <2>5. \A q \in Procs \ {p} : B!Compatible(k.lf_type, own[q][0])
    BY <1>1, <2>1, <2>2, <2>4, Unopposing
  <2>6. Peace'
    BY <1>5, <2>3, <2>5 DEF Peace, FlockInv, B!Compatible
  <2>7. EmptyHanded'
    BY <1>2, <1>5, <2>1 DEF EmptyHanded, FlockInv
  <2> QED
    BY <1>3, <2>6, <2>7
<1> QED
  BY <1>3, <1>8, <1>9, <1>10 DEF Moves

LEMMA FlockNext ==
  ASSUME Flocks = Procs
  PROVE  FlockInv /\ [Next]_vars => FlockInv'
<1> SUFFICES ASSUME FlockInv, [Next]_vars PROVE FlockInv'
  OBVIOUS
<1>0. IInv /\ IInv'
  BY InvNext DEF FlockInv
<1>1. CASE Next
  <2>1. PICK p \in Procs : psignal(p) \/ \E G, s, m : Moves(p, G, s, m)
    BY <1>0, <1>1, NextMoves
  <2>2. CASE psignal(p)
    <3>1. /\ UNCHANGED <<i_lockf, lf>>
          /\ \A q \in Procs : state'[q] = "sleeping" => state[q] = "sleeping"
      BY <1>0, <2>2, SignalInv
    <3>2. own' = own
      BY <3>1 DEF own, Bytes
    <3> QED
      BY <1>0, <3>1, <3>2 DEF FlockInv, WholeFile, Peace, EmptyHanded
  <2>3. CASE \E G, s, m : Moves(p, G, s, m)
    BY <1>0, <2>3, MoveFlock DEF FlockInv
  <2> QED
    BY <2>1, <2>2, <2>3
<1>2. CASE UNCHANGED vars
  <2>1. own' = own
    BY <1>2 DEF vars, own, Bytes
  <2> QED
    BY <1>0, <1>2, <2>1 DEF vars, FlockInv, WholeFile, Peace, EmptyHanded
<1> QED
  BY <1>1, <1>2

LEMMA FlockInit == Init => FlockInv
<1> SUFFICES ASSUME Init PROVE FlockInv
  OBVIOUS
<1>1. ToSet(i_lockf) = {} /\ B!Init /\ IInv
  BY BytesInit, InvInit DEF Init, ToSet
<1>2. \A p \in Procs : own[p][0] = "F_UNLCK"
  BY <1>1, FirstByte DEF B!Init
<1> QED
  BY <1>1, <1>2 DEF FlockInv, WholeFile, Peace, EmptyHanded, B!Compatible

LEMMA FlockNoDeadlock == FlockInv => NoDeadlock
<1> SUFFICES ASSUME FlockInv, NEW S \in SUBSET Sleepers, DeadlockedSet(S) PROVE FALSE
  BY DEF NoDeadlock
<1>1. PICK p \in S, q \in S : <<p, q>> \in WaitsFor
  BY DEF DeadlockedSet
<1>2. PICK k \in ToSet(i_lockf) : lf[k].lf_id = q
  BY <1>1 DEF WaitsFor
<1>3. q \in Procs /\ own[q][0] = "F_UNLCK"
  BY DEF Sleepers, FlockInv, EmptyHanded
<1>4. own[q][0] \in Types
  BY <1>2, HasFirst DEF FlockInv
<1> QED
  BY <1>3, <1>4 DEF Types

\* Owners that use flock never wait for each other in a circle, though
\* lf_setlock looks for no deadlock among them: who wants to write gives up
\* what it has before it sleeps (ufs_lockf.c:143), and who wants to read and
\* must wait has nothing, since somebody else holds a lock for writing.
THEOREM FlocksNoDeadlock == ASSUME Flocks = Procs PROVE Spec => []NoDeadlock
<1>1. Init => FlockInv
  BY FlockInit
<1>2. FlockInv /\ [Next]_vars => FlockInv'
  BY FlockNext
<1>3. FlockInv => NoDeadlock
  BY FlockNoDeadlock
<1> QED
  BY <1>1, <1>2, <1>3, PTL DEF Spec

-----------------------------------------------------------------------------
(* The chains of the requests that wait.                                   *)

\* What lf_wakelock and lf_addblock walk over is the chain, and it ends.
LEMMA ChainIs ==
  ASSUME NEW block \in Pointers, NEW next, NEW H, H \subseteq Locks, NEW W, W \subseteq Locks,
         NEW e, NEW root, NEW rank, NEW top, Chained(block, next, H, W, e, root, rank, top),
         NEW h \in H
  PROVE  Blocked(block, h) = {w \in W : root[w] = h} /\ Ends(block, h) # {}
<1> DEFINE T == {w \in W : root[w] = h}
           linked == {block[j] : j \in Locks} \ {NOLOCKF}
           closed == {S \in SUBSET linked :
                        {block[j] : j \in S \cup {h}} \subseteq S \cup {NOLOCKF}}
<1>1. Blocked(block, h) = {b \in linked : \A S \in closed : b \in S}
  BY DEF Blocked
<1>2. T \in closed
  <2>1. T \subseteq linked
    BY DEF Chained
  <2>2. \A j \in T \cup {h} : block[j] \in T \cup {NOLOCKF}
    BY DEF Chained
  <2> QED
    BY <2>1, <2>2
<1>3. ASSUME NEW S \in closed, NEW w0 \in T, w0 \notin S PROVE FALSE
  <2> DEFINE U == {w \in T : w \notin S}
             R == {rank[w] : w \in U}
  <2>1. R \subseteq Nat /\ R # {}
    <3>1. w0 \in U
      BY <1>3
    <3>2. \A w \in W : rank[w] \in Nat
      BY DEF Chained
    <3>3. U \subseteq W
      OBVIOUS
    <3> QED
      BY <3>1, <3>2, <3>3
  <2>2. PICK r \in R : \A m \in R : r <= m
    <3> HIDE DEF R
    <3> QED
      BY <2>1, LeastNat
  <2>3. PICK w \in U : \A u \in U : rank[w] <= rank[u]
    BY <2>2
  <2>4. w \in W /\ root[w] = h /\ w \notin S
    OBVIOUS
  <2>5. PICK v \in H \cup W : block[v] = w
    BY <2>4 DEF Chained
  <2>6. CASE v \in H
    <3>1. v = h
      BY <2>4, <2>5, <2>6 DEF Chained
    <3>2. w \in S \cup {NOLOCKF}
      BY <2>5, <3>1
    <3> QED
      BY <2>4, <3>2 DEF Chained
  <2>7. CASE v \in W
    <3>1. root[v] = h /\ rank[v] < rank[w] /\ rank[v] \in Int /\ rank[w] \in Int
      BY <2>4, <2>5, <2>7 DEF Chained
    <3>2. v \notin U
      BY <2>3, <3>1
    <3>3. v \in S
      BY <2>7, <3>1, <3>2
    <3>4. w \in S \cup {NOLOCKF}
      BY <2>5, <3>3
    <3> QED
      BY <2>4, <3>4 DEF Chained
  <2> QED
    BY <2>5, <2>6, <2>7
<1>4. Blocked(block, h) = T
  <2>1. T \subseteq linked
    BY <1>2
  <2> HIDE DEF T, linked, closed
  <2> QED
    BY <1>1, <1>2, <1>3, <2>1
<1>5. Ends(block, h) # {}
  <2>1. CASE T = {}
    <3>1. block[h] = NOLOCKF
      BY <2>1 DEF Chained
    <3> QED
      BY <3>1 DEF Ends
  <2>2. CASE T # {}
    <3> DEFINE R == {top - rank[w] : w \in T}
    <3>1. R \subseteq Nat /\ R # {}
      <4>1. \A w \in W : rank[w] \in 0..top /\ top - rank[w] \in Nat
        BY DEF Chained
      <4> QED
        BY <2>2, <4>1
    <3>2. PICK r \in R : \A m \in R : r <= m
      <4> HIDE DEF R
      <4> QED
        BY <3>1, LeastNat
    <3>3. PICK w \in T : \A u \in T : top - rank[w] <= top - rank[u]
      BY <3>2
    <3>4. block[w] \notin T
      <4> SUFFICES ASSUME block[w] \in T PROVE FALSE
        OBVIOUS
      <4>1. /\ rank[w] < rank[block[w]] /\ rank[w] \in Int /\ rank[block[w]] \in Int /\ top \in Int
            /\ top - rank[w] <= top - rank[block[w]]
        BY <3>3 DEF Chained
      <4> QED
        BY <4>1
    <3>5. block[w] = NOLOCKF
      BY <3>4 DEF Chained
    <3> QED
      BY <1>4, <3>5 DEF Ends
  <2> QED
    BY <2>1, <2>2
<1> QED
  BY <1>4, <1>5

\* A lock that something waits for points to it.
LEMMA RootPoints ==
  ASSUME NEW block \in Pointers, NEW next, NEW H, H \subseteq Locks, NEW W, W \subseteq Locks,
         NEW e, NEW root, NEW rank, NEW top, Chained(block, next, H, W, e, root, rank, top),
         NEW w \in W
  PROVE  block[root[w]] \in W /\ block[root[w]] # NOLOCKF
<1>1. root[w] \in H
  BY DEF Chained
<1>2. w \in Blocked(block, root[w])
  BY <1>1, ChainIs
<1>3. block[root[w]] # NOLOCKF
  <2> SUFFICES ASSUME block[root[w]] = NOLOCKF PROVE FALSE
    OBVIOUS
  <2>1. {block[j] : j \in {} \cup {root[w]}} \subseteq {} \cup {NOLOCKF}
    OBVIOUS
  <2> QED
    BY <1>2, <2>1 DEF Blocked
<1> QED
  BY <1>1, <1>3 DEF Chained

\* lf_wakelock undoes the chain of k.
LEMMA ChainsWoken ==
  ASSUME NEW block \in Pointers, NEW next, NEW H, H \subseteq Locks, NEW W, W \subseteq Locks,
         NEW e, Chains(block, next, H, W, e), NEW k \in H, NEW woken, woken = Blocked(block, k),
         NEW block2, NEW next2,
         \A j \in Locks : block2[j] = IF j \in woken \cup {k} THEN NOLOCKF ELSE block[j],
         \A j \in Locks : next2[j] = IF j \in woken THEN NOLOCKF ELSE next[j]
  PROVE  Chains(block2, next2, H, W \ woken, e) /\ woken \subseteq W
<1>1. PICK root, rank, top : Chained(block, next, H, W, e, root, rank, top)
  BY DEF Chains
<1>2. woken = {w \in W : root[w] = k}
  BY <1>1, ChainIs
<1> DEFINE V == W \ woken
           root2 == [w \in V |-> root[w]]
           rank2 == [w \in V |-> rank[w]]
<1>3. V \subseteq W /\ (\A w \in V : root[w] # k) /\ k \notin W
  BY <1>1, <1>2 DEF Chained
<1>4. /\ root2 \in [V -> H] /\ rank2 \in [V -> 0..top]
      /\ \A w \in V : root2[w] = root[w] /\ rank2[w] = rank[w]
  BY <1>1, <1>3 DEF Chained
<1> HIDE DEF V, root2, rank2
<1>5. \A v \in (H \cup V) \ {k} : block2[v] = block[v] /\ v \in H \cup W
  BY <1>1, <1>2, <1>3 DEF Chained, V
<1>6. block2[k] = NOLOCKF
  OBVIOUS
<1>7. \A w \in V : next2[w] = next[w]
  BY <1>3 DEF V
<1>8. \A v \in (H \cup V) \ {k} : block2[v] \in V \cup {NOLOCKF}
  <2> TAKE v \in (H \cup V) \ {k}
  <2>1. block2[v] = block[v] /\ block[v] \in W \cup {NOLOCKF}
    BY <1>1, <1>5 DEF Chained
  <2>2. block[v] \in W => root[block[v]] # k
    <3>1. CASE v \in H
      BY <1>1, <3>1 DEF Chained
    <3>2. CASE v \in V
      BY <1>1, <1>3, <3>2 DEF Chained
    <3> QED
      BY <3>1, <3>2
  <2> QED
    BY <1>2, <2>1, <2>2 DEF V
<1>9. \A w \in V : \E v \in H \cup V : block2[v] = w
  <2> TAKE w \in V
  <2>1. PICK v \in H \cup W : block[v] = w
    BY <1>1, <1>3 DEF Chained
  <2>2. v # k
    BY <1>1, <1>3, <2>1 DEF Chained
  <2>3. v \in H \cup V
    <3>1. v \in W => root[v] # k
      BY <1>1, <1>3, <2>1 DEF Chained
    <3> QED
      BY <1>2, <2>1, <3>1 DEF V
  <2> QED
    BY <1>5, <2>1, <2>2, <2>3
<1>10. NOLOCKF \notin V
  BY <1>1, <1>3 DEF Chained
<1>11. \A u, v \in H \cup V : block2[u] = block2[v] /\ block2[u] \in V => u = v
  <2> TAKE u, v \in H \cup V
  <2> HAVE block2[u] = block2[v] /\ block2[u] \in V
  <2>1. u # k /\ v # k
    BY <1>6, <1>10
  <2> QED
    BY <1>1, <1>3, <1>5, <2>1 DEF Chained
<1>12. \A h \in H : block2[h] \in V => root2[block2[h]] = h
  <2> TAKE h \in H
  <2> HAVE block2[h] \in V
  <2>1. h # k
    BY <1>6, <1>10
  <2> QED
    BY <1>1, <1>3, <1>4, <1>5, <2>1 DEF Chained
<1>13. \A v \in V : block2[v] \in V => root2[block2[v]] = root2[v] /\ rank2[v] < rank2[block2[v]]
  <2> TAKE v \in V
  <2> HAVE block2[v] \in V
  <2>1. block2[v] = block[v] /\ v \in W /\ block[v] \in W
    BY <1>3, <1>5
  <2> QED
    BY <1>1, <1>4, <2>1 DEF Chained
<1>14. \A w \in V : Opposed(e[w], e[root2[w]]) /\ (Interruptible => next2[w] = root2[w])
  BY <1>1, <1>3, <1>4, <1>7 DEF Chained
<1>15. \A v \in H \cup V : block2[v] \in V \cup {NOLOCKF}
  BY <1>6, <1>8
<1>16. Chained(block2, next2, H, V, e, root2, rank2, top)
  BY <1>1, <1>3, <1>4, <1>9, <1>10, <1>11, <1>12, <1>13, <1>14, <1>15 DEF Chained
<1> QED
  BY <1>2, <1>16 DEF Chains, V

\* Locks with nothing behind them come and go, and a lock that changes stays
\* in the way of those behind it.
ChainsKept(block, H, W, e, block2, next, next2, H2, e2) ==
  /\ \A h \in H \ H2 : block[h] = NOLOCKF
  /\ \A h \in H2 \ H : h \notin W /\ block2[h] = NOLOCKF
  /\ \A h \in H \cap H2 : block2[h] = block[h]
  /\ \A w \in W : block2[w] = block[w] /\ next2[w] = next[w] /\ e2[w] = e[w]
  /\ \A h \in H \cap H2 : \/ block[h] = NOLOCKF
                          \/ \A w \in W : Opposed(e[w], e[h]) => Opposed(e[w], e2[h])

LEMMA ChainsEdit ==
  ASSUME NEW block \in Pointers, NEW next, NEW H, H \subseteq Locks, NEW W, W \subseteq Locks,
         NEW e, Chains(block, next, H, W, e), NEW block2, NEW next2, NEW H2, NEW e2,
         ChainsKept(block, H, W, e, block2, next, next2, H2, e2)
  PROVE  Chains(block2, next2, H2, W, e2)
<1>1. PICK root, rank, top : Chained(block, next, H, W, e, root, rank, top)
  BY DEF Chains
<1>2. \A w \in W : root[w] \in H /\ block[root[w]] # NOLOCKF
  <2>1. \A w \in W : root[w] \in H
    BY <1>1 DEF Chained
  <2> QED
    BY <1>1, <2>1, RootPoints
<1>3. root \in [W -> H2] /\ \A w \in W : root[w] \in H \cap H2
  <2>1. \A w \in W : root[w] \in H2
    BY <1>2 DEF ChainsKept
  <2> QED
    BY <1>1, <1>2, <2>1 DEF Chained
<1>4. \A v \in H2 \cup W : \/ v \in (H \cap H2) \cup W /\ block2[v] = block[v]
                           \/ v \in H2 \ H /\ block2[v] = NOLOCKF
  BY DEF ChainsKept
<1>5. NOLOCKF \notin W /\ W \cap H2 = {}
  BY <1>1 DEF Chained, ChainsKept
<1>6. \A w \in W : \E v \in H2 \cup W : block2[v] = w
  <2> TAKE w \in W
  <2>1. PICK v \in H \cup W : block[v] = w
    BY <1>1 DEF Chained
  <2>2. v \in (H \cap H2) \cup W
    BY <1>5, <2>1 DEF ChainsKept
  <2> QED
    BY <2>1, <2>2 DEF ChainsKept
<1>7. \A u, v \in H2 \cup W : block2[u] = block2[v] /\ block2[u] \in W => u = v
  <2> TAKE u, v \in H2 \cup W
  <2> HAVE block2[u] = block2[v] /\ block2[u] \in W
  <2>1. u \in H \cup W /\ v \in H \cup W /\ block2[u] = block[u] /\ block2[v] = block[v]
    BY <1>4, <1>5
  <2> QED
    BY <1>1, <2>1 DEF Chained
<1>8. \A v \in H2 \cup W : block2[v] \in W \cup {NOLOCKF}
  BY <1>1, <1>4 DEF Chained
<1>9. \A h \in H2 : block2[h] \in W => root[block2[h]] = h
  BY <1>1, <1>4, <1>5 DEF Chained
<1>10. \A w \in W : Opposed(e2[w], e2[root[w]]) /\ (Interruptible => next2[w] = root[w])
  <2> TAKE w \in W
  <2>1. Opposed(e[w], e[root[w]]) /\ (Interruptible => next[w] = root[w])
    BY <1>1 DEF Chained
  <2>2. Opposed(e[w], e2[root[w]])
    BY <1>2, <1>3, <2>1 DEF ChainsKept
  <2> QED
    BY <2>1, <2>2 DEF ChainsKept
<1>11. \A v \in W : block2[v] = block[v]
  BY DEF ChainsKept
<1>12. Chained(block2, next2, H2, W, e2, root, rank, top)
  BY <1>1, <1>3, <1>5, <1>6, <1>7, <1>8, <1>9, <1>10, <1>11 DEF Chained
<1> QED
  BY <1>12 DEF Chains

\* A chain that starts with c and is behind no lock.
Piece(block, D, c, rank, top) ==
  /\ top \in Nat /\ rank \in [D -> 0..top] /\ c \in D /\ NOLOCKF \notin D
  /\ \A w \in D \ {c} : \E v \in D : block[v] = w
  /\ \A v \in D : block[v] \in (D \ {c}) \cup {NOLOCKF}
  /\ \A u, v \in D : block[u] = block[v] /\ block[u] \in D => u = v
  /\ \A v \in D : block[v] \in D => rank[v] < rank[block[v]]

\* lf_addblock puts it behind the last on the chain of r.
Joins(block, block2, next, H, W, e, root, D, c, r, end) ==
  /\ D \subseteq Locks /\ D \cap (H \cup W) = {}
  /\ r \in H /\ end \in {r} \cup {w \in W : root[w] = r} /\ block[end] = NOLOCKF
  /\ \A j \in Locks : block2[j] = IF j = end THEN c ELSE block[j]
  /\ \A w \in D : Opposed(e[w], e[r]) /\ (Interruptible => next[w] = r)

LEMMA ChainsJoined ==
  ASSUME NEW block \in Pointers, NEW next, NEW H, H \subseteq Locks, NEW W, W \subseteq Locks,
         NEW e, NEW root, NEW rank, NEW top, Chained(block, next, H, W, e, root, rank, top),
         NEW D, NEW c, NEW drank, NEW dtop, Piece(block, D, c, drank, dtop), NEW r, NEW end,
         NEW block2, Joins(block, block2, next, H, W, e, root, D, c, r, end)
  PROVE  Chains(block2, next, H, W \cup D, e)
<1>0. /\ D \subseteq Locks /\ D \cap (H \cup W) = {}
      /\ r \in H /\ end \in {r} \cup {w \in W : root[w] = r} /\ block[end] = NOLOCKF
      /\ \A j \in Locks : block2[j] = IF j = end THEN c ELSE block[j]
      /\ \A w \in D : Opposed(e[w], e[r]) /\ (Interruptible => next[w] = r)
  BY DEF Joins
<1> USE <1>0
<1> DEFINE V == W \cup D
           root2 == [w \in V |-> IF w \in D THEN r ELSE root[w]]
           rank2 == [w \in V |-> IF w \in D THEN top + 1 + drank[w] ELSE rank[w]]
           top2 == top + 1 + dtop
<1>1. /\ \A w \in D : root2[w] = r /\ rank2[w] = top + 1 + drank[w] /\ drank[w] \in 0..dtop
      /\ \A w \in W : root2[w] = root[w] /\ rank2[w] = rank[w] /\ rank[w] \in 0..top /\ root[w] \in H
      /\ top \in Nat /\ dtop \in Nat
  BY DEF Chained, Piece
<1>2. root2 \in [V -> H] /\ rank2 \in [V -> 0..top2] /\ top2 \in Nat
  <2>1. top2 \in Nat
    BY <1>1
  <2>2. \A w \in V : (IF w \in D THEN r ELSE root[w]) \in H
    BY <1>1
  <2>3. \A w \in V : (IF w \in D THEN top + 1 + drank[w] ELSE rank[w]) \in 0..top2
    BY <1>1
  <2> HIDE DEF V, top2
  <2> QED
    BY <2>1, <2>2, <2>3
<1> HIDE DEF root2, rank2, top2
<1>3. /\ end \in H \cup W /\ end \in Locks /\ block2[end] = c /\ c \in D /\ end \notin D
      /\ \A v \in H \cup W \cup D : v # end => block2[v] = block[v]
  BY DEF Piece
<1>4. /\ \A v \in H \cup W : block[v] \in W \cup {NOLOCKF}
      /\ \A v \in D : block[v] \in (D \ {c}) \cup {NOLOCKF}
      /\ NOLOCKF \notin W /\ NOLOCKF \notin D /\ W \cap H = {}
  BY DEF Chained, Piece
<1>5. \A w \in V : \E v \in H \cup V : block2[v] = w
  <2> TAKE w \in V
  <2>1. CASE w = c
    BY <1>3, <2>1
  <2>2. CASE w \in W
    <3>1. PICK v \in H \cup W : block[v] = w
      BY <2>2 DEF Chained
    <3> QED
      BY <1>3, <1>4, <2>2, <3>1
  <2>3. CASE w \in D \ {c}
    <3>1. PICK v \in D : block[v] = w
      BY <2>3 DEF Piece
    <3> QED
      BY <1>3, <3>1
  <2> QED
    BY <2>1, <2>2, <2>3
<1>6. \A u, v \in H \cup V : block2[u] = block2[v] /\ block2[u] \in V => u = v
  <2> TAKE u, v \in H \cup V
  <2> HAVE block2[u] = block2[v] /\ block2[u] \in V
  <2>1. \A x \in H \cup V : block2[x] = c => x = end
    BY <1>3, <1>4
  <2>2. CASE u = end \/ v = end
    BY <1>3, <2>1, <2>2
  <2>3. CASE u # end /\ v # end
    <3>1. block[u] = block[v] /\ block[u] \in V
      BY <1>3, <2>3
    <3>2. CASE u \in H \cup W /\ v \in H \cup W
      BY <1>4, <3>1, <3>2 DEF Chained
    <3>3. CASE u \in D /\ v \in D
      BY <1>4, <3>1, <3>3 DEF Piece
    <3> QED
      BY <1>4, <3>1, <3>2, <3>3
  <2> QED
    BY <2>2, <2>3
<1>7. \A v \in H \cup V : block2[v] \in V \cup {NOLOCKF}
  BY <1>3, <1>4
<1>8. \A h \in H : block2[h] \in V => root2[block2[h]] = h
  <2> TAKE h \in H
  <2> HAVE block2[h] \in V
  <2>1. CASE h = end
    BY <1>1, <1>3, <1>4, <2>1
  <2>2. CASE h # end
    <3>1. block2[h] = block[h] /\ block[h] \in W
      BY <1>3, <1>4, <2>2
    <3> QED
      BY <1>1, <3>1 DEF Chained
  <2> QED
    BY <2>1, <2>2
<1>9. \A v \in V : block2[v] \in V => root2[block2[v]] = root2[v] /\ rank2[v] < rank2[block2[v]]
  <2> TAKE v \in V
  <2> HAVE block2[v] \in V
  <2>1. CASE v = end
    <3>1. v \in W /\ root[v] = r /\ block2[v] = c
      BY <1>3, <1>4, <2>1
    <3>2. root2[c] = root2[v]
      BY <1>1, <1>3, <3>1
    <3>3. rank2[v] < rank2[c]
      BY <1>1, <1>3, <3>1
    <3> QED
      BY <3>1, <3>2, <3>3
  <2>2. CASE v # end /\ v \in W
    <3>1. block2[v] = block[v] /\ block[v] \in W
      BY <1>3, <1>4, <2>2
    <3>2. root[block[v]] = root[v] /\ rank[v] < rank[block[v]]
      BY <2>2, <3>1 DEF Chained
    <3> QED
      BY <1>1, <2>2, <3>1, <3>2
  <2>3. CASE v # end /\ v \in D
    <3>1. block2[v] = block[v] /\ block[v] \in D
      BY <1>3, <1>4, <2>3
    <3>2. drank[v] < drank[block[v]]
      BY <2>3, <3>1 DEF Piece
    <3>3. /\ drank[v] \in Int /\ drank[block[v]] \in Int /\ top \in Int
          /\ rank2[v] = top + 1 + drank[v] /\ rank2[block[v]] = top + 1 + drank[block[v]]
      BY <1>1, <2>3, <3>1
    <3>4. rank2[v] < rank2[block[v]]
      BY <3>2, <3>3
    <3> QED
      BY <1>1, <2>3, <3>1, <3>4
  <2> QED
    BY <2>1, <2>2, <2>3
<1>10. \A w \in V : Opposed(e[w], e[root2[w]]) /\ (Interruptible => next[w] = root2[w])
  <2>1. \A w \in W : Opposed(e[w], e[root[w]]) /\ (Interruptible => next[w] = root[w])
    BY DEF Chained
  <2> QED
    BY <1>1, <2>1
<1>11. V \cap H = {} /\ NOLOCKF \notin V
  BY <1>4
<1> HIDE DEF V
<1>12. Chained(block2, next, H, V, e, root2, rank2, top2)
  BY <1>2, <1>5, <1>6, <1>7, <1>8, <1>9, <1>10, <1>11 DEF Chained
<1> QED
  BY <1>12 DEF Chains, V

\* lf_setlock hands the chain of o over to n, before it adds what was behind n.
Hands(block, block1, H, W, e, root, D, o, n) ==
  /\ o \in H /\ n \in Locks \ W /\ n # o /\ ~ Interruptible
  /\ \A w \in W : Opposed(e[w], e[o]) => Opposed(e[w], e[n])
  /\ \A j \in Locks : block1[j] = IF j = n THEN block[o] ELSE block[j]
  /\ D = {w \in W : root[w] = n}

LEMMA ChainsHanded ==
  ASSUME NEW block \in Pointers, NEW next, NEW H, H \subseteq Locks, NEW W, W \subseteq Locks,
         NEW e, NEW root, NEW rank, NEW top, Chained(block, next, H, W, e, root, rank, top),
         NEW o, NEW n, NEW block1, NEW D, Hands(block, block1, H, W, e, root, D, o, n)
  PROVE  /\ \E root1, rank1 : Chained(block1, next, (H \ {o}) \cup {n}, W \ D, e, root1, rank1, top)
         /\ n \in H /\ block[n] # NOLOCKF => \E drank : Piece(block1, D, block[n], drank, top)
         /\ n \notin H \/ block[n] = NOLOCKF => D = {}
<1>0. \A w \in W : block[root[w]] # NOLOCKF
  BY RootPoints
<1>17. /\ o \in H /\ n \in Locks \ W /\ n # o /\ ~ Interruptible
       /\ \A w \in W : Opposed(e[w], e[o]) => Opposed(e[w], e[n])
       /\ \A j \in Locks : block1[j] = IF j = n THEN block[o] ELSE block[j]
       /\ D = {w \in W : root[w] = n}
  BY DEF Hands
<1> USE <1>17
<1> DEFINE V  == W \ D
           H1 == (H \ {o}) \cup {n}
           old(v) == IF v = n THEN o ELSE v
           root1 == [w \in V |-> IF root[w] = o THEN n ELSE root[w]]
           rank1 == [w \in V |-> rank[w]]
<1>1. /\ top \in Nat /\ W \cap H = {} /\ NOLOCKF \notin W
      /\ \A w \in W : root[w] \in H /\ rank[w] \in 0..top
  BY DEF Chained
<1>2. V \subseteq W /\ \A w \in V : root[w] # n
  OBVIOUS
<1>3. /\ root1 \in [V -> H1] /\ rank1 \in [V -> 0..top]
      /\ \A w \in V : root1[w] = (IF root[w] = o THEN n ELSE root[w]) /\ rank1[w] = rank[w]
  BY <1>1
<1> HIDE DEF root1, rank1
<1>4. \A v \in H1 \cup V : /\ block1[v] = block[old(v)] /\ old(v) \in H \cup V /\ old(v) # n
                           /\ v \in V => old(v) = v
                           /\ v \in H1 => old(v) \in H
  BY <1>1
<1>5. \A u, v \in H1 \cup V : old(u) = old(v) => u = v
  BY <1>1
<1> HIDE DEF old
<1>6. \A v \in H \cup V : v # n => block[v] \in V \cup {NOLOCKF}
  <2> TAKE v \in H \cup V
  <2> HAVE v # n
  <2>1. block[v] \in W \cup {NOLOCKF}
    BY <1>2 DEF Chained
  <2>2. block[v] \in W => root[block[v]] # n
    <3>1. CASE v \in H
      BY <3>1 DEF Chained
    <3>2. CASE v \in V
      BY <1>2, <3>2 DEF Chained
    <3> QED
      BY <3>1, <3>2
  <2> QED
    BY <2>1, <2>2
<1>7. \A w \in V : \E v \in H1 \cup V : block1[v] = w
  <2> TAKE w \in V
  <2>1. PICK v \in H \cup W : block[v] = w
    BY <1>2 DEF Chained
  <2>2. v # n
    BY <1>2, <2>1 DEF Chained
  <2>3. v \in W => root[v] # n
    BY <1>2, <2>1 DEF Chained
  <2>4. v \in H \cup V
    BY <2>1, <2>3
  <2>5. CASE v = o
    <3>1. block1[n] = w /\ n \in H1
      BY <2>1, <2>5
    <3> QED
      BY <3>1
  <2>6. CASE v # o
    <3>1. block1[v] = w /\ v \in H1 \cup V
      BY <2>1, <2>2, <2>4, <2>6
    <3> QED
      BY <3>1
  <2> QED
    BY <2>5, <2>6
<1>8. \A u, v \in H1 \cup V : block1[u] = block1[v] /\ block1[u] \in V => u = v
  <2> TAKE u, v \in H1 \cup V
  <2> HAVE block1[u] = block1[v] /\ block1[u] \in V
  <2>1. block[old(u)] = block[old(v)] /\ block[old(u)] \in W /\ old(u) \in H \cup W /\ old(v) \in H \cup W
    BY <1>2, <1>4
  <2>2. old(u) = old(v)
    BY <2>1 DEF Chained
  <2> QED
    BY <1>5, <2>2
<1>9. \A v \in H1 \cup V : block1[v] \in V \cup {NOLOCKF}
  BY <1>4, <1>6
<1>10. \A h \in H1 : block1[h] \in V => root1[block1[h]] = h
  <2> TAKE h \in H1
  <2> HAVE block1[h] \in V
  <2>1. block1[h] = block[old(h)] /\ old(h) \in H /\ block[old(h)] \in W
    BY <1>2, <1>4
  <2>2. root[block1[h]] = old(h)
    BY <2>1 DEF Chained
  <2> QED
    BY <1>3, <2>2 DEF old
<1>11. \A v \in V : block1[v] \in V => root1[block1[v]] = root1[v] /\ rank1[v] < rank1[block1[v]]
  <2> TAKE v \in V
  <2> HAVE block1[v] \in V
  <2>1. block1[v] = block[v] /\ block[v] \in W /\ v \in W
    BY <1>2, <1>4
  <2>2. root[block[v]] = root[v] /\ rank[v] < rank[block[v]]
    BY <2>1 DEF Chained
  <2> QED
    BY <1>3, <2>1, <2>2
<1>12. \A w \in V : Opposed(e[w], e[root1[w]]) /\ (Interruptible => next[w] = root1[w])
  <2> TAKE w \in V
  <2>1. Opposed(e[w], e[root[w]]) /\ w \in W
    BY <1>2 DEF Chained
  <2> QED
    BY <1>3, <2>1
<1>13. V \cap H1 = {} /\ NOLOCKF \notin V
  BY <1>1
<1>14. Chained(block1, next, H1, V, e, root1, rank1, top)
  <2> HIDE DEF V, H1
  <2> QED
    BY <1>1, <1>3, <1>7, <1>8, <1>9, <1>10, <1>11, <1>12, <1>13 DEF Chained
<1>15. ASSUME n \notin H \/ block[n] = NOLOCKF PROVE D = {}
  <2> SUFFICES ASSUME NEW w \in D PROVE FALSE
    OBVIOUS
  <2>1. w \in W /\ root[w] = n /\ n \in H
    BY <1>1
  <2>2. block[root[w]] # NOLOCKF
    BY <1>0, <2>1
  <2> QED
    BY <1>15, <2>1, <2>2
<1>16. ASSUME n \in H, block[n] # NOLOCKF PROVE \E drank : Piece(block1, D, block[n], drank, top)
  <2> DEFINE drank == [w \in D |-> rank[w]]
             c == block[n]
  <2>1. drank \in [D -> 0..top] /\ \A w \in D : drank[w] = rank[w]
    BY <1>1
  <2> HIDE DEF drank
  <2>2. c \in D /\ NOLOCKF \notin D /\ D \subseteq W /\ \A v \in D : block1[v] = block[v] /\ v # n
    BY <1>1, <1>16 DEF Chained
  <2>3. \A w \in D \ {c} : \E v \in D : block1[v] = w
    <3> TAKE w \in D \ {c}
    <3>1. PICK v \in H \cup W : block[v] = w
      BY DEF Chained
    <3>2. v \notin H
      BY <3>1 DEF Chained
    <3>3. v \in D
      BY <3>1, <3>2 DEF Chained
    <3> QED
      BY <2>2, <3>1, <3>3
  <2>4. \A v \in D : block1[v] \in (D \ {c}) \cup {NOLOCKF}
    <3> TAKE v \in D
    <3>1. block1[v] = block[v] /\ block[v] \in W \cup {NOLOCKF} /\ v \in W /\ v # n
      BY <2>2 DEF Chained
    <3>2. block[v] \in W => root[block[v]] = n
      BY <3>1 DEF Chained
    <3>3. block[v] # c
      BY <1>16, <2>2, <3>1 DEF Chained
    <3> QED
      BY <3>1, <3>2, <3>3
  <2>5. \A u, v \in D : block1[u] = block1[v] /\ block1[u] \in D => u = v
    BY <2>2 DEF Chained
  <2>6. \A v \in D : block1[v] \in D => drank[v] < drank[block1[v]]
    <3> TAKE v \in D
    <3> HAVE block1[v] \in D
    <3>1. block1[v] = block[v] /\ block[v] \in W /\ v \in W
      BY <2>2
    <3>2. rank[v] < rank[block[v]]
      BY <3>1 DEF Chained
    <3> QED
      BY <2>1, <3>1, <3>2
  <2> HIDE DEF c
  <2>7. Piece(block1, D, c, drank, top)
    BY <1>1, <2>1, <2>2, <2>3, <2>4, <2>5, <2>6 DEF Piece
  <2> QED
    BY <2>7 DEF c
<1> QED
  BY <1>14, <1>15, <1>16

\* The request n takes itself off its chain, behind k.
LEMMA ChainsLeft ==
  ASSUME NEW block \in Pointers, NEW next, NEW H, H \subseteq Locks, NEW W, W \subseteq Locks,
         NEW e, Chains(block, next, H, W, e), NEW n \in W, NEW k \in H \cup W, block[k] = n,
         NEW block2, \A j \in Locks : block2[j] = IF j = k THEN block[n] ELSE block[j]
  PROVE  Chains(block2, next, H, W \ {n}, e)
<1>1. PICK root, rank, top : Chained(block, next, H, W, e, root, rank, top)
  BY DEF Chains
<1> DEFINE V == W \ {n}
           old(v) == IF v = k THEN n ELSE v
           root2 == [w \in V |-> root[w]]
           rank2 == [w \in V |-> rank[w]]
<1>2. /\ root2 \in [V -> H] /\ rank2 \in [V -> 0..top]
      /\ \A w \in V : root2[w] = root[w] /\ rank2[w] = rank[w] /\ rank[w] \in Int
      /\ rank[n] \in Int /\ W \cap H = {} /\ NOLOCKF \notin W /\ top \in Nat
  BY <1>1 DEF Chained
<1> HIDE DEF root2, rank2
<1>3. block[n] # n /\ k # n
  <2>1. \A v \in W : block[v] \in W => rank[v] < rank[block[v]]
    BY <1>1 DEF Chained
  <2> QED
    BY <1>2, <2>1
<1>4. \A v \in H \cup V : block2[v] = block[old(v)] /\ old(v) \in H \cup W /\ (v # k => old(v) = v)
  OBVIOUS
<1>5. \A u, v \in H \cup V : old(u) = old(v) => u = v
  BY <1>2
<1>6. \A v \in H \cup V : block2[v] \in V \cup {NOLOCKF}
  <2> TAKE v \in H \cup V
  <2>1. block2[v] \in W \cup {NOLOCKF}
    BY <1>1, <1>4 DEF Chained
  <2>2. block2[v] # n
    <3>1. CASE v = k
      BY <1>3, <3>1
    <3>2. CASE v # k
      BY <1>1, <3>2 DEF Chained
    <3> QED
      BY <3>1, <3>2
  <2> QED
    BY <2>1, <2>2
<1>7. \A w \in V : \E v \in H \cup V : block2[v] = w
  <2> TAKE w \in V
  <2>1. PICK v \in H \cup W : block[v] = w
    BY <1>1 DEF Chained
  <2>2. CASE v = n
    BY <1>3, <2>1, <2>2
  <2>3. CASE v # n
    <3>1. v # k /\ v \in H \cup V
      BY <2>1, <2>3
    <3> QED
      BY <2>1, <3>1
  <2> QED
    BY <2>2, <2>3
<1>8. \A u, v \in H \cup V : block2[u] = block2[v] /\ block2[u] \in V => u = v
  <2> TAKE u, v \in H \cup V
  <2> HAVE block2[u] = block2[v] /\ block2[u] \in V
  <2>1. block[old(u)] = block[old(v)] /\ block[old(u)] \in W /\ old(u) \in H \cup W /\ old(v) \in H \cup W
    BY <1>4
  <2> HIDE DEF old
  <2>2. old(u) = old(v)
    BY <1>1, <2>1 DEF Chained
  <2> QED
    BY <1>5, <2>2
<1>9. \A h \in H : block2[h] \in V => root2[block2[h]] = h
  <2> TAKE h \in H
  <2> HAVE block2[h] \in V
  <2>1. CASE h = k
    <3>1. block2[h] = block[n] /\ block[n] \in W /\ block[h] = n
      BY <2>1
    <3>2. root[n] = h /\ root[block[n]] = root[n]
      BY <1>1, <3>1 DEF Chained
    <3> QED
      BY <1>2, <3>1, <3>2
  <2>2. CASE h # k
    <3>1. block2[h] = block[h] /\ block[h] \in W
      BY <2>2
    <3>2. root[block[h]] = h
      BY <1>1, <3>1 DEF Chained
    <3> QED
      BY <1>2, <3>1, <3>2
  <2> QED
    BY <2>1, <2>2
<1>10. \A v \in V : block2[v] \in V => root2[block2[v]] = root2[v] /\ rank2[v] < rank2[block2[v]]
  <2> TAKE v \in V
  <2> HAVE block2[v] \in V
  <2>1. CASE v = k
    <3>1. block2[v] = block[n] /\ block[n] \in W /\ block[v] = n /\ v \in W
      BY <2>1
    <3>2. /\ root[n] = root[v] /\ root[block[n]] = root[n]
          /\ rank[v] < rank[n] /\ rank[n] < rank[block[n]]
      BY <1>1, <3>1 DEF Chained
    <3>3. rank[v] \in Int /\ rank[n] \in Int /\ rank[block[n]] \in Int
      BY <1>2, <2>1, <3>1
    <3>4. rank[v] < rank[block[n]]
      BY <3>2, <3>3
    <3> QED
      BY <1>2, <3>1, <3>2, <3>4
  <2>2. CASE v # k
    <3>1. block2[v] = block[v] /\ block[v] \in W /\ v \in W
      BY <2>2
    <3>2. root[block[v]] = root[v] /\ rank[v] < rank[block[v]]
      BY <1>1, <3>1 DEF Chained
    <3> QED
      BY <1>2, <3>1, <3>2
  <2> QED
    BY <2>1, <2>2
<1>11. \A w \in V : Opposed(e[w], e[root2[w]]) /\ (Interruptible => next[w] = root2[w])
  BY <1>1, <1>2 DEF Chained
<1>12. V \cap H = {} /\ NOLOCKF \notin V
  BY <1>2
<1>13. Chained(block2, next, H, V, e, root2, rank2, top)
  <2> HIDE DEF V
  <2> QED
    BY <1>2, <1>6, <1>7, <1>8, <1>9, <1>10, <1>11, <1>12 DEF Chained
<1> QED
  BY <1>13 DEF Chains

\* What lf_wakelock and lf_addblock do to the pointers.
LEMMA WakeParts ==
  ASSUME NEW F, IsFile(F), NEW k \in Locks
  PROVE  LET G == lf_wakelock(F, k)
             woken == Blocked(F.block, k)
         IN  /\ IsFile(G) /\ woken \subseteq Locks /\ G.woken = F.woken \cup woken
             /\ \A j \in Locks : /\ G.block[j] = IF j \in woken \cup {k} THEN NOLOCKF ELSE F.block[j]
                                 /\ G.next[j] = IF j \in woken THEN NOLOCKF ELSE F.next[j]
             /\ woken \subseteq Requests => G.system = F.system
<1> DEFINE woken == Blocked(F.block, k)
           G == lf_wakelock(F, k)
<1>1. IsFile(G) /\ woken \subseteq Locks
  BY WakeIs, BlockedLocks DEF IsFile
<1> HIDE DEF woken
<1>2. G = [F EXCEPT !.block = [j \in Locks |-> IF j \in woken \cup {k} THEN NOLOCKF ELSE @[j]],
                    !.next = [j \in Locks |-> IF j \in woken THEN NOLOCKF ELSE @[j]],
                    !.woken = @ \cup woken,
                    !.system = IF woken \subseteq Requests THEN @ ELSE "memory corrupted"]
  BY DEF lf_wakelock, woken
<1>3. /\ G.block = [j \in Locks |-> IF j \in woken \cup {k} THEN NOLOCKF ELSE F.block[j]]
      /\ G.next = [j \in Locks |-> IF j \in woken THEN NOLOCKF ELSE F.next[j]]
      /\ G.woken = F.woken \cup woken
      /\ G.system = IF woken \subseteq Requests THEN F.system ELSE "memory corrupted"
  BY <1>2 DEF IsFile
<1> HIDE DEF G
<1>4. \A j \in Locks : /\ G.block[j] = IF j \in woken \cup {k} THEN NOLOCKF ELSE F.block[j]
                       /\ G.next[j] = IF j \in woken THEN NOLOCKF ELSE F.next[j]
  BY <1>3
<1> QED
  BY <1>1, <1>3, <1>4 DEF G, woken

AddedBehind(F, k, b, G) ==
  /\ IsFile(G) /\ G.next = F.next /\ G.woken = F.woken /\ G.system = F.system
  /\ \E end \in Ends(F.block, k) : \A j \in Locks : G.block[j] = IF j = end THEN b ELSE F.block[j]

LEMMA AddParts ==
  ASSUME NEW F, IsFile(F), NEW k \in Locks, NEW b \in Locks, Ends(F.block, k) # {}
  PROVE  AddedBehind(F, k, b, lf_addblock(F, k, b))
<1> DEFINE ends == Ends(F.block, k)
           G == lf_addblock(F, k, b)
<1>1. IsFile(G) /\ ends \subseteq Locks /\ b # NOLOCKF
  BY AddIs, BlockedLocks, NotALock DEF IsFile
<1> HIDE DEF ends
<1>2. PICK end \in ends : G = [F EXCEPT !.block[end] = b]
  BY <1>1 DEF lf_addblock, ends
<1>3. G.block = [F.block EXCEPT ![end] = b] /\ G.next = F.next /\ G.woken = F.woken /\ G.system = F.system
  BY <1>2 DEF IsFile
<1> HIDE DEF G
<1>4. \A j \in Locks : G.block[j] = IF j = end THEN b ELSE F.block[j]
  BY <1>3 DEF IsFile, Pointers
<1> QED
  BY <1>1, <1>3, <1>4 DEF AddedBehind, G, ends

LEMMA QueuedWoken ==
  ASSUME NEW F, NEW n, NEW H, NEW e, Queued(F, n, H, e), NEW o \in H
  PROVE  LET G == lf_wakelock(F, o)
         IN  /\ Queued(G, n, H, e) /\ G.block[o] = NOLOCKF
             /\ \A j \in Locks : G.block[j] = NOLOCKF \/ G.block[j] = F.block[j]
<1> DEFINE G == lf_wakelock(F, o)
           woken == Blocked(F.block, o)
           W == Waiting \ F.woken
<1>0. /\ IsFile(F) /\ F.system = "runs" /\ H \subseteq Locks /\ o \in Locks
      /\ n \notin Waiting /\ Waiting \subseteq Requests /\ Requests \subseteq Locks
      /\ (Requests \ {n}) \cap H = {} /\ F.woken \subseteq Waiting
      /\ \A w \in Requests \ {n} :
           /\ w \in F.woken => F.block[w] = NOLOCKF /\ F.next[w] = NOLOCKF
           /\ w \notin F.woken => F.next[w] = lf_next[w]
           /\ w \notin Waiting => F.block[w] = lf_block[w]
      /\ n \in Locks \ H => F.block[n] = NOLOCKF
      /\ Chains(F.block, F.next, H, W, e) /\ W \subseteq Locks /\ F.block \in Pointers
  BY DEF Queued, IsFile
<1>1. /\ IsFile(G) /\ woken \subseteq Locks /\ G.woken = F.woken \cup woken
      /\ \A j \in Locks : /\ G.block[j] = IF j \in woken \cup {o} THEN NOLOCKF ELSE F.block[j]
                          /\ G.next[j] = IF j \in woken THEN NOLOCKF ELSE F.next[j]
      /\ woken \subseteq Requests => G.system = F.system
  BY <1>0, WakeParts
<1> HIDE DEF G, woken, W
<1>2. Chains(G.block, G.next, H, W \ woken, e) /\ woken \subseteq W
  BY <1>0, <1>1, ChainsWoken DEF woken
<1>3. W \ woken = Waiting \ G.woken /\ W \subseteq Waiting
  BY <1>1 DEF W
<1>4. \A w \in Requests \ {n} :
           /\ w \in G.woken => G.block[w] = NOLOCKF /\ G.next[w] = NOLOCKF
           /\ w \notin G.woken => G.next[w] = lf_next[w]
           /\ w \notin Waiting => G.block[w] = lf_block[w]
  BY <1>0, <1>1, <1>2, <1>3
<1>5. n \in Locks \ H => G.block[n] = NOLOCKF
  BY <1>0, <1>1
<1>6. Queued(G, n, H, e)
  BY <1>0, <1>1, <1>2, <1>3, <1>4, <1>5 DEF Queued
<1> QED
  BY <1>0, <1>1, <1>6 DEF G

\* From F to G only locks with nothing behind them come and go.
QueuedKept(F, n, H, e, G, H2, e2) ==
  /\ IsFile(G) /\ G.woken = F.woken /\ G.system = F.system /\ H2 \subseteq Locks
  /\ (Requests \ {n}) \cap H2 = {}
  /\ \A h \in H \ H2 : F.block[h] = NOLOCKF
  /\ \A h \in H2 \ H : G.block[h] = NOLOCKF
  /\ \A h \in H \cap H2 : G.block[h] = F.block[h]
  /\ \A w \in Requests \ {n} : G.block[w] = F.block[w] /\ G.next[w] = F.next[w] /\ e2[w] = e[w]
  /\ \A h \in H \cap H2 : \/ F.block[h] = NOLOCKF
                          \/ \A w \in Waiting : Opposed(e[w], e[h]) => Opposed(e[w], e2[h])
  /\ n \in Locks \ H2 => G.block[n] = NOLOCKF

LEMMA QueuedEdit ==
  ASSUME NEW F, NEW n, NEW H, NEW e, Queued(F, n, H, e), NEW G, NEW H2, NEW e2,
         QueuedKept(F, n, H, e, G, H2, e2)
  PROVE  Queued(G, n, H2, e2)
<1> DEFINE W == Waiting \ F.woken
<1>1. /\ Chains(F.block, F.next, H, W, e) /\ F.block \in Pointers /\ H \subseteq Locks /\ W \subseteq Locks
      /\ W \subseteq Requests \ {n} /\ W \subseteq Waiting
  BY DEF Queued, IsFile
<1>2. ChainsKept(F.block, H, W, e, G.block, F.next, G.next, H2, e2)
  <2> HIDE DEF W
  <2> QED
    BY <1>1 DEF QueuedKept, ChainsKept
<1>3. Chains(G.block, G.next, H2, W, e2)
  <2> HIDE DEF W
  <2> QED
    BY <1>1, <1>2, ChainsEdit
<1> QED
  BY <1>3 DEF Queued, QueuedKept

\* lf_setlock hands the chain of o over to n.
LEMMA QueuedHanded ==
  ASSUME NEW F, NEW n, NEW H, NEW e, Queued(F, n, H, e), NEW o \in H, n \in Locks, n # o,
         ~ Interruptible,
         \A w \in Waiting : Opposed(e[w], e[o]) => Opposed(e[w], e[n])
  PROVE  LET G == lf_addblock([F EXCEPT !.block[n] = F.block[o]], n, F.block[n])
         IN  Queued(G, n, (H \ {o}) \cup {n}, e)
<1> DEFINE F1 == [F EXCEPT !.block[n] = F.block[o]]
           G  == lf_addblock(F1, n, F.block[n])
           W  == Waiting \ F.woken
           H1 == (H \ {o}) \cup {n}
<1> SUFFICES Queued(G, n, H1, e)
  OBVIOUS
<1>0. /\ IsFile(F) /\ F.system = "runs" /\ H \subseteq Locks /\ o \in Locks
      /\ n \notin Waiting /\ Waiting \subseteq Requests /\ Requests \subseteq Locks
      /\ (Requests \ {n}) \cap H = {} /\ F.woken \subseteq Waiting
      /\ \A w \in Requests \ {n} :
           /\ w \in F.woken => F.block[w] = NOLOCKF /\ F.next[w] = NOLOCKF
           /\ w \notin F.woken => F.next[w] = lf_next[w]
           /\ w \notin Waiting => F.block[w] = lf_block[w]
      /\ n \in Locks \ H => F.block[n] = NOLOCKF
      /\ W \subseteq Locks /\ W \subseteq Waiting /\ F.block \in Pointers
  BY DEF Queued, IsFile
<1>1. PICK root, rank, top : Chained(F.block, F.next, H, W, e, root, rank, top)
  BY DEF Queued, Chains
<1>2. /\ IsFile(F1) /\ F1.next = F.next /\ F1.woken = F.woken /\ F1.system = F.system
      /\ \A j \in Locks : F1.block[j] = IF j = n THEN F.block[o] ELSE F.block[j]
      /\ F1.block \in Pointers
  BY <1>0 DEF IsFile, Pointers
<1> HIDE DEF F1, W, G
<1>8. PICK D : D = {w \in W : root[w] = n}
  OBVIOUS
<1>3. /\ \E root1, rank1 : Chained(F1.block, F.next, H1, W \ D, e, root1, rank1, top)
      /\ n \in H /\ F.block[n] # NOLOCKF => \E drank : Piece(F1.block, D, F.block[n], drank, top)
      /\ n \notin H \/ F.block[n] = NOLOCKF => D = {}
  <2>0. F.block \in Pointers /\ H \subseteq Locks /\ W \subseteq Locks
    BY <1>0
  <2>1. Hands(F.block, F1.block, H, W, e, root, D, o, n)
    BY <1>0, <1>2, <1>8 DEF Hands
  <2> QED
    BY <2>0, <1>1, <2>1, ChainsHanded
<1>4. PICK root1, rank1 : Chained(F1.block, F.next, H1, W \ D, e, root1, rank1, top)
  BY <1>3
<1>5. H1 \subseteq Locks /\ n \in H1 /\ (Requests \ {n}) \cap H1 = {} /\ n \notin W
  BY <1>0
<1>6. CASE F.block[n] = NOLOCKF
  <2>1. G = F1 /\ D = {}
    BY <1>3, <1>6 DEF lf_addblock, G
  <2>2. Chains(F1.block, F1.next, H1, W, e)
    <3>1. W \ D = W
      BY <2>1
    <3> QED
      BY <1>2, <1>4, <3>1 DEF Chains
  <2>3. Queued(F1, n, H1, e)
    <3> HIDE DEF H1
    <3>1. \A w \in Requests \ {n} :
           /\ w \in F1.woken => F1.block[w] = NOLOCKF /\ F1.next[w] = NOLOCKF
           /\ w \notin F1.woken => F1.next[w] = lf_next[w]
           /\ w \notin Waiting => F1.block[w] = lf_block[w]
      BY <1>0, <1>2
    <3> QED
      BY <1>0, <1>2, <1>5, <2>2, <3>1 DEF Queued, W
  <2> QED
    BY <2>1, <2>3
<1>7. CASE F.block[n] # NOLOCKF
  <2> DEFINE c == F.block[n]
  <2>1. n \in H /\ c \in Locks
    BY <1>0, <1>7 DEF Pointers
  <2>2. PICK drank : Piece(F1.block, D, c, drank, top)
    BY <1>3, <1>7, <2>1
  <2>3. Blocked(F1.block, n) = {w \in W \ D : root1[w] = n} /\ Ends(F1.block, n) # {}
    <3>1. W \ D \subseteq Locks
      BY <1>0
    <3> HIDE DEF H1
    <3> QED
      BY <1>2, <1>4, <1>5, <3>1, ChainIs
  <2> HIDE DEF H1, c
  <2>4. /\ IsFile(G) /\ G.next = F1.next /\ G.woken = F1.woken /\ G.system = F1.system
        /\ \E end \in Ends(F1.block, n) :
             \A j \in Locks : G.block[j] = IF j = end THEN c ELSE F1.block[j]
    BY <1>2, <2>1, <2>3, AddParts DEF AddedBehind, c, G
  <2>5. PICK end \in Ends(F1.block, n) :
             \A j \in Locks : G.block[j] = IF j = end THEN c ELSE F1.block[j]
    BY <2>4
  <2>6. end \in {n} \cup {w \in W \ D : root1[w] = n} /\ F1.block[end] = NOLOCKF
    BY <2>3 DEF Ends
  <2>7. D \subseteq Locks /\ D \subseteq W /\ D \cap (H1 \cup (W \ D)) = {} /\ W \ D \subseteq Locks
    <3>1. W \cap H = {}
      BY <1>1 DEF Chained
    <3> QED
      BY <1>0, <1>5, <1>8, <3>1 DEF H1
  <2>8. \A w \in D : Opposed(e[w], e[n]) /\ (Interruptible => F.next[w] = n)
    BY <1>1, <1>8 DEF Chained
  <2>9. Chains(G.block, F.next, H1, (W \ D) \cup D, e)
    <3>1. PICK V : V = W \ D
      OBVIOUS
    <3>2. /\ Chained(F1.block, F.next, H1, V, e, root1, rank1, top) /\ V \subseteq Locks
          /\ Joins(F1.block, G.block, F.next, H1, V, e, root1, D, c, n, end)
      BY <1>4, <1>5, <2>5, <2>6, <2>7, <2>8, <3>1 DEF Joins
    <3>3. Chains(G.block, F.next, H1, V \cup D, e)
      BY <1>2, <1>5, <2>2, <3>2, ChainsJoined
    <3> QED
      BY <3>1, <3>3
  <2>10. (W \ D) \cup D = W
    BY <2>7
  <2>11. \A w \in Requests \ {n} :
           /\ w \in G.woken => G.block[w] = NOLOCKF /\ G.next[w] = NOLOCKF
           /\ w \notin G.woken => G.next[w] = lf_next[w]
           /\ w \notin Waiting => G.block[w] = lf_block[w]
    <3> TAKE w \in Requests \ {n}
    <3>1. w \in F.woken \/ w \notin Waiting => w # end
      BY <1>0, <2>6 DEF W
    <3> QED
      BY <1>0, <1>2, <2>4, <2>5, <3>1
  <2>12. Chains(G.block, G.next, H1, Waiting \ G.woken, e)
    BY <1>2, <2>4, <2>9, <2>10 DEF W
  <2>13. Queued(G, n, H1, e)
    BY <1>0, <1>2, <1>5, <2>4, <2>11, <2>12 DEF Queued
  <2> QED
    BY <2>13
<1> QED
  BY <1>6, <1>7

\* F and G differ in the list and in what the locks hold, at most.
SameQueue(F, G) ==
  /\ IsFile(F) /\ IsFile(G)
  /\ G.block = F.block /\ G.next = F.next /\ G.woken = F.woken /\ G.system = F.system

LEMMA QueuedSame ==
  ASSUME NEW F, NEW n, NEW H, NEW e, Queued(F, n, H, e), NEW G, SameQueue(F, G)
  PROVE  Queued(G, n, H, e)
BY DEF Queued, SameQueue

LEMMA WakeSame ==
  ASSUME NEW F, NEW G, SameQueue(F, G), NEW o \in Locks
  PROVE  SameQueue(lf_wakelock(F, o), lf_wakelock(G, o))
<1> DEFINE A == lf_wakelock(F, o)
           B1 == lf_wakelock(G, o)
           woken == Blocked(F.block, o)
<1>1. IsFile(F) /\ IsFile(G) /\ G.block = F.block /\ G.next = F.next /\ G.woken = F.woken
      /\ G.system = F.system
  BY DEF SameQueue
<1>2. IsFile(A) /\ IsFile(B1)
  BY <1>1, WakeIs
<1>3. /\ A = [F EXCEPT !.block = [j \in Locks |-> IF j \in woken \cup {o} THEN NOLOCKF ELSE @[j]],
                      !.next = [j \in Locks |-> IF j \in woken THEN NOLOCKF ELSE @[j]],
                      !.woken = @ \cup woken,
                      !.system = IF woken \subseteq Requests THEN @ ELSE "memory corrupted"]
      /\ B1 = [G EXCEPT !.block = [j \in Locks |-> IF j \in woken \cup {o} THEN NOLOCKF ELSE @[j]],
                       !.next = [j \in Locks |-> IF j \in woken THEN NOLOCKF ELSE @[j]],
                       !.woken = @ \cup woken,
                       !.system = IF woken \subseteq Requests THEN @ ELSE "memory corrupted"]
  BY <1>1 DEF lf_wakelock
<1> HIDE DEF A, B1, woken
<1>4. /\ A.block = [j \in Locks |-> IF j \in woken \cup {o} THEN NOLOCKF ELSE F.block[j]]
      /\ A.next = [j \in Locks |-> IF j \in woken THEN NOLOCKF ELSE F.next[j]]
      /\ A.woken = F.woken \cup woken
      /\ A.system = IF woken \subseteq Requests THEN F.system ELSE "memory corrupted"
  BY <1>1, <1>3 DEF IsFile
<1>5. /\ B1.block = [j \in Locks |-> IF j \in woken \cup {o} THEN NOLOCKF ELSE G.block[j]]
      /\ B1.next = [j \in Locks |-> IF j \in woken THEN NOLOCKF ELSE G.next[j]]
      /\ B1.woken = G.woken \cup woken
      /\ B1.system = IF woken \subseteq Requests THEN G.system ELSE "memory corrupted"
  BY <1>1, <1>3 DEF IsFile
<1>6. A.block = B1.block /\ A.next = B1.next /\ A.woken = B1.woken /\ A.system = B1.system
  <2>1. PICK b, x : b = F.block /\ x = F.next /\ G.block = b /\ G.next = x
    BY <1>1
  <2>2. A.block = B1.block
    <3>1. A.block = [j \in Locks |-> IF j \in woken \cup {o} THEN NOLOCKF ELSE b[j]]
      BY <1>4, <2>1
    <3>2. B1.block = [j \in Locks |-> IF j \in woken \cup {o} THEN NOLOCKF ELSE b[j]]
      BY <1>5, <2>1
    <3> QED
      BY <3>1, <3>2
  <2>3. A.next = B1.next
    <3>1. A.next = [j \in Locks |-> IF j \in woken THEN NOLOCKF ELSE x[j]]
      BY <1>4, <2>1
    <3>2. B1.next = [j \in Locks |-> IF j \in woken THEN NOLOCKF ELSE x[j]]
      BY <1>5, <2>1
    <3> QED
      BY <3>1, <3>2
  <2>4. A.woken = B1.woken /\ A.system = B1.system
    BY <1>1, <1>4, <1>5
  <2> QED
    BY <2>2, <2>3, <2>4
<1>7. SameQueue(A, B1)
  BY <1>2, <1>6 DEF SameQueue
<1> QED
  BY <1>7 DEF A, B1

\* One turn of lf_setlock, case by case.
LinkedQueue(F, j, c, n, spare, o, k, G) ==
  LET downgrade == k.lf_type = "F_RDLCK" /\ F.lf[o].lf_type = "F_WRLCK"
      W == lf_wakelock(F, o)
  IN  /\ c = 0 => SameQueue(F, G)
      /\ c = 1 /\ downgrade => SameQueue(W, G)
      /\ c = 1 /\ ~ downgrade => SameQueue(F, G)
      /\ c = 2 /\ F.lf[o].lf_type = k.lf_type => G = F
      /\ c = 2 /\ F.lf[o].lf_type # k.lf_type /\ F.lf[o].lf_start = k.lf_start => SameQueue(W, G)
      /\ c = 2 /\ F.lf[o].lf_type # k.lf_type /\ F.lf[o].lf_start # k.lf_start =>
           G = lf_wakelock(lf_split(F, j, k, <<n>>, spare), o)
      /\ c = 3 /\ downgrade => SameQueue(W, G)
      /\ c = 3 /\ ~ downgrade =>
           SameQueue(lf_addblock([F EXCEPT !.block[n] = F.block[o]], n, F.block[n]), G)
      /\ c \in {4, 5} => SameQueue(W, G)

LEMMA LinkQueue ==
  ASSUME NEW F, IsFile(F), NEW link \in BOOLEAN, NEW j, NEW c \in 0..5, NEW n \in Locks,
         NEW spare, NEW o, o = F.list[j], NEW k, k = F.lf[n], c # 0 => o \in Locks
  PROVE  LinkedQueue(F, j, c, n, spare, o, k, link_at(F, link, j, c, n, spare).file)
<1> DEFINE y == link_at(F, link, j, c, n, spare)
           f == F.lf
           l == F.lf[o]
           Put(H) == IF link THEN [H EXCEPT !.list = InsertAt(@, j, n)] ELSE H
           downgrade == k.lf_type = "F_RDLCK" /\ l.lf_type = "F_WRLCK"
           W == lf_wakelock(F, o)
<1>0. c # 0 => IsFile(W)
  BY WakeIs
<1>10. ASSUME NEW H, SameQueue(F, H), c # 0 PROVE SameQueue(W, lf_wakelock(H, o))
  BY <1>10, WakeSame
<1>1. ASSUME c = 0 PROVE SameQueue(F, y.file)
  <2>1. y = Done(Put(F))
    BY <1>1 DEF link_at
  <2>2. SameQueue(F, Put(F))
    BY DEF IsFile, SameQueue
  <2> HIDE DEF Put, y
  <2> QED
    BY <2>1, <2>2, DoneIs
<1>2. ASSUME c = 1 PROVE SameQueue(IF downgrade THEN W ELSE F, y.file)
  <2> DEFINE H == IF downgrade THEN W ELSE F
             G == [H EXCEPT !.lf[o].lf_type = k.lf_type]
  <2>1. y = Done(G)
    BY <1>2 DEF link_at
  <2>2. IsFile(H)
    BY <1>0, <1>2
  <2> HIDE DEF H
  <2>3. SameQueue(H, G)
    BY <2>2 DEF IsFile, SameQueue
  <2> HIDE DEF G, y
  <2>4. SameQueue(H, y.file)
    BY <2>1, <2>3, DoneIs
  <2> QED
    BY <2>4 DEF H
<1>3. ASSUME c = 2, l.lf_type = k.lf_type PROVE y.file = F
  <2>1. y = Done(F)
    BY <1>3 DEF link_at
  <2> HIDE DEF y
  <2> QED
    BY <2>1, DoneIs
<1>4. ASSUME c = 2, l.lf_type # k.lf_type, l.lf_start = k.lf_start PROVE SameQueue(W, y.file)
  <2> DEFINE H == [F EXCEPT !.list = InsertAt(@, j, n), !.lf[o].lf_start = k.lf_end + 1]
             G == lf_wakelock(H, o)
  <2>1. y = Done(G)
    BY <1>4 DEF link_at
  <2>2. SameQueue(F, H)
    BY DEF IsFile, SameQueue
  <2> HIDE DEF H, W
  <2>3. SameQueue(W, G)
    BY <1>4, <1>10, <2>2
  <2> HIDE DEF G, y
  <2> QED
    BY <2>1, <2>3, DoneIs
<1>5. ASSUME c = 2, l.lf_type # k.lf_type, l.lf_start # k.lf_start
      PROVE  y.file = lf_wakelock(lf_split(F, j, k, <<n>>, spare), o)
  <2> DEFINE G == lf_wakelock(lf_split(F, j, k, <<n>>, spare), o)
  <2>1. y = Done(G)
    BY <1>5 DEF link_at
  <2> HIDE DEF G, y
  <2> QED
    BY <2>1, DoneIs DEF G
<1>6. ASSUME c = 3
      PROVE  SameQueue(IF downgrade THEN W
                       ELSE lf_addblock([F EXCEPT !.block[n] = F.block[o]], n, F.block[n]), y.file)
  <2> DEFINE I == [F EXCEPT !.block[n] = F.block[o]]
             H == IF downgrade THEN W ELSE lf_addblock(I, n, F.block[n])
  <2>1. y = IF link THEN Going([H EXCEPT !.list[j] = n], j + 1, FALSE)
            ELSE Going([H EXCEPT !.list = RemoveAt(@, j)], j, FALSE)
    BY <1>6 DEF link_at
  <2>2. IsFile(I)
    BY <1>6 DEF IsFile, Pointers
  <2>3. F.block[n] \in Locks \cup {NOLOCKF}
    BY DEF IsFile, Pointers
  <2> HIDE DEF I
  <2>4. IsFile(H)
    <3>1. LET J == lf_addblock(I, n, F.block[n]) IN IsFile(J)
      BY <2>2, <2>3, AddIs
    <3> QED
      BY <1>0, <1>6, <3>1
  <2> HIDE DEF H
  <2>5. SameQueue(H, y.file)
    <3>1. CASE link
      <4> DEFINE G == [H EXCEPT !.list[j] = n]
      <4>1. y = Going(G, j + 1, FALSE)
        BY <2>1, <3>1
      <4>2. SameQueue(H, G)
        BY <2>4 DEF IsFile, SameQueue
      <4>3. y.file = G
        BY <4>1 DEF Going
      <4> HIDE DEF G, y
      <4> QED
        BY <4>2, <4>3
    <3>2. CASE ~ link
      <4> DEFINE G == [H EXCEPT !.list = RemoveAt(@, j)]
      <4>1. y = Going(G, j, FALSE)
        BY <2>1, <3>2
      <4>2. SameQueue(H, G)
        BY <2>4 DEF IsFile, SameQueue
      <4>3. y.file = G
        BY <4>1 DEF Going
      <4> HIDE DEF G, y
      <4> QED
        BY <4>2, <4>3
    <3> QED
      BY <3>1, <3>2
  <2> QED
    BY <2>5 DEF H, I
<1>7. ASSUME c = 4 PROVE SameQueue(W, y.file)
  <2> DEFINE H == [F EXCEPT !.list = InsertAt(@, j + 1, n), !.lf[o].lf_end = k.lf_start - 1]
             G == lf_wakelock(H, o)
  <2>1. y = Going(G, j + 2, FALSE)
    BY <1>7 DEF link_at
  <2>2. SameQueue(F, H)
    BY DEF IsFile, SameQueue
  <2> HIDE DEF H, W
  <2>3. SameQueue(W, G)
    BY <1>7, <1>10, <2>2
  <2>4. y.file = G
    BY <2>1 DEF Going
  <2> HIDE DEF G, y
  <2> QED
    BY <2>3, <2>4
<1>8. ASSUME c = 5 PROVE SameQueue(W, y.file)
  <2> DEFINE I == [F EXCEPT !.lf[o].lf_start = k.lf_end + 1]
             H == Put(I)
             G == lf_wakelock(H, o)
  <2>1. y = Done(G)
    BY <1>8 DEF link_at
  <2>2. SameQueue(F, I)
    BY DEF IsFile, SameQueue
  <2> HIDE DEF I
  <2>3. SameQueue(F, H)
    BY <2>2 DEF IsFile, SameQueue
  <2> HIDE DEF H, W
  <2>4. SameQueue(W, G)
    BY <1>8, <1>10, <2>3
  <2> HIDE DEF G, y
  <2> QED
    BY <2>1, <2>4, DoneIs
<1>9. c \in {4, 5} => SameQueue(W, y.file)
  BY <1>7, <1>8
<1>11. /\ c = 1 /\ downgrade => SameQueue(W, y.file)
       /\ c = 1 /\ ~ downgrade => SameQueue(F, y.file)
  BY <1>2
<1>12. /\ c = 3 /\ downgrade => SameQueue(W, y.file)
       /\ c = 3 /\ ~ downgrade =>
            SameQueue(lf_addblock([F EXCEPT !.block[n] = F.block[o]], n, F.block[n]), y.file)
  BY <1>6
<1> HIDE DEF y
<1> QED
  BY <1>1, <1>3, <1>4, <1>5, <1>9, <1>11, <1>12 DEF y, LinkedQueue

\* Locks with nothing behind them come, change and go; another may only get
\* more in the way.
HeadsMove(F, n, H, e, O, spare, H2, e2) ==
  /\ O \subseteq H /\ \A o \in O : F.block[o] = NOLOCKF
  /\ H2 \subseteq Locks /\ H2 \subseteq H \cup {n, spare} /\ H \ O \subseteq H2
  /\ n \in H => n \in H2
  /\ spare \in Locks => spare \notin H \cup Requests \cup {n} /\ F.block[spare] = NOLOCKF
  /\ \A c \in Locks \ (O \cup {spare}) :
       \/ e2[c] = e[c]
       \/ c \in H /\ \A w \in Waiting : Opposed(e[w], e[c]) => Opposed(e[w], e2[c])

LEMMA HeadsMoved ==
  ASSUME NEW F, NEW n, NEW H, NEW e, Queued(F, n, H, e), NEW O, NEW spare, NEW H2, NEW e2,
         HeadsMove(F, n, H, e, O, spare, H2, e2)
  PROVE  Queued(F, n, H2, e2)
<1>1. /\ O \subseteq H /\ \A o \in O : F.block[o] = NOLOCKF
      /\ H2 \subseteq Locks /\ H2 \subseteq H \cup {n, spare} /\ H \ O \subseteq H2
      /\ n \in H => n \in H2
      /\ spare \in Locks => spare \notin H \cup Requests \cup {n} /\ F.block[spare] = NOLOCKF
  BY DEF HeadsMove
<1>2. /\ IsFile(F) /\ H \subseteq Locks /\ Requests \subseteq Locks /\ (Requests \ {n}) \cap H = {}
      /\ n \in Locks \ H => F.block[n] = NOLOCKF
  BY DEF Queued
<1>3. (Requests \ {n}) \cap H2 = {}
  BY <1>1, <1>2
<1>4. \A h \in H \ H2 : F.block[h] = NOLOCKF
  BY <1>1
<1>5. \A h \in H2 \ H : F.block[h] = NOLOCKF
  BY <1>1, <1>2
<1>6. \A w \in Requests \ {n} : e2[w] = e[w]
  <2> TAKE w \in Requests \ {n}
  <2>1. w \in Locks \ (O \cup {spare}) /\ w \notin H
    BY <1>1, <1>2
  <2> QED
    BY <2>1 DEF HeadsMove
<1>7. \A h \in H \cap H2 : \/ F.block[h] = NOLOCKF
                           \/ \A w \in Waiting : Opposed(e[w], e[h]) => Opposed(e[w], e2[h])
  <2> TAKE h \in H \cap H2
  <2>1. CASE h \in O \cup {spare}
    BY <1>1, <1>2, <2>1
  <2>2. CASE h \notin O \cup {spare}
    <3>1. \/ e2[h] = e[h]
          \/ \A w \in Waiting : Opposed(e[w], e[h]) => Opposed(e[w], e2[h])
      BY <1>2, <2>2 DEF HeadsMove
    <3> QED
      BY <3>1
  <2> QED
    BY <2>1, <2>2
<1>8. n \in Locks \ H2 => F.block[n] = NOLOCKF
  BY <1>1, <1>2
<1>9. QueuedKept(F, n, H, e, F, H2, e2)
  BY <1>1, <1>2, <1>3, <1>4, <1>5, <1>6, <1>7, <1>8 DEF QueuedKept
<1> QED
  BY <1>9, QueuedEdit

LEMMA Concat ==
  ASSUME NEW x \in Seq(Locks), NEW y \in Seq(Locks), NEW z \in Seq(Locks)
  PROVE  x \o (y \o z) = x \o y \o z
OBVIOUS

\* What is on a list with two sequences in the middle.
LEMMA MidSets ==
  ASSUME NEW L \in Seq(Locks), NEW j \in 1..Len(L), NEW m \in Seq(Locks), NEW t \in Seq(Locks)
  PROVE  ToSet(SubSeq(L, 1, j) \o m \o t \o SubSeq(L, j + 1, Len(L)))
           = ToSet(L) \cup ToSet(m) \cup ToSet(t)
<1> DEFINE A == SubSeq(L, 1, j)
           C == SubSeq(L, j + 1, Len(L))
           M == m \o t
           r == A \o M \o C
<1>1. A \in Seq(Locks) /\ M \in Seq(Locks) /\ j \in 0..Len(L)
  OBVIOUS
<1>2. A \o M = A \o m \o t
  <2>1. A \in Seq(Locks)
    BY <1>1
  <2> HIDE DEF A
  <2> QED
    BY <2>1, Concat, Zenon
<1>3. ToSet(M) = ToSet(m) \cup ToSet(t)
  <2>1. /\ Len(m) \in Nat /\ Len(t) \in Nat /\ Len(M) = Len(m) + Len(t)
        /\ DOMAIN m = 1..Len(m) /\ DOMAIN t = 1..Len(t) /\ DOMAIN M = 1..Len(M)
        /\ \A i \in 1..Len(M) : M[i] = IF i <= Len(m) THEN m[i] ELSE t[i - Len(m)]
    OBVIOUS
  <2> HIDE DEF M
  <2>2. \A i \in 1..Len(m) : i \in 1..Len(M) /\ M[i] = m[i]
    BY <2>1
  <2>3. \A i \in 1..Len(t) : i + Len(m) \in 1..Len(M) /\ M[i + Len(m)] = t[i]
    <3> TAKE i \in 1..Len(t)
    <3>1. i + Len(m) \in 1..Len(M) /\ ~ (i + Len(m) <= Len(m)) /\ (i + Len(m)) - Len(m) = i
      BY <2>1
    <3> QED
      BY <2>1, <3>1
  <2>4. \A i \in 1..Len(M) : \/ i \in 1..Len(m) /\ M[i] = m[i]
                             \/ i - Len(m) \in 1..Len(t) /\ M[i] = t[i - Len(m)]
    BY <2>1
  <2>5. \A x \in ToSet(M) : x \in ToSet(m) \cup ToSet(t)
    BY <2>1, <2>4 DEF ToSet
  <2>6. \A x \in ToSet(m) : x \in ToSet(M)
    BY <2>1, <2>2 DEF ToSet
  <2>7. \A x \in ToSet(t) : x \in ToSet(M)
    <3> TAKE x \in ToSet(t)
    <3>1. PICK i \in 1..Len(t) : x = t[i]
      BY <2>1 DEF ToSet
    <3>2. i + Len(m) \in DOMAIN M /\ M[i + Len(m)] = x
      BY <2>1, <2>3, <3>1
    <3> QED
      BY <3>2 DEF ToSet
  <2> QED
    BY <2>5, <2>6, <2>7
<1> HIDE DEF M
<1>4. r \in Seq(Locks) /\ SplicedAt(L, j, M, r)
  BY <1>1, Spliced
<1> HIDE DEF r
<1>5. ToSet(r) = ToSet(L) \cup ToSet(M)
  BY <1>1, <1>4, SplicedSet
<1> HIDE DEF A, C
<1>6. r = A \o m \o t \o C
  BY <1>2 DEF r
<1> QED
  BY <1>3, <1>5, <1>6 DEF A, C

\* A turn for the lock o at place j, which is case c of the range of k: what
\* the chains need to know.
Turnable(F, link, j, c, n, spare, o, k) ==
  /\ IsFile(F) /\ LockList(F.list, F.lf) /\ link \in BOOLEAN
  /\ j \in 1..Len(F.list) + 1 /\ c \in 0..5 /\ o = F.list[j] /\ k \in Structs /\ Proper(k)
  /\ c # 0 => /\ j \in 1..Len(F.list) /\ o # n /\ F.lf[o].lf_id = k.lf_id
              /\ c = 1 => F.lf[o].lf_start = k.lf_start /\ F.lf[o].lf_end = k.lf_end
              /\ c = 3 => k.lf_start <= F.lf[o].lf_start /\ Hi(F.lf[o]) <= Hi(k)
  /\ spare \in Locks => spare \notin ToSet(F.list) \cup Requests \cup {n}
  /\ spare \in Locks <=> /\ c = 2 /\ F.lf[o].lf_type # k.lf_type
                         /\ F.lf[o].lf_start # k.lf_start /\ F.lf[o].lf_end # k.lf_end

\* What it does to the locks on the list.
HeadsTo(c, H, e, n, spare, o, k, H2, e2) ==
  /\ H2 \subseteq Locks /\ H2 \subseteq H \cup {n, spare} /\ H \ {o} \subseteq H2
  /\ n \in H => n \in H2
  /\ c \in {0, 1} => H \subseteq H2
  /\ c = 0 => e2 = e
  /\ c = 1 => e2 = [e EXCEPT ![o].lf_type = k.lf_type]
  /\ \A i \in Locks \ {o, spare} : e2[i] = e[i]

\* The parts of a split lock.
LEMMA SplitHeads ==
  ASSUME NEW F, NEW link, NEW j, NEW n, NEW spare, NEW o, NEW k,
         Turnable(F, link, j, 2, n, spare, o, k), F.lf[o].lf_end = k.lf_end \/ spare \in Locks,
         NEW mid \in Seq(Locks), ToSet(mid) \subseteq {n},
         NEW G, SplitTo(F, j, k, mid, spare, G)
  PROVE  HeadsTo(2, ToSet(F.list), F.lf, n, spare, o, k, ToSet(G.list), G.lf)
<1>1. PICK L, f, H : L = F.list /\ f = F.lf /\ H = ToSet(L)
  OBVIOUS
<1>2. /\ L \in Seq(Locks) /\ f \in [Locks -> Structs] /\ j \in 1..Len(L) /\ o = L[j] /\ o \in Locks
      /\ H \subseteq Locks /\ spare \notin H
  BY <1>1, ListIs DEF Turnable, LockList
<1>5. L \in Seq(Locks) /\ j \in 1..Len(L)
  BY <1>2
<1>3. CASE f[o].lf_end = k.lf_end
  <2>1. /\ G.list = SubSeq(L, 1, j) \o mid \o <<>> \o SubSeq(L, j + 1, Len(L))
        /\ G.lf = [f EXCEPT ![o].lf_end = k.lf_start - 1]
    BY <1>1, <1>3, <1>2 DEF SplitTo
  <2>2. <<>> \in Seq(Locks) /\ ToSet(<<>>) = {}
    BY DEF ToSet
  <2>3. ToSet(G.list) = H \cup ToSet(mid) \cup {}
    <3>1. PICK t \in Seq(Locks) : t = <<>>
      BY <2>2
    <3>2. ToSet(SubSeq(L, 1, j) \o mid \o t \o SubSeq(L, j + 1, Len(L)))
            = ToSet(L) \cup ToSet(mid) \cup ToSet(t)
      BY <1>5, MidSets
    <3> QED
      BY <1>1, <2>1, <2>2, <3>1, <3>2, Zenon
  <2>4. \A i \in Locks \ {o, spare} : G.lf[i] = f[i]
    BY <1>2, <2>1
  <2>5. ToSet(mid) \subseteq Locks
    BY DEF ToSet
  <2> QED
    BY <1>1, <1>2, <2>3, <2>4, <2>5 DEF HeadsTo
<1>4. CASE f[o].lf_end # k.lf_end
  <2>1. /\ G.list = SubSeq(L, 1, j) \o mid \o <<spare>> \o SubSeq(L, j + 1, Len(L))
        /\ G.lf = [[f EXCEPT ![o].lf_end = k.lf_start - 1]
                     EXCEPT ![spare] = [f[o] EXCEPT !.lf_start = k.lf_end + 1]]
    BY <1>1, <1>2, <1>4 DEF SplitTo
  <2>2. spare \in Locks /\ <<spare>> \in Seq(Locks) /\ ToSet(<<spare>>) = {spare}
    BY <1>1, <1>4 DEF ToSet
  <2>3. ToSet(G.list) = H \cup ToSet(mid) \cup {spare}
    <3>1. PICK t \in Seq(Locks) : t = <<spare>>
      BY <2>2
    <3>2. ToSet(SubSeq(L, 1, j) \o mid \o t \o SubSeq(L, j + 1, Len(L)))
            = ToSet(L) \cup ToSet(mid) \cup ToSet(t)
      BY <1>5, MidSets
    <3> QED
      BY <1>1, <2>1, <2>2, <3>1, <3>2, Zenon
  <2>4. \A i \in Locks \ {o, spare} : G.lf[i] = f[i]
    BY <1>2, <2>1
  <2>5. ToSet(mid) \subseteq Locks
    BY DEF ToSet
  <2> QED
    BY <1>1, <1>2, <2>2, <2>3, <2>4, <2>5 DEF HeadsTo
<1> QED
  BY <1>3, <1>4

\* The lock n goes on the list in this turn, or is on it.
OnList(F, link, c, n) ==
  /\ link = TRUE <=> n \notin ToSet(F.list)
  /\ c \in {2, 4} => link = TRUE

LinkTurn(F, link, j, c, n, spare, o, k, y) ==
  /\ Turnable(F, link, j, c, n, spare, o, k) /\ OnList(F, link, c, n)
  /\ LinkedAt(F, link, j, c, n, spare, o, k, y)

HeadsLinked(F, c, n, spare, o, k, G) ==
  /\ HeadsTo(c, ToSet(F.list), F.lf, n, spare, o, k, ToSet(G.list), G.lf)
  /\ c = 3 => ToSet(G.list) = (ToSet(F.list) \ {o}) \cup {n} /\ G.lf = F.lf

LEMMA LinkHeads ==
  ASSUME NEW F, NEW link, NEW j, NEW c, NEW n \in Locks, NEW spare, NEW o, NEW k,
         NEW y, LinkTurn(F, link, j, c, n, spare, o, k, y)
  PROVE  HeadsLinked(F, c, n, spare, o, k, y.file)
<1> USE DEF LinkTurn
<1>1. PICK L, f, H, H2, e2 : /\ L = F.list /\ f = F.lf /\ H = ToSet(L)
                             /\ H2 = ToSet(y.file.list) /\ e2 = y.file.lf
  OBVIOUS
<1>2. /\ L \in Seq(Locks) /\ IsInjective(L) /\ f \in [Locks -> Structs] /\ H \subseteq Locks
      /\ Len(L) \in Nat /\ j \in 1..Len(L) + 1
      /\ link = TRUE <=> n \notin H
      /\ spare \notin H /\ IsFile(F) /\ c \in 0..5 /\ link \in BOOLEAN
  BY <1>1, ListIs DEF Turnable, LockList, OnList
<1>14. c \in {2, 4} => link = TRUE
  BY DEF OnList
<1>3. c # 0 => j \in 1..Len(L) /\ o = L[j] /\ o \in H /\ o \in Locks /\ o # n
  BY <1>1, ListIs DEF Turnable
<1>4. ToSet(InsertAt(L, j, n)) = H \cup {n} \/ link = FALSE
  BY <1>1, <1>2, InsertedList
<1>5. SUFFICES /\ HeadsTo(c, H, f, n, spare, o, k, H2, e2)
               /\ c = 3 => H2 = (H \ {o}) \cup {n} /\ e2 = f
  BY <1>1 DEF HeadsLinked
<1>6. CASE c = 0
  <2>1. e2 = f /\ y.file.list = IF link THEN InsertAt(L, j, n) ELSE L
    BY <1>1, <1>6 DEF LinkedAt
  <2>2. H2 = H \cup {n}
    BY <1>1, <1>2, <1>4, <2>1
  <2> QED
    BY <1>2, <1>6, <2>1, <2>2 DEF HeadsTo
<1>7. CASE c = 1
  <2>1. e2 = [f EXCEPT ![o].lf_type = k.lf_type] /\ H2 = H
    BY <1>1, <1>7 DEF LinkedAt
  <2>2. \A i \in Locks \ {o, spare} : e2[i] = f[i]
    BY <1>2, <2>1
  <2> QED
    BY <1>2, <1>7, <2>1, <2>2 DEF HeadsTo
<1>8. CASE c = 2 /\ f[o].lf_type = k.lf_type
  <2>1. e2 = f /\ H2 = H
    BY <1>1, <1>8 DEF LinkedAt
  <2> QED
    BY <1>2, <1>8, <2>1 DEF HeadsTo
<1>9. CASE c = 2 /\ f[o].lf_type # k.lf_type /\ f[o].lf_start = k.lf_start
  <2>1. e2 = [f EXCEPT ![o].lf_start = k.lf_end + 1] /\ y.file.list = InsertAt(L, j, n)
    BY <1>1, <1>9 DEF LinkedAt
  <2>2. H2 = H \cup {n}
    BY <1>1, <1>4, <1>9, <1>14, <2>1
  <2>3. \A i \in Locks \ {o, spare} : e2[i] = f[i]
    BY <1>2, <2>1
  <2> QED
    BY <1>2, <1>9, <2>2, <2>3 DEF HeadsTo
<1>10. CASE c = 2 /\ f[o].lf_type # k.lf_type /\ f[o].lf_start # k.lf_start
  <2> DEFINE S == lf_split(F, j, k, <<n>>, spare)
  <2>1. y.file = lf_wakelock(S, o)
    BY <1>1, <1>10 DEF LinkedAt
  <2>2. f[o].lf_end = k.lf_end \/ spare \in Locks \ {o}
    BY <1>1, <1>2, <1>3, <1>10 DEF Turnable
  <2>3. SplitTo(F, j, k, <<n>>, spare, S)
    <3>1. /\ F.list \in Seq(Locks) /\ F.lf \in [Locks -> Structs] /\ j \in 1..Len(F.list)
          /\ (F.lf[F.list[j]].lf_end = k.lf_end \/ spare \in Locks \ {F.list[j]})
      BY <1>1, <1>2, <1>3, <1>10, <2>2
    <3> QED
      BY <1>2, <3>1, SplitIs
  <2> HIDE DEF S
  <2>4. IsFile(S) /\ y.file.list = S.list /\ y.file.lf = S.lf
    <3>1. IsFile(S)
      BY <2>3 DEF SplitTo
    <3> QED
      BY <1>3, <1>10, <2>1, <3>1, WakeIs
  <2>5. <<n>> \in Seq(Locks) /\ ToSet(<<n>>) \subseteq {n}
    BY DEF ToSet
  <2>6. HeadsTo(2, ToSet(F.list), F.lf, n, spare, o, k, ToSet(S.list), S.lf)
    <3>1. F.lf[o].lf_end = k.lf_end \/ spare \in Locks
      BY <1>1, <2>2
    <3>2. Turnable(F, link, j, 2, n, spare, o, k)
      BY <1>10
    <3> QED
      BY <2>3, <2>5, <3>1, <3>2, SplitHeads
  <2> QED
    BY <1>1, <1>10, <2>4, <2>6
<1>11. CASE c = 3
  <2>1. e2 = f /\ y.file.list = IF link THEN [L EXCEPT ![j] = n] ELSE RemoveAt(L, j)
    BY <1>1, <1>11 DEF LinkedAt
  <2>2. CASE link = TRUE
    <3>1. ToSet([L EXCEPT ![j] = n]) = (H \ {L[j]}) \cup {n}
      BY <1>1, <1>2, <1>3, <1>11, <2>2, ReplacedList
    <3>2. H2 = (H \ {o}) \cup {n}
      BY <1>1, <1>3, <1>11, <2>1, <2>2, <3>1
    <3> QED
      BY <1>2, <1>3, <1>11, <2>1, <3>2 DEF HeadsTo
  <2>3. CASE link = FALSE
    <3>1. ToSet(RemoveAt(L, j)) = H \ {L[j]}
      <4>1. L \in Seq(Locks) /\ IsInjective(L) /\ j \in 1..Len(L) /\ H = ToSet(L)
        BY <1>1, <1>2, <1>3, <1>11
      <4> QED
        BY <4>1, RemovedList
    <3>2. H2 = (H \ {o}) \cup {n}
      BY <1>1, <1>2, <1>3, <1>11, <2>1, <2>3, <3>1
    <3> QED
      BY <1>2, <1>3, <1>11, <2>1, <3>2 DEF HeadsTo
  <2> QED
    BY <1>2, <2>2, <2>3
<1>12. CASE c = 4
  <2>1. e2 = [f EXCEPT ![o].lf_end = k.lf_start - 1] /\ y.file.list = InsertAt(L, j + 1, n)
    BY <1>1, <1>12 DEF LinkedAt
  <2>2. H2 = H \cup {n}
    <3>1. j + 1 \in 1..Len(L) + 1 /\ n \notin ToSet(L)
      BY <1>1, <1>2, <1>3, <1>12, <1>14
    <3>2. ToSet(InsertAt(L, j + 1, n)) = ToSet(L) \cup {n}
      BY <1>2, <3>1, InsertedList
    <3> QED
      BY <1>1, <2>1, <3>2
  <2>3. \A i \in Locks \ {o, spare} : e2[i] = f[i]
    BY <1>2, <2>1
  <2> QED
    BY <1>2, <1>12, <2>2, <2>3 DEF HeadsTo
<1>13. CASE c = 5
  <2>1. /\ e2 = [f EXCEPT ![o].lf_start = k.lf_end + 1]
        /\ y.file.list = IF link THEN InsertAt(L, j, n) ELSE L
    BY <1>1, <1>13 DEF LinkedAt
  <2>2. H2 = H \cup {n}
    BY <1>1, <1>2, <1>4, <2>1
  <2>3. \A i \in Locks \ {o, spare} : e2[i] = f[i]
    BY <1>2, <2>1
  <2> QED
    BY <1>2, <1>13, <2>2, <2>3 DEF HeadsTo
<1> QED
  BY <1>2, <1>6, <1>7, <1>8, <1>9, <1>10, <1>11, <1>12, <1>13

\* What lf_wakelock has awakened may come, change and go.
LEMMA HeadsWoken ==
  ASSUME NEW F, NEW n, NEW H, NEW e, Queued(F, n, H, e), NEW c, NEW o \in H, NEW spare, NEW k,
         NEW H2, NEW e2, HeadsTo(c, H, e, n, spare, o, k, H2, e2),
         spare \in Locks => spare \notin H \cup Requests \cup {n} /\ F.block[spare] = NOLOCKF
  PROVE  Queued(lf_wakelock(F, o), n, H2, e2)
<1>1. PICK G : G = lf_wakelock(F, o)
  OBVIOUS
<1>2. /\ Queued(G, n, H, e) /\ G.block[o] = NOLOCKF
      /\ \A j \in Locks : G.block[j] = NOLOCKF \/ G.block[j] = F.block[j]
  BY <1>1, QueuedWoken
<1>3. HeadsMove(G, n, H, e, {o}, spare, H2, e2)
  <2>1. /\ H2 \subseteq Locks /\ H2 \subseteq H \cup {n, spare} /\ H \ {o} \subseteq H2
        /\ n \in H => n \in H2
        /\ \A i \in Locks \ ({o} \cup {spare}) : e2[i] = e[i]
    BY DEF HeadsTo
  <2>2. spare \in Locks => G.block[spare] = NOLOCKF
    BY <1>2
  <2> QED
    BY <1>2, <2>1, <2>2 DEF HeadsMove
<1> QED
  BY <1>1, <1>2, <1>3, HeadsMoved

\* The third piece of a split lock is a lock that blocks nobody.
Third(F, j, k, n, H, spare) ==
  /\ spare \in Locks => spare \notin H \cup Requests \cup {n}
  /\ spare \in Locks <=> F.lf[F.list[j]].lf_end # k.lf_end

SplitOff(F, n, H, e, j, k, mid, spare, S) ==
  Queued(F, n, H, e) /\ Third(F, j, k, n, H, spare) /\ SplitTo(F, j, k, mid, spare, S)

LEMMA QueuedSplit ==
  ASSUME NEW F, NEW n, NEW H, NEW e, NEW j, NEW k, NEW mid, NEW spare, NEW S,
         SplitOff(F, n, H, e, j, k, mid, spare, S)
  PROVE  /\ Queued(S, n, H, e)
         /\ spare \in Locks => S.block[spare] = NOLOCKF
         /\ \A i \in Locks \ {spare} : S.block[i] = F.block[i]
<1> USE DEF SplitOff
<1>1. /\ IsFile(F) /\ F.block \in [Locks -> Locks \cup {NOLOCKF}] /\ H \subseteq Locks
      /\ Requests \subseteq Locks /\ (Requests \ {n}) \cap H = {}
      /\ n \in Locks \ H => F.block[n] = NOLOCKF
      /\ spare \in Locks => spare \notin H \cup Requests \cup {n}
      /\ spare \in Locks <=> F.lf[F.list[j]].lf_end # k.lf_end
  BY DEF Queued, IsFile, Pointers, Third
<1>2. /\ IsFile(S) /\ S.next = F.next /\ S.woken = F.woken /\ S.system = F.system
      /\ spare \notin Locks => S.block = F.block
      /\ spare \in Locks => S.block = [F.block EXCEPT ![spare] = NOLOCKF]
  BY <1>1 DEF SplitTo
<1>3. /\ spare \in Locks => S.block[spare] = NOLOCKF
      /\ \A i \in Locks \ {spare} : S.block[i] = F.block[i]
  BY <1>1, <1>2
<1>4. QueuedKept(F, n, H, e, S, H, e)
  BY <1>1, <1>2, <1>3 DEF QueuedKept
<1>5. Queued(S, n, H, e)
  BY <1>4, QueuedEdit
<1> QED
  BY <1>3, <1>5

\* A lock that is larger, and not of a weaker type, is in the way of as much.
LEMMA OpposedMore ==
  ASSUME NEW a \in Structs, Proper(a), NEW l \in Structs, Proper(l), NEW k \in Structs, Proper(k),
         k.lf_type \in Types, l.lf_id = k.lf_id,
         ~ (k.lf_type = "F_RDLCK" /\ l.lf_type = "F_WRLCK"),
         k.lf_start <= l.lf_start, Hi(l) <= Hi(k), Opposed(a, l)
  PROVE  Opposed(a, k)
<1>1. a.lf_id # k.lf_id /\ ovcase(a, l) # 0 /\ "F_WRLCK" \in {a.lf_type, l.lf_type}
  BY DEF Opposed
<1>2. "F_WRLCK" \in {a.lf_type, k.lf_type}
  BY <1>1 DEF Types
<1>3. /\ a.lf_start \in Int /\ Hi(a) \in Int /\ l.lf_start \in Int /\ Hi(l) \in Int
      /\ k.lf_start \in Int /\ Hi(k) \in Int
  BY StructIs
<1>4. ~ (Hi(a) < l.lf_start) /\ ~ (Hi(l) < a.lf_start)
  BY <1>1, Cases
<1>5. ~ (Hi(a) < k.lf_start) /\ ~ (Hi(k) < a.lf_start)
  BY <1>3, <1>4
<1>6. ovcase(a, k) # 0
  BY <1>5, Cases
<1> QED
  BY <1>1, <1>2, <1>6 DEF Opposed

\* A turn of lf_setlock keeps the chains.
LEMMA LinkQueued ==
  ASSUME NEW F, NEW link, NEW j, NEW c, NEW n \in Locks, NEW spare, NEW o, NEW k \in Held, k = F.lf[n],
         Turnable(F, link, j, c, n, spare, o, k), OnList(F, link, c, n), c = 3 => ~ Interruptible,
         \A w \in Waiting : Proper(F.lf[w]),
         Queued(F, n, ToSet(F.list), F.lf)
  PROVE  LET G == link_at(F, link, j, c, n, spare).file
         IN  Queued(G, n, ToSet(G.list), G.lf)
<1>1. PICK y : y = link_at(F, link, j, c, n, spare)
  OBVIOUS
<1>2. /\ IsFile(F) /\ LockList(F.list, F.lf) /\ link \in BOOLEAN /\ c \in 0..5 /\ o = F.list[j]
      /\ c # 0 => /\ j \in 1..Len(F.list) /\ o # n /\ F.lf[o].lf_id = k.lf_id
                  /\ c = 1 => F.lf[o].lf_start = k.lf_start /\ F.lf[o].lf_end = k.lf_end
                  /\ c = 3 => k.lf_start <= F.lf[o].lf_start /\ Hi(F.lf[o]) <= Hi(k)
      /\ spare \in Locks => spare \notin ToSet(F.list) \cup Requests \cup {n}
      /\ spare \in Locks <=> /\ c = 2 /\ F.lf[o].lf_type # k.lf_type
                             /\ F.lf[o].lf_start # k.lf_start /\ F.lf[o].lf_end # k.lf_end
  BY DEF Turnable
<1>3. c # 0 => o \in Locks /\ o \in ToSet(F.list) /\ F.lf[o] \in Held
  BY <1>2, ListIs
<1>4. LinkedAt(F, link, j, c, n, spare, o, k, y) /\ LinkedQueue(F, j, c, n, spare, o, k, y.file)
  BY <1>1, <1>2, <1>3, LinkAt, LinkQueue
<1>5. /\ HeadsTo(c, ToSet(F.list), F.lf, n, spare, o, k, ToSet(y.file.list), y.file.lf)
      /\ c = 3 => ToSet(y.file.list) = (ToSet(F.list) \ {o}) \cup {n} /\ y.file.lf = F.lf
  <2>1. LinkTurn(F, link, j, c, n, spare, o, k, y)
    BY <1>4 DEF LinkTurn
  <2>2. HeadsLinked(F, c, n, spare, o, k, y.file)
    BY <2>1, LinkHeads
  <2> QED
    BY <2>2 DEF HeadsLinked
<1>6. PICK H, e, H2, e2, G : /\ H = ToSet(F.list) /\ e = F.lf /\ G = y.file
                             /\ H2 = ToSet(G.list) /\ e2 = G.lf
  OBVIOUS
<1>7. /\ HeadsTo(c, H, e, n, spare, o, k, H2, e2) /\ LinkedQueue(F, j, c, n, spare, o, k, G)
      /\ c = 3 => H2 = (H \ {o}) \cup {n} /\ e2 = e
      /\ Queued(F, n, H, e) /\ e[n] = k /\ e \in [Locks -> Structs]
      /\ c # 0 => o \in H /\ o \in Locks /\ e[o] \in Held
      /\ \A w \in Waiting : Proper(e[w])
  BY <1>2, <1>3, <1>4, <1>5, <1>6 DEF LockList
<1>8. SUFFICES Queued(G, n, H2, e2)
  BY <1>1, <1>6
<1> DEFINE W == lf_wakelock(F, o)
           downgrade == k.lf_type = "F_RDLCK" /\ e[o].lf_type = "F_WRLCK"
<1>9. ASSUME SameQueue(W, G), c # 0, spare \notin Locks PROVE Queued(G, n, H2, e2)
  <2>1. Queued(W, n, H2, e2)
    BY <1>7, <1>9, HeadsWoken
  <2> HIDE DEF W
  <2> QED
    BY <1>9, <2>1, QueuedSame
<1>10. \A w \in Waiting : w \in Locks /\ e[w] \in Structs /\ Proper(e[w]) /\ w \notin H /\ w \in Requests
  <2>1. /\ Waiting \subseteq Requests /\ Requests \subseteq Locks /\ n \notin Waiting
        /\ (Requests \ {n}) \cap H = {}
    BY <1>7 DEF Queued
  <2> QED
    BY <1>7, <2>1
<1>11. CASE c = 0
  <2>1. SameQueue(F, G) /\ spare \notin Locks
    BY <1>2, <1>7, <1>11 DEF LinkedQueue
  <2>2. /\ H2 \subseteq Locks /\ H2 \subseteq H \cup {n, spare} /\ H \subseteq H2
        /\ n \in H => n \in H2
        /\ e2 = e
    BY <1>7, <1>11 DEF HeadsTo
  <2>3. HeadsMove(F, n, H, e, {}, spare, H2, e2)
    BY <2>1, <2>2 DEF HeadsMove
  <2>4. Queued(F, n, H2, e2)
    BY <1>7, <2>3, HeadsMoved
  <2> QED
    BY <2>1, <2>4, QueuedSame
<1>12. CASE c = 1
  <2>1. CASE downgrade
    BY <1>2, <1>6, <1>7, <1>9, <1>12, <2>1 DEF LinkedQueue
  <2>2. CASE ~ downgrade
    <3>1. SameQueue(F, G) /\ spare \notin Locks
      BY <1>2, <1>6, <1>7, <1>12, <2>2 DEF LinkedQueue
    <3>2. /\ H2 \subseteq Locks /\ H2 \subseteq H \cup {n, spare} /\ H \subseteq H2
          /\ n \in H => n \in H2
          /\ e2 = [e EXCEPT ![o].lf_type = k.lf_type]
      BY <1>7, <1>12 DEF HeadsTo
    <3>3. \A w \in Waiting : Opposed(e[w], e[o]) => Opposed(e[w], e2[o])
      <4> TAKE w \in Waiting
      <4> HAVE Opposed(e[w], e[o])
      <4>1. PICK l, l2 : l = e[o] /\ l2 = e2[o]
        OBVIOUS
      <4>2. l2 = [l EXCEPT !.lf_type = k.lf_type]
        BY <1>7, <1>12, <3>2, <4>1
      <4>3. l \in Structs /\ Proper(l) /\ k.lf_type \in Types /\ l.lf_id = k.lf_id
        BY <1>2, <1>6, <1>7, <1>12, <4>1, HeldIs
      <4>4. /\ l2 \in Structs /\ l2.lf_id = l.lf_id /\ l2.lf_start = l.lf_start
            /\ l2.lf_end = l.lf_end /\ l2.lf_type = k.lf_type
        BY <4>2, <4>3 DEF Structs
      <4>5. Proper(l2) /\ Hi(l2) = Hi(l) /\ Hi(l) \in Int /\ l.lf_start \in Int
        BY <4>3, <4>4, StructIs DEF Proper, Hi
      <4>6. Opposed(e[w], l2)
        <5>1. l2.lf_start <= l.lf_start /\ Hi(l) <= Hi(l2)
          BY <4>4, <4>5
        <5>2. ~ (l2.lf_type = "F_RDLCK" /\ l.lf_type = "F_WRLCK")
          BY <2>2, <4>1, <4>4
        <5> QED
          BY <1>10, <4>1, <4>3, <4>4, <4>5, <5>1, <5>2, OpposedMore
      <4> QED
        BY <4>1, <4>6
    <3>4. \A i \in Locks \ ({} \cup {spare}) :
            \/ e2[i] = e[i]
            \/ i \in H /\ \A w \in Waiting : Opposed(e[w], e[i]) => Opposed(e[w], e2[i])
      <4> TAKE i \in Locks \ ({} \cup {spare})
      <4>1. CASE i = o
        BY <1>7, <1>12, <3>3, <4>1
      <4>2. CASE i # o
        BY <1>7, <3>2, <4>2
      <4> QED
        BY <4>1, <4>2
    <3>5. HeadsMove(F, n, H, e, {}, spare, H2, e2)
      BY <3>1, <3>2, <3>4 DEF HeadsMove
    <3>6. Queued(F, n, H2, e2)
      BY <1>7, <3>5, HeadsMoved
    <3> QED
      BY <3>1, <3>6, QueuedSame
  <2> QED
    BY <2>1, <2>2

<1>13. CASE c = 2 /\ e[o].lf_type = k.lf_type
  <2>1. G = F
    BY <1>6, <1>7, <1>13 DEF LinkedQueue
  <2> QED
    BY <1>6, <1>7, <2>1
<1>14. CASE c = 2 /\ e[o].lf_type # k.lf_type /\ e[o].lf_start = k.lf_start
  <2>1. SameQueue(W, G)
    BY <1>6, <1>7, <1>14 DEF LinkedQueue
  <2>2. spare \notin Locks
    BY <1>2, <1>6, <1>14
  <2> QED
    BY <1>9, <1>14, <2>1, <2>2
<1>15. CASE c = 2 /\ e[o].lf_type # k.lf_type /\ e[o].lf_start # k.lf_start
  <2> DEFINE S == lf_split(F, j, k, <<n>>, spare)
  <2>1. G = lf_wakelock(S, o)
    BY <1>6, <1>7, <1>15 DEF LinkedQueue
  <2>2. spare \in Locks <=> F.lf[F.list[j]].lf_end # k.lf_end
    BY <1>2, <1>6, <1>15
  <2>3. SplitTo(F, j, k, <<n>>, spare, S)
    <3>1. F.list \in Seq(Locks) /\ F.lf \in [Locks -> Structs]
      BY <1>2 DEF LockList
    <3>2. spare \in Locks => spare \in Locks \ {F.list[j]}
      BY <1>2, <1>3, <1>15
    <3> QED
      BY <1>2, <1>15, <2>2, <3>1, <3>2, SplitIs
  <2> HIDE DEF S
  <2>4. spare \in Locks => spare \notin H \cup Requests \cup {n}
    BY <1>2, <1>6
  <2>5. Queued(S, n, H, e) /\ (spare \in Locks => S.block[spare] = NOLOCKF)
    <3>1. SplitOff(F, n, H, e, j, k, <<n>>, spare, S)
      BY <1>7, <2>2, <2>3, <2>4 DEF Third, SplitOff
    <3> QED
      BY <3>1, QueuedSplit
  <2>6. Queued(lf_wakelock(S, o), n, H2, e2)
    BY <1>7, <1>15, <2>4, <2>5, HeadsWoken
  <2> QED
    BY <2>1, <2>6
<1>16. CASE c = 3
  <2>1. CASE downgrade
    BY <1>2, <1>6, <1>7, <1>9, <1>16, <2>1 DEF LinkedQueue
  <2>2. CASE ~ downgrade
    <3> DEFINE A == lf_addblock([F EXCEPT !.block[n] = F.block[o]], n, F.block[n])
    <3>1. SameQueue(A, G)
      BY <1>6, <1>7, <1>16, <2>2 DEF LinkedQueue
    <3>2. \A w \in Waiting : Opposed(e[w], e[o]) => Opposed(e[w], e[n])
      <4> TAKE w \in Waiting
      <4> HAVE Opposed(e[w], e[o])
      <4>1. PICK l : l = e[o]
        OBVIOUS
      <4>2. /\ l \in Structs /\ Proper(l) /\ k \in Structs /\ Proper(k) /\ k.lf_type \in Types
            /\ l.lf_id = k.lf_id /\ k.lf_start <= l.lf_start /\ Hi(l) <= Hi(k)
            /\ ~ (k.lf_type = "F_RDLCK" /\ l.lf_type = "F_WRLCK")
        BY <1>2, <1>6, <1>7, <1>16, <2>2, <4>1, HeldIs
      <4>3. Opposed(e[w], k)
        BY <1>10, <4>1, <4>2, OpposedMore
      <4> QED
        BY <1>7, <4>3
    <3>3. Queued(A, n, (H \ {o}) \cup {n}, e)
      <4>1. o \in H /\ n # o /\ ~ Interruptible /\ Queued(F, n, H, e)
        BY <1>2, <1>7, <1>16
      <4> QED
        BY <3>2, <4>1, QueuedHanded
    <3> HIDE DEF A
    <3>4. Queued(A, n, H2, e2)
      BY <1>7, <1>16, <3>3
    <3> QED
      BY <3>1, <3>4, QueuedSame
  <2> QED
    BY <2>1, <2>2
<1>17. CASE c \in {4, 5}
  <2>1. SameQueue(W, G)
    BY <1>7, <1>17 DEF LinkedQueue
  <2>2. spare \notin Locks
    BY <1>2, <1>17
  <2> QED
    BY <1>9, <1>17, <2>1, <2>2
<1>18. c \in {0, 1, 2, 3, 4, 5}
  BY <1>2
<1> QED
  BY <1>11, <1>12, <1>13, <1>14, <1>15, <1>16, <1>17, <1>18

\* The lock n may be put on the list, where the chains are as they should be.
\* Where waits are interrupted, only whole files are locked.
Linkable(F, n, k, spare) ==
  /\ Ready(F, n, k, spare) /\ Queued(F, n, ToSet(F.list), F.lf) /\ spare \notin Requests
  /\ \A w \in Waiting : Proper(F.lf[w])
  /\ \/ ~ Interruptible
     \/ /\ k.lf_start = 0 /\ k.lf_end = EOF
        /\ \A i \in ToSet(F.list) : F.lf[i].lf_start = 0 /\ F.lf[i].lf_end = EOF

\* The first turn.
LEMMA LinkFirst ==
  ASSUME NEW F, NEW n, NEW k, NEW spare, Linkable(F, n, k, spare)
  PROVE  LET y == link_turn(Going(F, 1, TRUE), n, spare)
         IN  /\ Queued(y.file, n, ToSet(y.file.list), y.file.lf)
             /\ y.more = TRUE => ~ Interruptible
<1> DEFINE h == findoverlap_self(F, 1, k)
<1>1. /\ IsFile(F) /\ LockList(F.list, F.lf) /\ Ord(F.list, F.lf, NOLOCKF)
      /\ n \in Locks /\ n \notin ToSet(F.list) /\ F.lf[n] = k /\ k \in Held
      /\ spare \notin ToSet(F.list) /\ spare # n
      /\ Splits(F, k) <=> spare \in Locks
  BY NotALock DEF Linkable, Ready
<1>2. link_turn(Going(F, 1, TRUE), n, spare) = link_at(F, TRUE, h.at, h.case, n, spare)
  BY <1>1 DEF link_turn, Going
<1>3. k \in Structs /\ Proper(k)
  BY <1>1, HeldIs
<1>4. 1 \in 1..Len(F.list) + 1 /\ Len(F.list) \in Nat
  BY <1>1, ListIs
<1>5. Stopped(F.list, F.lf, k, 1, h.at, h.case)
  BY <1>1, <1>3, <1>4, SearchStops
<1>6. PICK j, c, o : j = h.at /\ c = h.case /\ o = F.list[j]
  OBVIOUS
<1>7. Splits(F, k) <=> c = 2 /\ F.lf[o].lf_type # k.lf_type /\ F.lf[o].lf_start # k.lf_start
                          /\ F.lf[o].lf_end # k.lf_end
  BY <1>6 DEF Splits
<1>8. Stopped(F.list, F.lf, k, 1, j, c)
  BY <1>5, <1>6
<1> HIDE DEF h
<1>9. /\ j \in 1..Len(F.list) + 1 /\ c \in 0..5
      /\ c # 0 => /\ j \in 1..Len(F.list) /\ F.lf[o].lf_id = k.lf_id /\ o \in ToSet(F.list)
                  /\ c = 1 => F.lf[o].lf_start = k.lf_start /\ F.lf[o].lf_end = k.lf_end
                  /\ c = 3 => k.lf_start <= F.lf[o].lf_start /\ Hi(F.lf[o]) <= Hi(k)
  <2>1. HitLies(F.list, F.lf, k, 1, j, c)
    BY <1>1, <1>3, <1>4, <1>6, <1>8, StoppedIs
  <2> QED
    BY <1>1, <1>3, <1>4, <1>6, <1>8, <2>1 DEF HitLies
<1>10. Turnable(F, TRUE, j, c, n, spare, o, k) /\ OnList(F, TRUE, c, n)
  <2>1. spare \notin Requests /\ (c # 0 => o # n)
    BY <1>1, <1>9 DEF Linkable
  <2> QED
    BY <1>1, <1>3, <1>6, <1>7, <1>9, <2>1 DEF Turnable, OnList
<1>11. c \in {3, 4} => ~ Interruptible
  <2> SUFFICES ASSUME c \in {3, 4}, Interruptible PROVE FALSE
    OBVIOUS
  <2>1. /\ k.lf_start = 0 /\ k.lf_end = EOF /\ F.lf[o].lf_start = 0 /\ F.lf[o].lf_end = EOF
    BY <1>9 DEF Linkable
  <2>2. c = ovcase(F.lf[o], k)
    BY <1>6, <1>8, <1>9 DEF Stopped
  <2> QED
    BY <2>1, <2>2 DEF ovcase
<1>12. PICK y : y = link_at(F, TRUE, j, c, n, spare)
  OBVIOUS
<1>13. Queued(y.file, n, ToSet(y.file.list), y.file.lf)
  <2>1. Queued(F, n, ToSet(F.list), F.lf) /\ \A w \in Waiting : Proper(F.lf[w])
    BY DEF Linkable
  <2> QED
    BY <1>1, <1>10, <1>11, <1>12, <2>1, LinkQueued
<1>14. y.more = TRUE => c \in {3, 4}
  <2>1. c # 0 => o \in Locks
    BY <1>1, <1>9, ListIs
  <2>2. LinkedAt(F, TRUE, j, c, n, spare, o, k, y)
    BY <1>1, <1>6, <1>9, <1>12, <2>1, LinkAt
  <2> QED
    BY <2>2 DEF LinkedAt
<1> QED
  BY <1>2, <1>6, <1>11, <1>12, <1>13, <1>14

\* A later turn.
LEMMA LinkNext ==
  ASSUME NEW M, NEW e, NEW x, NEW n, NEW k, x.more = TRUE, x.link = FALSE, IsFile(x.file),
         Linking(M, e, x.file.list, x.file.lf, x.at, n, k, NOLOCKF), ~ Interruptible,
         Queued(x.file, n, ToSet(x.file.list), x.file.lf), \A w \in Waiting : Proper(x.file.lf[w])
  PROVE  LET G == link_turn(x, n, NOLOCKF).file
         IN  Queued(G, n, ToSet(G.list), G.lf)
<1>1. PICK F, i, spare : F = x.file /\ i = x.at /\ spare = NOLOCKF
  OBVIOUS
<1> DEFINE h == findoverlap_self(F, i, k)
<1>2. /\ IsFile(F) /\ LockList(F.list, F.lf) /\ F.lf[n] = k /\ i \in 1..Len(F.list) + 1
      /\ n \in ToSet(F.list) /\ n \in Locks /\ k \in Held /\ k \in Structs /\ Proper(k)
      /\ k.lf_start \in Int /\ Len(F.list) \in Nat
      /\ \A a \in i..Len(F.list) :
           F.list[a] # n /\ (F.lf[F.list[a]].lf_id = k.lf_id => k.lf_start < F.lf[F.list[a]].lf_start)
  <2>0. PICK L, f : L = F.list /\ f = F.lf
    OBVIOUS
  <2>1. Linking(M, e, L, f, i, n, k, spare) /\ IsFile(F)
    BY <1>1, <2>0
  <2>2. LockList(L, f)
    BY <2>1 DEF Linking
  <2>3. Len(L) \in Nat
    BY <2>2, ListIs
  <2>4. /\ f[n] = k /\ i \in 1..Len(L) + 1 /\ n \in ToSet(L) /\ n \in Locks /\ k \in Held
        /\ k \in Structs /\ Proper(k) /\ k.lf_start \in Int
        /\ \A a \in i..Len(L) : L[a] # n /\ (f[L[a]].lf_id = k.lf_id => k.lf_start < f[L[a]].lf_start)
    BY <2>1, LinkingIs
  <2> QED
    BY <2>0, <2>1, <2>2, <2>3, <2>4
<1>3. link_turn(x, n, NOLOCKF) = link_at(F, FALSE, h.at, h.case, n, spare)
  BY <1>1, <1>2 DEF link_turn
<1>4. Stopped(F.list, F.lf, k, i, h.at, h.case)
  BY <1>1, <1>2, SearchStops
<1>5. PICK j, c, o : j = h.at /\ c = h.case /\ o = F.list[j]
  OBVIOUS
<1>6. Stopped(F.list, F.lf, k, i, j, c)
  BY <1>4, <1>5
<1> HIDE DEF h
<1>7. /\ j \in 1..Len(F.list) + 1 /\ j \in i..Len(F.list) + 1 /\ c \in 0..5
      /\ c # 0 => /\ j \in 1..Len(F.list) /\ F.lf[o].lf_id = k.lf_id /\ o \in ToSet(F.list)
                  /\ c = 1 => F.lf[o].lf_start = k.lf_start /\ F.lf[o].lf_end = k.lf_end
                  /\ c = 2 => F.lf[o].lf_start <= k.lf_start
                  /\ c = 3 => k.lf_start <= F.lf[o].lf_start /\ Hi(F.lf[o]) <= Hi(k)
                  /\ c = 4 => F.lf[o].lf_start < k.lf_start
  <2>1. PICK L, f : L = F.list /\ f = F.lf
    OBVIOUS
  <2>2. LockList(L, f) /\ k \in Structs /\ Proper(k) /\ i \in 1..Len(L) + 1
        /\ Stopped(L, f, k, i, j, c) /\ o = L[j]
    BY <1>2, <1>5, <1>6, <2>1
  <2>3. /\ j \in 1..Len(L) + 1 /\ j \in i..Len(L) + 1 /\ c \in 0..5
        /\ c # 0 => /\ j \in 1..Len(L) /\ f[o].lf_id = k.lf_id /\ o \in ToSet(L)
                    /\ c = 1 => f[o].lf_start = k.lf_start /\ f[o].lf_end = k.lf_end
                    /\ c = 2 => f[o].lf_start <= k.lf_start
                    /\ c = 3 => k.lf_start <= f[o].lf_start /\ Hi(f[o]) <= Hi(k)
                    /\ c = 4 => f[o].lf_start < k.lf_start
    <3>1. HitLies(L, f, k, i, j, c)
      BY <2>2, StoppedIs
    <3> QED
      BY <2>2, <3>1 DEF HitLies
  <2> QED
    BY <2>1, <2>3
<1>8. c # 0 => o # n /\ k.lf_start < F.lf[o].lf_start /\ F.lf[o].lf_start \in Int
  <2> SUFFICES ASSUME c # 0 PROVE o # n /\ k.lf_start < F.lf[o].lf_start /\ F.lf[o].lf_start \in Int
    OBVIOUS
  <2>1. j \in i..Len(F.list)
    BY <1>2, <1>7
  <2> QED
    BY <1>2, <1>5, <1>7, <2>1, ListIs
<1>9. c \notin {1, 2, 4}
  BY <1>2, <1>7, <1>8
<1>10. spare \notin Locks /\ spare \notin ToSet(F.list) \cup Requests \cup {n}
  BY <1>1, <1>2, NotALock, ListIs DEF Requests
<1>11. Turnable(F, FALSE, j, c, n, spare, o, k) /\ OnList(F, FALSE, c, n)
  BY <1>2, <1>5, <1>7, <1>8, <1>9, <1>10 DEF Turnable, OnList
<1>12. PICK G : G = link_at(F, FALSE, j, c, n, spare).file
  OBVIOUS
<1>13. Queued(G, n, ToSet(G.list), G.lf)
  <2>1. Queued(F, n, ToSet(F.list), F.lf) /\ \A w \in Waiting : Proper(F.lf[w])
    BY <1>1
  <2> QED
    BY <1>2, <1>11, <1>12, <2>1, LinkQueued
<1> QED
  BY <1>3, <1>5, <1>12, <1>13

\* So the loop of lf_setlock keeps the chains.
LEMMA LinkChains ==
  ASSUME NEW F, NEW n, NEW k, NEW spare, Linkable(F, n, k, spare)
  PROVE  LET G == link_lock(F, n, spare) IN Queued(G, n, ToSet(G.list), G.lf)
<1> DEFINE N == Len(F.list)
<1>1. /\ Ready(F, n, k, spare) /\ F.list \in Seq(Locks) /\ N \in Nat
      /\ Waiting \cap ToSet(F.list) = {} /\ n \notin Waiting /\ spare \notin Waiting /\ Waiting \subseteq Locks
      /\ \A w \in Waiting : Proper(F.lf[w])
  BY DEF Linkable, Ready, LockList, Queued
<1>2. PICK s : LinkSeq(F, n, spare, s)
  BY <1>1, LinkTurns
<1>3. /\ s[0] = Going(F, 1, TRUE)
      /\ \A t \in 1..N + 1 : s[t] = link_turn(s[t - 1], n, spare)
      /\ link_lock(F, n, spare) = s[N + 1].file
  BY <1>2 DEF LinkSeq
<1> HIDE DEF N
<1> DEFINE Ok(y) ==
             /\ Queued(y.file, n, ToSet(y.file.list), y.file.lf)
             /\ \/ y.more = FALSE
                \/ /\ y.more = TRUE /\ y.link = FALSE /\ IsFile(y.file) /\ spare = NOLOCKF
                   /\ Linking(F.list, F.lf, y.file.list, y.file.lf, y.at, n, k, spare)
                   /\ ~ Interruptible
           S == {t \in Nat : t + 1 \in 1..N + 1 => Ok(s[t + 1])}
<1>4. 0 \in S
  <2>1. PICK y : y = link_turn(Going(F, 1, TRUE), n, spare)
    OBVIOUS
  <2>2. s[0 + 1] = y
    <3>1. 0 + 1 = 1 /\ 1 \in 1..N + 1 /\ 1 - 1 = 0
      BY <1>1
    <3> QED
      BY <1>3, <2>1, <3>1
  <2>3. Turned(F.list, F.lf, y, n, k, spare, Len(F.list)) /\ (y.more = TRUE => spare = NOLOCKF)
    BY <1>1, <2>1, FirstTurn
  <2>4. Queued(y.file, n, ToSet(y.file.list), y.file.lf) /\ (y.more = TRUE => ~ Interruptible)
    BY <2>1, LinkFirst
  <2>5. Ok(y)
    BY <2>3, <2>4 DEF Turned
  <2> HIDE DEF Ok
  <2> QED
    BY <2>2, <2>5
<1>5. ASSUME NEW t \in Nat, t \in S PROVE t + 1 \in S
  <2> HIDE DEF Ok
  <2> SUFFICES ASSUME (t + 1) + 1 \in 1..N + 1 PROVE Ok(s[(t + 1) + 1])
    OBVIOUS
  <2>1. PICK x, y : x = s[t + 1] /\ y = s[(t + 1) + 1]
    OBVIOUS
  <2>2. t + 1 \in 1..N + 1 /\ ((t + 1) + 1) - 1 = t + 1
    BY <1>1
  <2>3. Ok(x) /\ y = link_turn(x, n, spare)
    BY <1>3, <1>5, <2>1, <2>2
  <2> USE DEF Ok
  <2>4. CASE x.more = FALSE
    <3>1. y = x
      BY <2>3, <2>4 DEF link_turn
    <3> HIDE DEF Ok
    <3> QED
      BY <2>1, <2>3, <3>1
  <2>5. CASE x.more = TRUE
    <3>1. /\ x.link = FALSE /\ IsFile(x.file) /\ spare = NOLOCKF /\ ~ Interruptible
          /\ Linking(F.list, F.lf, x.file.list, x.file.lf, x.at, n, k, spare)
          /\ Queued(x.file, n, ToSet(x.file.list), x.file.lf)
      BY <2>3, <2>5
    <3>2. Turned(F.list, F.lf, y, n, k, spare, Len(x.file.list) - x.at + 1)
      BY <2>3, <2>5, <3>1, NextTurn
    <3>3. \A w \in Waiting : Proper(x.file.lf[w])
      <4>1. \A c \in Locks : (c \notin ToSet(F.list) \/ c = n) /\ c # spare => x.file.lf[c] = F.lf[c]
        BY <3>1 DEF Linking, Rel
      <4> QED
        BY <1>1, <4>1
    <3>4. Queued(y.file, n, ToSet(y.file.list), y.file.lf)
      BY <2>3, <2>5, <3>1, <3>3, LinkNext
    <3>5. Ok(y)
      BY <3>1, <3>2, <3>4 DEF Turned
    <3> HIDE DEF Ok
    <3> QED
      BY <2>1, <3>5
  <2> QED
    BY <2>3, <2>4, <2>5
<1>6. N \in S
  <2> HIDE DEF S
  <2> QED
    BY <1>1, <1>4, <1>5, SetInduction
<1>7. Ok(s[N + 1])
  <2> HIDE DEF Ok
  <2> QED
    BY <1>1, <1>6
<1> QED
  BY <1>3, <1>7

\* One turn of lf_clearlock, case by case.
UnlinkedQueue(F, j, c, k, spare, o, G) ==
  LET W == lf_wakelock(F, o)
      split == c = 2 /\ F.lf[o].lf_start # k.lf_start
  IN  /\ c = 0 => G = F
      /\ split => G = lf_split(W, j, k, <<>>, spare)
      /\ c # 0 /\ ~ split => SameQueue(W, G)

LEMMA UnlinkQueue ==
  ASSUME NEW F, IsFile(F), NEW j, NEW c \in 0..5, NEW k, NEW spare,
         NEW o, o = F.list[j], c # 0 => o \in Locks
  PROVE  UnlinkedQueue(F, j, c, k, spare, o, unlink_at(F, j, c, k, spare).file)
<1> DEFINE y == unlink_at(F, j, c, k, spare)
           W == lf_wakelock(F, o)
           f == F.lf
           l == F.lf[o]
           split == c = 2 /\ l.lf_start # k.lf_start
           Later == [W EXCEPT !.lf[o].lf_start = k.lf_end + 1]
           Sooner == [W EXCEPT !.lf[o].lf_end = k.lf_start - 1]
           Gone == [W EXCEPT !.list = RemoveAt(@, j)]
<1>1. c # 0 => IsFile(W)
  BY WakeIs
<1>2. /\ c = 0 => y = Done(F)
      /\ c = 1 => y = Done(Gone)
      /\ c = 2 /\ l.lf_start = k.lf_start => y = Done(Later)
      /\ c = 2 /\ l.lf_start # k.lf_start => y = Done(lf_split(W, j, k, <<>>, spare))
      /\ c = 3 => y = Going(Gone, j, FALSE)
      /\ c = 4 => y = Going(Sooner, j + 1, FALSE)
      /\ c = 5 => y = Done(Later)
  <2>1. ASSUME c = 0 PROVE y = Done(F)
    BY <2>1 DEF unlink_at
  <2>2. ASSUME c = 1 PROVE y = Done(Gone)
    BY <2>2 DEF unlink_at
  <2>3. ASSUME c = 2 /\ l.lf_start = k.lf_start PROVE y = Done(Later)
    BY <2>3 DEF unlink_at
  <2>4. ASSUME c = 2 /\ l.lf_start # k.lf_start PROVE y = Done(lf_split(W, j, k, <<>>, spare))
    BY <2>4 DEF unlink_at
  <2>5. ASSUME c = 3 PROVE y = Going(Gone, j, FALSE)
    BY <2>5 DEF unlink_at
  <2>6. ASSUME c = 4 PROVE y = Going(Sooner, j + 1, FALSE)
    BY <2>6 DEF unlink_at
  <2>7. ASSUME c = 5 PROVE y = Done(Later)
    BY <2>7 DEF unlink_at
  <2> HIDE DEF y, W, Gone, Later, Sooner
  <2> QED
    BY <2>1, <2>2, <2>3, <2>4, <2>5, <2>6, <2>7
<1> HIDE DEF W
<1>3. c # 0 => SameQueue(W, Later)
  BY <1>1 DEF IsFile, SameQueue
<1>4. c # 0 => SameQueue(W, Sooner)
  BY <1>1 DEF IsFile, SameQueue
<1>5. c # 0 => SameQueue(W, Gone)
  BY <1>1 DEF IsFile, SameQueue
<1> HIDE DEF Later, Sooner, Gone, y
<1>6. /\ c = 0 => y.file = F
      /\ c = 1 => y.file = Gone
      /\ c = 2 /\ l.lf_start = k.lf_start => y.file = Later
      /\ c = 2 /\ l.lf_start # k.lf_start => y.file = lf_split(W, j, k, <<>>, spare)
      /\ c = 3 => y.file = Gone
      /\ c = 4 => y.file = Sooner
      /\ c = 5 => y.file = Later
  BY <1>2 DEF Done, Going
<1>7. c # 0 /\ ~ split => y.file \in {Later, Sooner, Gone}
  BY <1>6
<1>8. c # 0 /\ ~ split => SameQueue(W, y.file)
  BY <1>3, <1>4, <1>5, <1>7
<1> QED
  BY <1>6, <1>8 DEF UnlinkedQueue, W, y

UnlinkTurn(F, j, c, n, spare, o, k, y) ==
  Turnable(F, FALSE, j, c, n, spare, o, k) /\ UnlinkedAt(F, j, c, k, spare, o, y)

LEMMA UnlinkHeads ==
  ASSUME NEW F, NEW j, NEW c, NEW n, NEW spare, NEW o, NEW k,
         NEW y, UnlinkTurn(F, j, c, n, spare, o, k, y), c = 2 => F.lf[o].lf_type # k.lf_type
  PROVE  HeadsTo(IF c = 1 THEN 3 ELSE c, ToSet(F.list), F.lf, n, spare, o, k, ToSet(y.file.list), y.file.lf)
<1> USE DEF UnlinkTurn
<1>1. PICK L, f, H, H2, e2 : /\ L = F.list /\ f = F.lf /\ H = ToSet(L)
                             /\ H2 = ToSet(y.file.list) /\ e2 = y.file.lf
  OBVIOUS
<1>2. /\ L \in Seq(Locks) /\ IsInjective(L) /\ f \in [Locks -> Structs] /\ H \subseteq Locks
      /\ IsFile(F) /\ c \in 0..5
  BY <1>1, ListIs DEF Turnable, LockList
<1>3. c # 0 => j \in 1..Len(L) /\ o = L[j] /\ o \in H /\ o \in Locks /\ o # n
  BY <1>1, ListIs DEF Turnable
<1>4. SUFFICES HeadsTo(IF c = 1 THEN 3 ELSE c, H, f, n, spare, o, k, H2, e2)
  BY <1>1
<1>5. CASE c = 0
  <2>1. e2 = f /\ H2 = H
    BY <1>1, <1>5 DEF UnlinkedAt
  <2> QED
    BY <1>2, <1>5, <2>1 DEF HeadsTo
<1>6. CASE c \in {1, 3}
  <2>1. e2 = f /\ y.file.list = RemoveAt(L, j)
    BY <1>1, <1>6 DEF UnlinkedAt
  <2>2. H2 = H \ {o}
    <3>1. ToSet(RemoveAt(L, j)) = H \ {L[j]}
      BY <1>1, <1>2, <1>3, <1>6, RemovedList
    <3> QED
      BY <1>1, <1>3, <1>6, <2>1, <3>1
  <2> QED
    BY <1>2, <1>3, <1>6, <2>1, <2>2 DEF HeadsTo
<1>7. CASE c \in {4, 5} \/ (c = 2 /\ f[o].lf_start = k.lf_start)
  <2>1. H2 = H /\ \A i \in Locks \ {o} : e2[i] = f[i]
    BY <1>1, <1>2, <1>7 DEF UnlinkedAt
  <2> QED
    BY <1>2, <1>7, <2>1 DEF HeadsTo
<1>8. CASE c = 2 /\ f[o].lf_start # k.lf_start
  <2> DEFINE W == lf_wakelock(F, o)
             S == lf_split(W, j, k, <<>>, spare)
  <2>1. y.file = S
    BY <1>1, <1>8 DEF UnlinkedAt
  <2>2. IsFile(W) /\ W.list = F.list /\ W.lf = F.lf
    BY <1>2, <1>3, <1>8, WakeIs
  <2> HIDE DEF W
  <2>3. f[o].lf_end = k.lf_end \/ spare \in Locks \ {o}
    BY <1>1, <1>3, <1>8 DEF Turnable
  <2>4. SplitTo(W, j, k, <<>>, spare, S)
    <3>1. /\ W.list \in Seq(Locks) /\ W.lf \in [Locks -> Structs] /\ j \in 1..Len(W.list)
          /\ (W.lf[W.list[j]].lf_end = k.lf_end \/ spare \in Locks \ {W.list[j]})
      BY <1>1, <1>2, <1>3, <1>8, <2>2, <2>3
    <3> QED
      BY <2>2, <3>1, SplitIs
  <2> HIDE DEF S
  <2>5. HeadsTo(2, ToSet(W.list), W.lf, n, spare, o, k, ToSet(S.list), S.lf)
    <3>1. <<>> \in Seq(Locks) /\ ToSet(<<>>) \subseteq {n}
      BY DEF ToSet
    <3>2. Turnable(W, FALSE, j, 2, n, spare, o, k) /\ (W.lf[o].lf_end = k.lf_end \/ spare \in Locks)
      BY <1>1, <1>8, <2>2, <2>3 DEF Turnable
    <3> QED
      BY <2>4, <3>1, <3>2, SplitHeads
  <2> QED
    BY <1>1, <1>8, <2>1, <2>2, <2>5
<1> QED
  BY <1>2, <1>5, <1>6, <1>7, <1>8

\* A turn of lf_clearlock keeps the chains.
LEMMA UnlinkQueued ==
  ASSUME NEW F, NEW j, NEW c, NEW n, NEW spare, NEW o, NEW k,
         Turnable(F, FALSE, j, c, n, spare, o, k), c = 2 => F.lf[o].lf_type # k.lf_type,
         Queued(F, n, ToSet(F.list), F.lf)
  PROVE  LET G == unlink_at(F, j, c, k, spare).file
         IN  Queued(G, n, ToSet(G.list), G.lf)
<1>1. PICK y : y = unlink_at(F, j, c, k, spare)
  OBVIOUS
<1>2. /\ IsFile(F) /\ LockList(F.list, F.lf) /\ c \in 0..5 /\ o = F.list[j]
      /\ c # 0 => j \in 1..Len(F.list)
      /\ spare \in Locks => spare \notin ToSet(F.list) \cup Requests \cup {n}
      /\ spare \in Locks <=> /\ c = 2 /\ F.lf[o].lf_type # k.lf_type
                             /\ F.lf[o].lf_start # k.lf_start /\ F.lf[o].lf_end # k.lf_end
  BY DEF Turnable
<1>3. c # 0 => o \in Locks /\ o \in ToSet(F.list)
  BY <1>2, ListIs
<1>4. UnlinkedAt(F, j, c, k, spare, o, y) /\ UnlinkedQueue(F, j, c, k, spare, o, y.file)
  BY <1>1, <1>2, <1>3, UnlinkAt, UnlinkQueue
<1>5. UnlinkTurn(F, j, c, n, spare, o, k, y)
  BY <1>4 DEF UnlinkTurn
<1>6. PICK H, e, H2, e2, G, d : /\ H = ToSet(F.list) /\ e = F.lf /\ G = y.file
                                /\ H2 = ToSet(G.list) /\ e2 = G.lf /\ d = IF c = 1 THEN 3 ELSE c
  OBVIOUS
<1>7. HeadsTo(d, H, e, n, spare, o, k, H2, e2)
  BY <1>5, <1>6, UnlinkHeads
<1>8. SUFFICES Queued(G, n, H2, e2)
  BY <1>1, <1>6
<1>9. Queued(F, n, H, e)
  BY <1>6
<1> DEFINE W == lf_wakelock(F, o)
           split == c = 2 /\ e[o].lf_start # k.lf_start
<1>10. CASE c = 0
  <2>1. G = F
    BY <1>4, <1>6, <1>10 DEF UnlinkedQueue
  <2> QED
    BY <1>6, <1>9, <2>1
<1>11. CASE c # 0 /\ ~ split
  <2>1. SameQueue(W, G)
    BY <1>4, <1>6, <1>11 DEF UnlinkedQueue
  <2>2. spare \notin Locks
    BY <1>2, <1>6, <1>11
  <2>3. Queued(W, n, H2, e2)
    BY <1>3, <1>6, <1>7, <1>9, <1>11, <2>2, HeadsWoken
  <2> HIDE DEF W
  <2> QED
    BY <2>1, <2>3, QueuedSame
<1>12. CASE split
  <2>1. G = lf_split(W, j, k, <<>>, spare)
    BY <1>4, <1>6, <1>12 DEF UnlinkedQueue
  <2>2. Queued(W, n, H, e) /\ W.block[o] = NOLOCKF
    BY <1>3, <1>6, <1>9, <1>12, QueuedWoken
  <2>3. IsFile(W) /\ W.list = F.list /\ W.lf = F.lf
    BY <1>2, <1>3, <1>12, WakeIs
  <2> HIDE DEF W
  <2>4. spare \in Locks <=> W.lf[W.list[j]].lf_end # k.lf_end
    BY <1>2, <1>6, <1>12, <2>3
  <2>5. SplitTo(W, j, k, <<>>, spare, G)
    <3>1. W.list \in Seq(Locks) /\ W.lf \in [Locks -> Structs] /\ j \in 1..Len(W.list)
      BY <1>2, <1>12, <2>3 DEF LockList
    <3>2. spare \in Locks => spare \in Locks \ {W.list[j]}
      BY <1>2, <1>3, <1>12, <2>3
    <3> QED
      BY <2>1, <2>3, <2>4, <3>1, <3>2, SplitIs
  <2>6. Queued(G, n, H, e) /\ (spare \in Locks => G.block[spare] = NOLOCKF)
        /\ \A i \in Locks \ {spare} : G.block[i] = W.block[i]
    <3>1. SplitOff(W, n, H, e, j, k, <<>>, spare, G)
      BY <1>2, <1>6, <2>2, <2>4, <2>5 DEF Third, SplitOff
    <3> QED
      BY <3>1, QueuedSplit
  <2>7. HeadsMove(G, n, H, e, {o}, spare, H2, e2)
    <3>1. /\ H2 \subseteq Locks /\ H2 \subseteq H \cup {n, spare} /\ H \ {o} \subseteq H2
          /\ n \in H => n \in H2
          /\ \A i \in Locks \ ({o} \cup {spare}) : e2[i] = e[i]
      BY <1>7 DEF HeadsTo
    <3>2. o \in H /\ o \in Locks \ {spare}
      BY <1>2, <1>3, <1>6, <1>12
    <3>3. G.block[o] = NOLOCKF
      BY <2>2, <2>6, <3>2
    <3> QED
      BY <1>2, <1>6, <2>6, <3>1, <3>2, <3>3 DEF HeadsMove
  <2> QED
    BY <2>6, <2>7, HeadsMoved
<1> QED
  BY <1>10, <1>11, <1>12

\* The range of k may be cleared, where the chains are as they should be; n is
\* the request that is going to wait, or nothing.
Unlinkable(F, n, k, spare) ==
  /\ Clearable(F, k, spare) /\ Queued(F, n, ToSet(F.list), F.lf)
  /\ n \notin ToSet(F.list) /\ (spare \in Locks => spare \notin Requests \cup {n})

\* The first turn.
LEMMA UnlinkFirst ==
  ASSUME NEW F, NEW n, NEW k, NEW spare, Unlinkable(F, n, k, spare)
  PROVE  LET G == unlink_turn(Going(F, 1, FALSE), k, spare).file
         IN  Queued(G, n, ToSet(G.list), G.lf)
<1> DEFINE h == findoverlap_self(F, 1, k)
<1>1. /\ IsFile(F) /\ LockList(F.list, F.lf) /\ k \in Structs /\ Proper(k)
      /\ spare \notin ToSet(F.list) /\ n \notin ToSet(F.list)
      /\ spare \in Locks => spare \notin Requests \cup {n}
      /\ Queued(F, n, ToSet(F.list), F.lf)
  BY DEF Unlinkable, Clearable
<1>2. unlink_turn(Going(F, 1, FALSE), k, spare) = unlink_at(F, h.at, h.case, k, spare)
  BY DEF unlink_turn, Going
<1>3. 1 \in 1..Len(F.list) + 1 /\ Len(F.list) \in Nat
  BY <1>1, ListIs
<1>4. Stopped(F.list, F.lf, k, 1, h.at, h.case)
  BY <1>1, <1>3, SearchStops
<1>5. PICK j, c, o : j = h.at /\ c = h.case /\ o = F.list[j]
  OBVIOUS
<1>6. Splits(F, k) <=> c = 2 /\ F.lf[o].lf_type # k.lf_type /\ F.lf[o].lf_start # k.lf_start
                         /\ F.lf[o].lf_end # k.lf_end
  BY <1>5 DEF Splits
<1>7. Stopped(F.list, F.lf, k, 1, j, c)
  BY <1>4, <1>5
<1> HIDE DEF h
<1>8. /\ j \in 1..Len(F.list) + 1 /\ c \in 0..5
      /\ c # 0 => /\ j \in 1..Len(F.list) /\ F.lf[o].lf_id = k.lf_id /\ o \in ToSet(F.list)
                  /\ c = 1 => F.lf[o].lf_start = k.lf_start /\ F.lf[o].lf_end = k.lf_end
                  /\ c = 2 => k.lf_end # EOF
                  /\ c = 3 => k.lf_start <= F.lf[o].lf_start /\ Hi(F.lf[o]) <= Hi(k)
  <2>1. HitLies(F.list, F.lf, k, 1, j, c)
    BY <1>1, <1>3, <1>5, <1>7, StoppedIs
  <2> QED
    BY <1>1, <1>3, <1>5, <1>7, <2>1 DEF HitLies
<1>9. c # 0 => F.lf[o].lf_type \in Types
  <2>1. \A i \in ToSet(F.list) : F.lf[i] \in Held
    BY <1>1 DEF LockList
  <2> QED
    BY <1>8, <2>1, HeldIs
<1>10. (spare \in Locks <=> /\ c = 2 /\ F.lf[o].lf_type # k.lf_type
                            /\ F.lf[o].lf_start # k.lf_start /\ F.lf[o].lf_end # k.lf_end)
       /\ (c = 2 => F.lf[o].lf_type # k.lf_type)
  BY <1>6, <1>8, <1>9, NotALock DEF Unlinkable, Clearable
<1>11. Turnable(F, FALSE, j, c, n, spare, o, k)
  <2>1. c # 0 => o # n
    BY <1>1, <1>8
  <2>2. spare \in Locks => spare \notin ToSet(F.list) \cup Requests \cup {n}
    BY <1>1
  <2> QED
    BY <1>1, <1>5, <1>8, <1>10, <2>1, <2>2 DEF Turnable
<1>12. PICK G : G = unlink_at(F, j, c, k, spare).file
  OBVIOUS
<1>13. Queued(G, n, ToSet(G.list), G.lf)
  BY <1>1, <1>10, <1>11, <1>12, UnlinkQueued
<1> QED
  BY <1>2, <1>5, <1>12, <1>13

\* A later turn.
LEMMA UnlinkNext ==
  ASSUME NEW M, NEW e, NEW x, NEW n, NEW k, x.more = TRUE, IsFile(x.file),
         Unlinking(M, e, x.file.list, x.file.lf, x.at, k, NOLOCKF), n \notin ToSet(M),
         Queued(x.file, n, ToSet(x.file.list), x.file.lf)
  PROVE  LET G == unlink_turn(x, k, NOLOCKF).file
         IN  Queued(G, n, ToSet(G.list), G.lf)
<1>1. PICK F, i, spare : F = x.file /\ i = x.at /\ spare = NOLOCKF
  OBVIOUS
<1> DEFINE h == findoverlap_self(F, i, k)
<1>2. /\ IsFile(F) /\ LockList(F.list, F.lf) /\ i \in 1..Len(F.list) + 1
      /\ Beyond(F.list, F.lf, k, i, k.lf_start) /\ k \in Structs /\ Proper(k)
      /\ ToSet(F.list) \subseteq ToSet(M) \cup {NOLOCKF}
      /\ Queued(F, n, ToSet(F.list), F.lf)
  BY <1>1 DEF Unlinking, Clearing, Rel
<1>3. unlink_turn(x, k, NOLOCKF) = unlink_at(F, h.at, h.case, k, spare)
  BY <1>1 DEF unlink_turn
<1>4. Stopped(F.list, F.lf, k, i, h.at, h.case)
  BY <1>2, SearchStops
<1>5. PICK j, c, o : j = h.at /\ c = h.case /\ o = F.list[j]
  OBVIOUS
<1>6. Stopped(F.list, F.lf, k, i, j, c)
  BY <1>4, <1>5
<1> HIDE DEF h
<1>7. /\ j \in 1..Len(F.list) + 1 /\ j \in i..Len(F.list) + 1 /\ c \in 0..5 /\ i \in Int
      /\ Len(F.list) \in Nat
      /\ c # 0 => /\ j \in 1..Len(F.list) /\ F.lf[o].lf_id = k.lf_id /\ o \in ToSet(F.list) /\ o \in Locks
                  /\ c = 1 => F.lf[o].lf_start = k.lf_start /\ F.lf[o].lf_end = k.lf_end
                  /\ c = 2 => F.lf[o].lf_start <= k.lf_start
                  /\ c = 3 => k.lf_start <= F.lf[o].lf_start /\ Hi(F.lf[o]) <= Hi(k)
  <2>1. HitLies(F.list, F.lf, k, i, j, c)
    BY <1>2, <1>5, <1>6, StoppedIs
  <2> QED
    BY <1>2, <1>5, <1>6, <2>1 DEF HitLies
<1>8. c # 2
  <2> SUFFICES ASSUME c = 2 PROVE FALSE
    OBVIOUS
  <2>1. j \in i..Len(F.list) /\ F.lf[o].lf_start <= k.lf_start
    BY <1>7
  <2>2. k.lf_start < F.lf[o].lf_start
    BY <1>2, <1>5, <1>7, <2>1 DEF Beyond
  <2>3. k.lf_start \in Int /\ F.lf[o].lf_start \in Int
    <3>1. F.lf[o] \in Structs
      BY <1>2, <1>7 DEF LockList
    <3> QED
      BY <1>2, <3>1, StructIs
  <2> QED
    BY <2>1, <2>2, <2>3
<1>9. spare \notin Locks /\ (c # 0 => o # n)
  BY <1>1, <1>2, <1>7, NotALock
<1>10. Turnable(F, FALSE, j, c, n, spare, o, k)
  BY <1>2, <1>5, <1>7, <1>8, <1>9 DEF Turnable
<1>11. PICK G : G = unlink_at(F, j, c, k, spare).file
  OBVIOUS
<1>12. Queued(G, n, ToSet(G.list), G.lf)
  BY <1>2, <1>8, <1>10, <1>11, UnlinkQueued
<1> QED
  BY <1>3, <1>5, <1>11, <1>12

\* So the loop of lf_clearlock keeps the chains.
LEMMA UnlinkChains ==
  ASSUME NEW F, NEW n, NEW k, NEW spare, Unlinkable(F, n, k, spare)
  PROVE  LET G == unlink_range(F, k, spare) IN Queued(G, n, ToSet(G.list), G.lf)
<1> DEFINE N == Len(F.list)
<1>1. Clearable(F, k, spare) /\ F.list \in Seq(Locks) /\ N \in Nat /\ n \notin ToSet(F.list)
  BY DEF Unlinkable, Clearable, LockList
<1>2. PICK s : UnlinkSeq(F, k, spare, s)
  BY <1>1, UnlinkTurns
<1>3. /\ s[0] = Going(F, 1, FALSE)
      /\ \A t \in 1..N + 1 : s[t] = unlink_turn(s[t - 1], k, spare)
      /\ unlink_range(F, k, spare) = s[N + 1].file
  BY <1>2 DEF UnlinkSeq
<1> HIDE DEF N
<1> DEFINE Ok(y) ==
             /\ Queued(y.file, n, ToSet(y.file.list), y.file.lf)
             /\ \/ y.more = FALSE
                \/ /\ y.more = TRUE /\ IsFile(y.file) /\ spare = NOLOCKF
                   /\ Unlinking(F.list, F.lf, y.file.list, y.file.lf, y.at, k, spare)
           S == {t \in Nat : t + 1 \in 1..N + 1 => Ok(s[t + 1])}
<1>4. 0 \in S
  <2>1. PICK y : y = unlink_turn(Going(F, 1, FALSE), k, spare)
    OBVIOUS
  <2>2. s[0 + 1] = y
    <3>1. 0 + 1 = 1 /\ 1 \in 1..N + 1 /\ 1 - 1 = 0
      BY <1>1
    <3> QED
      BY <1>3, <2>1, <3>1
  <2>3. Turning(F.list, F.lf, y, k, spare, Len(F.list)) /\ (y.more = TRUE => spare = NOLOCKF)
    BY <1>1, <2>1, ClearFirst
  <2>4. Queued(y.file, n, ToSet(y.file.list), y.file.lf)
    BY <2>1, UnlinkFirst
  <2>5. Ok(y)
    BY <2>3, <2>4 DEF Turning
  <2> HIDE DEF Ok
  <2> QED
    BY <2>2, <2>5
<1>5. ASSUME NEW t \in Nat, t \in S PROVE t + 1 \in S
  <2> HIDE DEF Ok
  <2> SUFFICES ASSUME (t + 1) + 1 \in 1..N + 1 PROVE Ok(s[(t + 1) + 1])
    OBVIOUS
  <2>1. PICK x, y : x = s[t + 1] /\ y = s[(t + 1) + 1]
    OBVIOUS
  <2>2. t + 1 \in 1..N + 1 /\ ((t + 1) + 1) - 1 = t + 1
    BY <1>1
  <2>3. Ok(x) /\ y = unlink_turn(x, k, spare)
    BY <1>3, <1>5, <2>1, <2>2
  <2> USE DEF Ok
  <2>4. CASE x.more = FALSE
    <3>1. y = x
      BY <2>3, <2>4 DEF unlink_turn
    <3> HIDE DEF Ok
    <3> QED
      BY <2>1, <2>3, <3>1
  <2>5. CASE x.more = TRUE
    <3>1. /\ IsFile(x.file) /\ spare = NOLOCKF
          /\ Unlinking(F.list, F.lf, x.file.list, x.file.lf, x.at, k, spare)
          /\ Queued(x.file, n, ToSet(x.file.list), x.file.lf)
      BY <2>3, <2>5
    <3>2. Turning(F.list, F.lf, y, k, spare, Len(x.file.list) - x.at + 1)
      BY <2>3, <2>5, <3>1, ClearNext
    <3>3. Queued(y.file, n, ToSet(y.file.list), y.file.lf)
      BY <1>1, <2>3, <2>5, <3>1, UnlinkNext
    <3>4. Ok(y)
      BY <3>1, <3>2, <3>3 DEF Turning
    <3> HIDE DEF Ok
    <3> QED
      BY <2>1, <3>4
  <2> QED
    BY <2>3, <2>4, <2>5
<1>6. N \in S
  <2> HIDE DEF S
  <2> QED
    BY <1>1, <1>4, <1>5, SetInduction
<1>7. Ok(s[N + 1])
  <2> HIDE DEF Ok
  <2> QED
    BY <1>1, <1>6
<1> QED
  BY <1>3, <1>7

-----------------------------------------------------------------------------
(* The steps keep the chains.                                              *)

\* The requests of two owners are two structures.
LEMMA RequestsDiffer ==
  ASSUME IInv
  PROVE  /\ \A q \in Procs : req[q] # NOLOCKF =>
              /\ req[q] \in Locks /\ req[q] \notin ToSet(i_lockf) /\ state[q] # "idle"
              /\ Proper(lf[req[q]])
         /\ \A q, r \in Procs : q # r /\ req[q] # NOLOCKF => req[q] # req[r]
         /\ Requests \subseteq Locks /\ Requests \cap ToSet(i_lockf) = {}
         /\ \A q \in Waiters : req[q] # NOLOCKF /\ req[q] \in Requests
         /\ Waiting \subseteq Requests
         /\ \A q \in Procs : q \notin Waiters => req[q] \notin Waiting
<1>1. \A q \in Procs : /\ (state[q] = "idle" <=> req[q] = NOLOCKF)
                       /\ req[q] # NOLOCKF => Asks(q, i_lockf, lf, state[q], req[q])
  BY InvIs
<1>2. \A q \in Procs : req[q] # NOLOCKF =>
              /\ req[q] \in Locks /\ req[q] \notin ToSet(i_lockf) /\ state[q] # "idle"
              /\ Proper(lf[req[q]]) /\ lf[req[q]].lf_id = q
  BY <1>1 DEF Asks
<1>3. \A q, r \in Procs : q # r /\ req[q] # NOLOCKF => req[q] # req[r]
  BY <1>2
<1>4. \A q \in Waiters : q \in Procs /\ req[q] # NOLOCKF
  BY <1>1 DEF Waiters
<1>5. /\ Requests \subseteq Locks /\ Requests \cap ToSet(i_lockf) = {}
      /\ \A q \in Waiters : req[q] \in Requests
  BY <1>2, <1>4 DEF Requests
<1>6. \A q \in Procs : q \notin Waiters => req[q] \notin Waiting
  BY <1>3, <1>4 DEF Waiting
<1> QED
  BY <1>2, <1>3, <1>4, <1>5, <1>6 DEF Waiting

\* What Becomes does to the pointers of what is in use.
LEMMA BecomesPoints ==
  ASSUME IInv, NEW p \in Procs, NEW F, NEW s, NEW n, Fits(p, F, s, n), Becomes(p, F, s, n)
  PROVE  /\ \A c \in ToSet(F.list) : lf_block'[c] = F.block[c]
         /\ n # NOLOCKF => lf_block'[n] = F.block[n] /\ lf_next'[n] = F.next[n]
         /\ \A q \in Procs \ {p} : req[q] # NOLOCKF =>
              lf_block'[req[q]] = F.block[req[q]] /\ lf_next'[req[q]] = F.next[req[q]]
         /\ \A q \in Procs \ {p} :
              state'[q] = IF state[q] = "sleeping" /\ req[q] \in F.woken THEN "awakened" ELSE state[q]
         /\ state'[p] = s /\ system' = F.system
<1> DEFINE live == ToSet(F.list) \cup {IF q = p THEN n ELSE req[q] : q \in Procs}
           kept == live \cup {F.next[k] : k \in live \ ({NOLOCKF} \cup ToSet(F.list))}
<1>1. /\ lf_block' = [k \in Locks |-> IF k \in kept THEN F.block[k] ELSE NOLOCKF]
      /\ lf_next' = [k \in Locks |-> IF k \in live \ ToSet(F.list) THEN F.next[k] ELSE NOLOCKF]
      /\ state' = [q \in Procs |->
                     CASE q = p -> s
                       [] q # p /\ state[q] = "sleeping" /\ req[q] \in F.woken -> "awakened"
                       [] OTHER -> state[q]]
      /\ system' = F.system
  BY DEF Becomes
<1>2. /\ ToSet(F.list) \subseteq live /\ n \in live /\ live \subseteq kept
      /\ \A q \in Procs \ {p} : req[q] \in live
  OBVIOUS
<1> HIDE DEF live, kept
<1>3. /\ ToSet(F.list) \subseteq Locks
      /\ n # NOLOCKF => n \in Locks \ ToSet(F.list)
      /\ \A q \in Procs \ {p} : req[q] # NOLOCKF => req[q] \in Locks \ ToSet(F.list)
  <2>1. LockList(F.list, F.lf) /\ Others(p, F.list, F.lf) /\ (n # NOLOCKF => Asks(p, F.list, F.lf, s, n))
    BY DEF Fits
  <2>2. \A q \in Procs : req[q] # NOLOCKF => req[q] \in Locks
    BY RequestsDiffer
  <2> QED
    BY <2>1, <2>2, ListIs DEF Others, Asks
<1>4. /\ \A c \in live \cap Locks : lf_block'[c] = F.block[c]
      /\ \A c \in (live \ ToSet(F.list)) \cap Locks : lf_next'[c] = F.next[c]
  BY <1>1, <1>2
<1>5. \A q \in Procs \ {p} :
        state'[q] = IF state[q] = "sleeping" /\ req[q] \in F.woken THEN "awakened" ELSE state[q]
  BY <1>1
<1>6. state'[p] = s
  BY <1>1
<1>7. n # NOLOCKF => lf_block'[n] = F.block[n] /\ lf_next'[n] = F.next[n]
  BY <1>2, <1>3, <1>4
<1>8. \A q \in Procs \ {p} : req[q] # NOLOCKF =>
              lf_block'[req[q]] = F.block[req[q]] /\ lf_next'[req[q]] = F.next[req[q]]
  BY <1>2, <1>3, <1>4
<1> QED
  BY <1>1, <1>2, <1>3, <1>4, <1>5, <1>6, <1>7, <1>8

\* Who waits after the step.
LEMMA RestsWaiters ==
  ASSUME IInv, NEW p \in Procs, NEW F, NEW s, NEW n, NEW V, Rests(p, F, s, n, V)
  PROVE  /\ \A q \in Procs \ {p} : q \in Waiters' <=> q \in Waiters /\ req[q] \notin F.woken
         /\ p \in Waiters' <=> s = "sleeping" \/ (s = "interrupted" /\ F.next[n] # NOLOCKF)
         /\ Waiting' = V
<1>1. Fits(p, F, s, n) /\ Becomes(p, F, s, n) /\ (s = "idle" <=> n = NOLOCKF)
  BY DEF Rests, Fits
<1>2. /\ n # NOLOCKF => lf_block'[n] = F.block[n] /\ lf_next'[n] = F.next[n]
      /\ \A q \in Procs \ {p} : req[q] # NOLOCKF =>
              lf_block'[req[q]] = F.block[req[q]] /\ lf_next'[req[q]] = F.next[req[q]]
      /\ \A q \in Procs \ {p} :
              state'[q] = IF state[q] = "sleeping" /\ req[q] \in F.woken THEN "awakened" ELSE state[q]
      /\ state'[p] = s
  BY <1>1, BecomesPoints
<1>3. req'[p] = n /\ \A q \in Procs \ {p} : req'[q] = req[q]
  BY <1>1, BecomesIs
<1>4. /\ \A q \in Procs : req[q] # NOLOCKF => state[q] # "idle"
      /\ \A q \in Procs : req[q] = NOLOCKF => state[q] = "idle"
  BY InvIs
<1>5. ASSUME NEW q \in Procs \ {p}
      PROVE  q \in Waiters' <=> q \in Waiters /\ req[q] \notin F.woken
  <2>1. q \in Waiters' <=> \/ state'[q] = "sleeping"
                           \/ state'[q] = "interrupted" /\ lf_next'[req[q]] # NOLOCKF
    BY <1>3 DEF Waiters
  <2>2. q \in Waiters <=> \/ state[q] = "sleeping"
                          \/ state[q] = "interrupted" /\ lf_next[req[q]] # NOLOCKF
    BY DEF Waiters
  <2>3. CASE req[q] = NOLOCKF
    BY <1>2, <1>4, <2>1, <2>2, <2>3
  <2>4. CASE req[q] # NOLOCKF /\ req[q] \in F.woken
    <3>1. F.next[req[q]] = NOLOCKF /\ lf_next'[req[q]] = NOLOCKF
      BY <1>2, <2>4 DEF Rests
    <3>2. state'[q] # "sleeping"
      BY <1>2, <2>4
    <3> QED
      BY <2>1, <2>4, <3>1, <3>2
  <2>5. CASE req[q] # NOLOCKF /\ req[q] \notin F.woken
    <3>1. lf_next'[req[q]] = lf_next[req[q]] /\ state'[q] = state[q]
      BY <1>2, <2>5 DEF Rests
    <3> QED
      BY <2>1, <2>2, <2>5, <3>1
  <2> QED
    BY <2>3, <2>4, <2>5
<1>6. p \in Waiters' <=> s = "sleeping" \/ (s = "interrupted" /\ F.next[n] # NOLOCKF)
  BY <1>1, <1>2, <1>3 DEF Waiters
<1>7. Waiting' = {req'[q] : q \in Waiters'} /\ Waiters' \subseteq Procs /\ Waiters \subseteq Procs
  BY DEF Waiting, Waiters
<1>8. Waiting' = V
  <2>1. V = ({req[q] : q \in Waiters \ {p}} \ F.woken)
           \cup (IF s = "sleeping" \/ (s = "interrupted" /\ F.next[n] # NOLOCKF) THEN {n} ELSE {})
    BY DEF Rests
  <2>2. ASSUME NEW w \in V PROVE w \in Waiting'
    <3>1. CASE w \in {req[q] : q \in Waiters \ {p}} \ F.woken
      <4>1. PICK q \in Waiters \ {p} : w = req[q]
        BY <3>1
      <4>2. q \in Waiters' /\ req'[q] = w
        BY <1>3, <1>5, <1>7, <3>1, <4>1
      <4> QED
        BY <1>7, <4>2
    <3>2. CASE (s = "sleeping" \/ (s = "interrupted" /\ F.next[n] # NOLOCKF)) /\ w = n
      BY <1>3, <1>6, <1>7, <3>2
    <3> QED
      BY <2>1, <2>2, <3>1, <3>2
  <2>3. ASSUME NEW w \in Waiting' PROVE w \in V
    <3>1. PICK q \in Waiters' : w = req'[q]
      BY <1>7, <2>3
    <3>2. CASE q = p
      BY <1>3, <1>6, <2>1, <3>1, <3>2
    <3>3. CASE q # p
      <4>1. q \in Waiters \ {p} /\ w = req[q] /\ w \notin F.woken
        BY <1>3, <1>5, <1>7, <3>1, <3>3
      <4> QED
        BY <2>1, <4>1
    <3> QED
      BY <3>2, <3>3
  <2> QED
    BY <2>2, <2>3
<1> QED
  BY <1>5, <1>6, <1>8

LEMMA RestsChains ==
  ASSUME IInv, Awake, NEW p \in Procs, NEW F, NEW s, NEW n, NEW V, Rests(p, F, s, n, V)
  PROVE  ChainInv'
<1>1. /\ Fits(p, F, s, n) /\ Becomes(p, F, s, n) /\ (s = "idle" <=> n = NOLOCKF) /\ IsFile(F)
      /\ LockList(F.list, F.lf) /\ (n # NOLOCKF => n \in Locks \ ToSet(F.list))
      /\ F.system \in {"runs", "panic: lost lock"}
  BY DEF Rests, Fits, Asks
<1>0. Fits(p, F, s, n) /\ Becomes(p, F, s, n)
  BY <1>1
<1>2. /\ \A c \in ToSet(F.list) : lf_block'[c] = F.block[c]
      /\ n # NOLOCKF => lf_block'[n] = F.block[n] /\ lf_next'[n] = F.next[n]
      /\ \A q \in Procs \ {p} : req[q] # NOLOCKF =>
              lf_block'[req[q]] = F.block[req[q]] /\ lf_next'[req[q]] = F.next[req[q]]
      /\ state'[p] = s /\ system' = F.system
  BY <1>0, BecomesPoints
<1>3. /\ i_lockf' = F.list /\ (\A c \in ToSet(F.list) : lf'[c] = F.lf[c])
      /\ n # NOLOCKF => lf'[n] = F.lf[n]
      /\ req'[p] = n
      /\ \A q \in Procs \ {p} : req'[q] = req[q] /\ (req[q] # NOLOCKF => lf'[req[q]] = F.lf[req[q]])
  BY <1>0, BecomesIs
<1>4. /\ \A q \in Procs \ {p} : q \in Waiters' <=> q \in Waiters /\ req[q] \notin F.woken
      /\ p \in Waiters' <=> s = "sleeping" \/ (s = "interrupted" /\ F.next[n] # NOLOCKF)
      /\ Waiting' = V
  BY RestsWaiters
<1>5. PICK H : H = ToSet(F.list)
  OBVIOUS
<1>6. H \subseteq Locks /\ F.block \in Pointers /\ Chains(F.block, F.next, H, V, F.lf)
  BY <1>1, <1>5, ListIs DEF Rests, IsFile
<1>7. \A w \in V : /\ w \in Locks /\ lf_block'[w] = F.block[w] /\ lf_next'[w] = F.next[w] /\ lf'[w] = F.lf[w]
  <2> TAKE w \in V
  <2>1. CASE w = n /\ n # NOLOCKF
    BY <1>1, <1>2, <1>3, <2>1
  <2>2. CASE \E q \in Waiters \ {p} : w = req[q]
    <3>1. PICK q \in Waiters \ {p} : w = req[q]
      BY <2>2
    <3>2. q \in Procs \ {p} /\ req[q] # NOLOCKF /\ req[q] \in Locks
      BY <3>1, RequestsDiffer DEF Waiters
    <3> QED
      BY <1>2, <1>3, <3>1, <3>2
  <2> QED
    BY <1>1, <2>1, <2>2 DEF Rests
<1>8. Chains(lf_block', lf_next', H, V, lf')
  <2>1. ChainsKept(F.block, H, V, F.lf, lf_block', F.next, lf_next', H, lf')
    BY <1>2, <1>3, <1>5, <1>7 DEF ChainsKept
  <2>2. V \subseteq Locks
    BY <1>7
  <2> QED
    BY <1>6, <2>1, <2>2, ChainsEdit
<1>9. Chains(lf_block, lf_next, ToSet(i_lockf), Waiting, lf)'
  BY <1>3, <1>4, <1>5, <1>8
<1>10. Awake'
  <2> SUFFICES ASSUME NEW q \in Procs, req'[q] # NOLOCKF, q \notin Waiters'
               PROVE  lf_block'[req'[q]] = NOLOCKF /\ lf_next'[req'[q]] = NOLOCKF
    BY DEF Awake
  <2>1. CASE q = p
    <3>1. n # NOLOCKF /\ s = "interrupted" /\ F.next[n] = NOLOCKF /\ F.block[n] = NOLOCKF
      BY <1>3, <1>4, <2>1 DEF Rests
    <3> QED
      BY <1>2, <1>3, <2>1, <3>1
  <2>2. CASE q # p /\ req[q] \in F.woken
    <3>1. req'[q] = req[q] /\ req[q] # NOLOCKF
      BY <1>3, <2>2
    <3>2. F.block[req[q]] = NOLOCKF /\ F.next[req[q]] = NOLOCKF
      BY <2>2, <3>1 DEF Rests
    <3> QED
      BY <1>2, <2>2, <3>1, <3>2
  <2>3. CASE q # p /\ req[q] \notin F.woken
    <3>1. req'[q] = req[q] /\ req[q] # NOLOCKF /\ q \notin Waiters
      BY <1>3, <1>4, <2>3
    <3>2. F.block[req[q]] = NOLOCKF /\ F.next[req[q]] = lf_next[req[q]]
      BY <2>3, <3>1 DEF Rests
    <3>3. lf_next[req[q]] = NOLOCKF
      BY <3>1 DEF Awake
    <3> QED
      BY <1>2, <2>3, <3>1, <3>2, <3>3
  <2> QED
    BY <2>1, <2>2, <2>3
<1> QED
  BY <1>1, <1>2, <1>9, <1>10 DEF ChainInv

\* The chains of F, at the end of a step of p, who does not wait.
LEMMA QueuedIdle ==
  ASSUME IInv, Awake, NEW p \in Procs, p \notin Waiters, NEW G, NEW n, NoOthers(p, n),
         Queued(G, n, ToSet(G.list), G.lf),
         Fits(p, G, "idle", NOLOCKF), Becomes(p, G, "idle", NOLOCKF)
  PROVE  ChainInv'
<1> DEFINE V == Waiting \ G.woken
<1>1. Waiting = {req[q] : q \in Waiters \ {p}}
  BY DEF Waiting
<1>2. /\ G.system = "runs" /\ G.woken \subseteq Waiting
      /\ \A w \in Requests \ {n} :
           /\ w \in G.woken => G.block[w] = NOLOCKF /\ G.next[w] = NOLOCKF
           /\ w \notin G.woken => G.next[w] = lf_next[w]
           /\ w \notin Waiting => G.block[w] = lf_block[w]
      /\ Chains(G.block, G.next, ToSet(G.list), V, G.lf)
  BY DEF Queued
<1>3. ASSUME NEW q \in Procs \ {p}, req[q] # NOLOCKF
      PROVE  /\ req[q] \in G.woken => G.block[req[q]] = NOLOCKF /\ G.next[req[q]] = NOLOCKF
             /\ req[q] \notin G.woken => G.next[req[q]] = lf_next[req[q]]
             /\ q \notin Waiters => G.block[req[q]] = NOLOCKF
  <2>1. req[q] \in Requests \ {n}
    BY <1>3 DEF NoOthers, Requests
  <2>2. q \notin Waiters => req[q] \notin Waiting /\ lf_block[req[q]] = NOLOCKF
    BY <1>3, RequestsDiffer DEF Awake
  <2> QED
    BY <1>2, <2>1, <2>2
<1>4. V = ({req[q] : q \in Waiters \ {p}} \ G.woken)
           \cup (IF "idle" = "sleeping" \/ ("idle" = "interrupted" /\ G.next[NOLOCKF] # NOLOCKF)
                 THEN {NOLOCKF} ELSE {})
  BY <1>1
<1> HIDE DEF V
<1>5. Rests(p, G, "idle", NOLOCKF, V)
  BY <1>1, <1>2, <1>3, <1>4 DEF Rests
<1> QED
  BY <1>5, RestsChains

\* Before p sleeps, its request joins the chain of the lock b.
LEMMA QueuedSleeps ==
  ASSUME IInv, Awake, NEW p \in Procs, p \notin Waiters, NEW G, NEW n, NoOthers(p, n),
         n \in Locks \ ToSet(G.list), Queued(G, n, ToSet(G.list), G.lf),
         NEW b \in ToSet(G.list), Opposed(G.lf[n], G.lf[b]),
         NEW H, H = lf_addblock([G EXCEPT !.next[n] = b], b, n),
         Fits(p, H, "sleeping", n), Becomes(p, H, "sleeping", n)
  PROVE  ChainInv'
<1>1. PICK N, T, e, W : /\ N = [G EXCEPT !.next[n] = b] /\ T = ToSet(G.list) /\ e = G.lf
                        /\ W = Waiting \ G.woken
  OBVIOUS
<1>2. /\ IsFile(G) /\ G.system = "runs" /\ G.woken \subseteq Waiting /\ T \subseteq Locks
      /\ n \notin Waiting /\ Waiting \subseteq Requests /\ Requests \subseteq Locks
      /\ \A w \in Requests \ {n} :
           /\ w \in G.woken => G.block[w] = NOLOCKF /\ G.next[w] = NOLOCKF
           /\ w \notin G.woken => G.next[w] = lf_next[w]
           /\ w \notin Waiting => G.block[w] = lf_block[w]
      /\ G.block[n] = NOLOCKF
      /\ Chains(G.block, G.next, T, W, e)
  BY <1>1 DEF Queued
<1>3. /\ IsFile(N) /\ N.block = G.block /\ N.woken = G.woken /\ N.system = G.system
      /\ N.list = G.list /\ N.lf = G.lf
      /\ \A j \in Locks : N.next[j] = IF j = n THEN b ELSE G.next[j]
  BY <1>1, <1>2 DEF IsFile, Pointers
<1>4. G.block \in Pointers /\ W \subseteq Locks /\ b \in Locks /\ n \notin W /\ n \notin T /\ b \in T
  BY <1>1, <1>2 DEF IsFile
<1>5. Chains(G.block, N.next, T, W, e)
  <2>1. ChainsKept(G.block, T, W, e, G.block, G.next, N.next, T, e)
    BY <1>3, <1>4 DEF ChainsKept
  <2> QED
    BY <1>2, <1>4, <2>1, ChainsEdit
<1>6. PICK root, rank, top : Chained(G.block, N.next, T, W, e, root, rank, top)
  BY <1>5 DEF Chains
<1>7. Blocked(G.block, b) = {w \in W : root[w] = b} /\ Ends(G.block, b) # {}
  BY <1>2, <1>4, <1>6, ChainIs
<1>8. /\ IsFile(H) /\ H.next = N.next /\ H.woken = N.woken /\ H.system = N.system
      /\ \E end \in Ends(N.block, b) : \A j \in Locks : H.block[j] = IF j = end THEN n ELSE N.block[j]
      /\ H.list = N.list /\ H.lf = N.lf
  <2>1. Ends(N.block, b) # {} /\ n \in Locks
    BY <1>3, <1>7
  <2>2. H = lf_addblock(N, b, n)
    BY <1>1
  <2> DEFINE A == lf_addblock(N, b, n)
  <2>3. /\ IsFile(A) /\ A.next = N.next /\ A.woken = N.woken /\ A.system = N.system
        /\ \E end \in Ends(N.block, b) : \A j \in Locks : A.block[j] = IF j = end THEN n ELSE N.block[j]
    <3>1. IsFile(N) /\ b \in Locks /\ n \in Locks /\ Ends(N.block, b) # {}
      BY <1>3, <1>4, <2>1
    <3>2. AddedBehind(N, b, n, A)
      BY <3>1, AddParts
    <3> HIDE DEF A
    <3> QED
      BY <3>2 DEF AddedBehind
  <2>4. A.list = N.list /\ A.lf = N.lf
    BY <1>3, <1>4, <2>1, AddIs
  <2> HIDE DEF A
  <2>5. H = A
    BY <2>2 DEF A
  <2> QED
    BY <2>3, <2>4, <2>5
<1>9. PICK end \in Ends(G.block, b) : \A j \in Locks : H.block[j] = IF j = end THEN n ELSE G.block[j]
  BY <1>3, <1>8
<1>10. end \in {b} \cup {w \in W : root[w] = b} /\ G.block[end] = NOLOCKF
  BY <1>7 DEF Ends
<1>11. Chains(H.block, H.next, T, W \cup {n}, e)
  <2> DEFINE drank == [w \in {n} |-> 0]
  <2>1. Piece(G.block, {n}, n, drank, 0)
    BY <1>2, <1>4, NotALock DEF Piece
  <2> HIDE DEF drank
  <2>2. Joins(G.block, H.block, N.next, T, W, e, root, {n}, n, b, end)
    BY <1>1, <1>3, <1>4, <1>9, <1>10 DEF Joins
  <2>3. Chains(H.block, N.next, T, W \cup {n}, e)
    BY <1>2, <1>4, <1>6, <2>1, <2>2, ChainsJoined
  <2> QED
    BY <1>8, <2>3
<1>12. Waiting = {req[q] : q \in Waiters \ {p}}
  BY DEF Waiting
<1>13. ASSUME NEW q \in Procs \ {p}, req[q] # NOLOCKF
       PROVE  /\ req[q] \in H.woken => H.block[req[q]] = NOLOCKF /\ H.next[req[q]] = NOLOCKF
              /\ req[q] \notin H.woken => H.next[req[q]] = lf_next[req[q]]
              /\ q \notin Waiters => H.block[req[q]] = NOLOCKF
  <2>1. PICK w : w = req[q]
    OBVIOUS
  <2>2. w \in Requests \ {n} /\ w \in Locks /\ w \notin T
    <3>1. w \in Requests \ {n} /\ w \in Locks
      BY <1>2, <1>13, <2>1 DEF NoOthers, Requests
    <3>2. (Requests \ {n}) \cap T = {}
      BY <1>1 DEF Queued
    <3> QED
      BY <3>1, <3>2
  <2>3. q \notin Waiters => w \notin Waiting /\ lf_block[w] = NOLOCKF
    BY <1>13, <2>1, RequestsDiffer DEF Awake
  <2>4. H.next[w] = G.next[w] /\ H.woken = G.woken
    BY <1>3, <1>8, <2>2
  <2>5. w \notin W => H.block[w] = G.block[w]
    BY <1>4, <1>9, <1>10, <2>2
  <2> QED
    BY <1>1, <1>2, <2>1, <2>2, <2>3, <2>4, <2>5
<1>14. Rests(p, H, "sleeping", n, W \cup {n})
  <2>1. ToSet(H.list) = T /\ H.lf = e /\ H.woken = G.woken /\ H.system = "runs"
    BY <1>1, <1>2, <1>3, <1>8
  <2>2. W \cup {n} = ({req[q] : q \in Waiters \ {p}} \ H.woken)
           \cup (IF "sleeping" = "sleeping" \/ ("sleeping" = "interrupted" /\ H.next[n] # NOLOCKF)
                 THEN {n} ELSE {})
    BY <1>1, <1>12, <2>1
  <2>3. H.woken \subseteq {req[q] : q \in Waiters \ {p}}
    BY <1>2, <1>12, <2>1
  <2> QED
    BY <1>11, <1>13, <2>1, <2>2, <2>3 DEF Rests
<1> QED
  BY <1>14, RestsChains

LEMMA FileBegins ==
  ASSUME IInv, ChainInv, system = "runs", NEW p \in Procs, p \notin Waiters
  PROVE  Begins(p, File, req[p]) /\ File.lf = lf
<1>1. Starts(p, File, req[p]) /\ File.lf = lf
  BY FileIs
<1>2. /\ Requests \subseteq Locks /\ Requests \cap ToSet(i_lockf) = {} /\ Waiting \subseteq Requests
      /\ req[p] \notin Waiting /\ NoOthers(p, req[p])
  BY RequestsDiffer DEF NoOthers
<1>3. /\ IsFile(File) /\ File.list = i_lockf /\ ToSet(i_lockf) \subseteq Locks
  BY <1>1, ListIs DEF Starts
<1>4. /\ File.block = lf_block /\ File.next = lf_next /\ File.woken = {} /\ File.system = system
  BY DEF File
<1>5. req[p] \in Locks \ ToSet(i_lockf) => File.block[req[p]] = NOLOCKF
  <2>1. req[p] \in Locks => req[p] # NOLOCKF
    BY NotALock
  <2> QED
    BY <1>4, <2>1 DEF ChainInv, Awake
<1>6. Chains(File.block, File.next, ToSet(File.list), Waiting \ File.woken, File.lf)
  <2>1. Waiting \ {} = Waiting
    OBVIOUS
  <2> QED
    BY <1>1, <1>3, <1>4, <2>1 DEF ChainInv
<1>7. PICK F : F = File
  OBVIOUS
<1>8. Queued(F, req[p], ToSet(F.list), F.lf)
  BY <1>2, <1>3, <1>4, <1>5, <1>6, <1>7 DEF Queued
<1> QED
  BY <1>1, <1>2, <1>7, <1>8 DEF Begins

\* malloc changes what no chain goes through.
LEMMA MallocBegins ==
  ASSUME IInv, ChainInv, system = "runs", NEW p \in Procs, state[p] = "idle",
         NEW n \in Locks \ InUse, NEW k, Wants(p, k)
  PROVE  Begins(p, malloc(n, k), n) /\ malloc(n, k).lf[n] = k
<1>1. Starts(p, malloc(n, k), n) /\ malloc(n, k).lf[n] = k
  BY MallocIs DEF Wants
<1>2. p \notin Waiters /\ req[p] = NOLOCKF
  BY InvIs DEF Waiters
<1>3. Begins(p, File, NOLOCKF) /\ File.lf = lf
  BY <1>2, FileBegins
<1>4. PICK F, G : F = File /\ G = malloc(n, k)
  OBVIOUS
<1>5. /\ F.list = i_lockf /\ F.lf = lf /\ F.block = lf_block /\ F.next = lf_next /\ F.woken = {}
      /\ F.system = system /\ DOMAIN F = {"list", "lf", "block", "next", "woken", "system"}
  BY <1>4 DEF File
<1>6. G = [F EXCEPT !.lf[n] = k, !.block[n] = NOLOCKF, !.next[n] = NOLOCKF]
  BY <1>4 DEF malloc
<1>7. /\ lf \in [Locks -> Structs] /\ lf_block \in Pointers /\ lf_next \in Pointers
  BY InvIs DEF TypeOK, Pointers
<1>8. /\ G.list = F.list /\ G.woken = F.woken /\ G.system = F.system
      /\ G.lf = [lf EXCEPT ![n] = k] /\ G.block = [lf_block EXCEPT ![n] = NOLOCKF]
      /\ G.next = [lf_next EXCEPT ![n] = NOLOCKF]
  BY <1>5, <1>6
<1>9. /\ G.block[n] = NOLOCKF
      /\ \A j \in Locks \ {n} : G.lf[j] = lf[j] /\ G.block[j] = lf_block[j] /\ G.next[j] = lf_next[j]
  <2>1. G.block[n] = NOLOCKF /\ \A j \in Locks \ {n} : G.block[j] = lf_block[j]
    BY <1>7, <1>8 DEF Pointers
  <2>2. \A j \in Locks \ {n} : G.lf[j] = lf[j]
    BY <1>7, <1>8
  <2>3. \A j \in Locks \ {n} : G.next[j] = lf_next[j]
    BY <1>7, <1>8 DEF Pointers
  <2> QED
    BY <2>1, <2>2, <2>3
<1>10. n \notin ToSet(i_lockf) /\ n \notin Requests /\ \A q \in Procs : req[q] # n
  BY NotALock DEF InUse, Requests
<1>11. PICK H, W : H = ToSet(i_lockf) /\ W = Waiting
  OBVIOUS
<1>12. /\ IsFile(G) /\ G.system = "runs" /\ H \subseteq Locks /\ Waiting \subseteq Requests
       /\ Requests \subseteq Locks /\ Requests \cap H = {} /\ W \subseteq Locks
  <2>1. IsFile(G) /\ LockList(i_lockf, G.lf)
    BY <1>1, <1>4 DEF Starts
  <2> QED
    BY <1>5, <1>8, <1>11, <2>1, ListIs, RequestsDiffer
<1>13. Chains(G.block, G.next, H, W, G.lf)
  <2>1. Chains(lf_block, lf_next, H, W, lf)
    BY <1>11 DEF ChainInv
  <2>2. ChainsKept(lf_block, H, W, lf, G.block, lf_next, G.next, H, G.lf)
    <3>1. \A j \in H \cup W : j \in Locks \ {n}
      BY <1>10, <1>11, <1>12
    <3> QED
      BY <1>9, <3>1 DEF ChainsKept
  <2> QED
    BY <1>7, <1>12, <2>1, <2>2, ChainsEdit
<1>14. Queued(G, n, ToSet(G.list), G.lf)
  <2>1. \A w \in Requests \ {n} : G.next[w] = lf_next[w] /\ G.block[w] = lf_block[w]
    BY <1>9, <1>12
  <2>2. G.woken = {} /\ ToSet(G.list) = H /\ W = Waiting \ G.woken
    BY <1>5, <1>8, <1>11
  <2> QED
    BY <1>9, <1>10, <1>12, <1>13, <2>1, <2>2 DEF Queued
<1>15. NoOthers(p, n) /\ \A w \in Waiting : G.lf[w] = lf[w]
  BY <1>9, <1>10, <1>12 DEF NoOthers
<1> QED
  BY <1>1, <1>4, <1>14, <1>15 DEF Begins

\* In this setting no lock is split while malloc sleeps.
LEMMA NoSplits ==
  ASSUME Setting, NEW p \in Procs, NEW F, LockList(F.list, F.lf), NEW k, Wants(p, k)
  PROVE  ~ (MallocSleeps /\ Splits(F, k))
<1> SUFFICES ASSUME MallocSleeps, Splits(F, k) PROVE FALSE
  OBVIOUS
<1>1. Flocks = Procs
  BY DEF Setting
<1>2. k.lf_end = EOF /\ k \in Structs /\ Proper(k)
  BY <1>1 DEF Wants
<1>3. \E o : Encloses(o, k)
  BY <1>2, SplitsIs
<1> QED
  BY <1>2, <1>3 DEF Encloses

\* The lock is put on the list.
LEMMA ChainsLinked ==
  ASSUME IInv, Awake, Setting, NEW p \in Procs, p \notin Waiters, NEW F, NEW n, Tries(p, F, n),
         Begins(p, F, n), Unopposed(F.lf[n]), NEW spare \in Spares(F, F.lf[n], InUse \cup {n}),
         Becomes(p, link_lock(F, n, spare), "idle", NOLOCKF)
  PROVE  ChainInv'
<1>1. PICK k, G : k = F.lf[n] /\ G = link_lock(F, n, spare)
  OBVIOUS
<1>2. /\ Wants(p, k) /\ k \in Held
      /\ LockList(F.list, F.lf) /\ Ord(F.list, F.lf, NOLOCKF) /\ Same(F) /\ IsFile(F)
      /\ n \in Locks /\ n \notin ToSet(F.list) /\ F.list = i_lockf
  BY <1>1, StartsIs
<1>3. /\ IF Splits(F, k) THEN spare \in Locks ELSE spare = NOLOCKF
      /\ spare # n /\ spare \notin ToSet(F.list) /\ spare \notin Requests
  <2>1. CASE Splits(F, k)
    <3>1. spare \in Locks \ (InUse \cup {n})
      BY <1>1, <2>1 DEF Spares
    <3> QED
      BY <1>2, <2>1, <3>1 DEF InUse
  <2>2. CASE ~ Splits(F, k)
    <3>1. spare = NOLOCKF
      BY <1>1, <2>2 DEF Spares
    <3> QED
      BY <1>2, <2>2, <3>1, NotALock, ListIs DEF Requests
  <2> QED
    BY <2>1, <2>2
<1>4. Fits(p, G, "idle", NOLOCKF) /\ Becomes(p, G, "idle", NOLOCKF)
  BY <1>1, TriesLink DEF Moves
<1>5. Linkable(F, n, k, spare)
  <2>1. Ready(F, n, k, spare)
    BY <1>1, <1>2, <1>3 DEF Ready
  <2>2. \A w \in Waiting : Proper(F.lf[w])
    <3>1. \A w \in Waiting : Proper(lf[w])
      BY RequestsDiffer DEF Waiting, Waiters
    <3> QED
      BY <1>2, <3>1, NotALock DEF Begins
  <2>3. \/ ~ Interruptible
        \/ /\ k.lf_start = 0 /\ k.lf_end = EOF
           /\ \A i \in ToSet(F.list) : F.lf[i].lf_start = 0 /\ F.lf[i].lf_end = EOF
    BY <1>2 DEF Setting, WholeFile, Wants, Same
  <2> QED
    BY <1>3, <2>1, <2>2, <2>3 DEF Linkable, Begins
<1>6. Queued(G, n, ToSet(G.list), G.lf)
  BY <1>1, <1>5, LinkChains
<1>7. NoOthers(p, n)
  BY DEF Begins
<1> QED
  BY <1>4, <1>6, <1>7, QueuedIdle

\* What conflicts does so both ways.
LEMMA OpposedBoth ==
  ASSUME NEW a \in Structs, Proper(a), NEW l \in Structs, Proper(l),
         a.lf_id # l.lf_id, ovcase(a, l) # 0, "F_WRLCK" \in {a.lf_type, l.lf_type}
  PROVE  Opposed(l, a)
<1>1. ovcase(l, a) # 0
  BY Cases
<1> QED
  BY <1>1 DEF Opposed

\* The request joins the chain of the lock that blocks it.
LEMMA ChainsBlocked ==
  ASSUME IInv, Awake, NEW p \in Procs, p \notin Waiters, NEW F, NEW n, Tries(p, F, n),
         Begins(p, F, n), NEW b, b = lf_getblock(F, F.lf[n]), b # NOLOCKF, Block(p, F, n, b)
  PROVE  ChainInv'
<1>1. PICK k : k = F.lf[n]
  OBVIOUS
<1>2. /\ Wants(p, k) /\ k \in Held /\ k.lf_type \in Types /\ k \in Structs /\ Proper(k) /\ k.lf_id = p
      /\ LockList(F.list, F.lf) /\ Ord(F.list, F.lf, NOLOCKF) /\ Same(F) /\ IsFile(F)
      /\ n \in Locks /\ n \notin ToSet(F.list) /\ F.list = i_lockf /\ Others(p, F.list, F.lf)
      /\ \A q \in Procs \ {p} : req[q] # n
  BY <1>1, StartsIs, HeldIs DEF Wants
<1>3. /\ b \in ToSet(F.list) /\ lf[b].lf_id # k.lf_id /\ ovcase(lf[b], k) # 0
      /\ "F_WRLCK" \in {lf[b].lf_type, k.lf_type} /\ F.lf[b] = lf[b]
  <2>1. /\ b \in ToSet(i_lockf) /\ lf[b].lf_id # k.lf_id /\ ovcase(lf[b], k) # 0
        /\ "F_WRLCK" \in {lf[b].lf_type, k.lf_type}
    BY <1>1, <1>2, GetblockIs DEF Same
  <2> QED
    BY <1>2, <2>1 DEF Same
<1>4. Opposed(k, lf[b])
  <2>1. lf[b] \in Structs /\ Proper(lf[b])
    <3>1. F.lf[b] \in Held
      BY <1>2, <1>3 DEF LockList
    <3> QED
      BY <1>3, <3>1, HeldIs
  <2> QED
    BY <1>2, <1>3, <2>1, OpposedBoth
<1> DEFINE drops == p \in Flocks /\ k.lf_type = "F_WRLCK"
<1>5. PICK G, H : /\ G = (IF drops THEN unlink_range(F, k, NOLOCKF) ELSE F)
                  /\ H = lf_addblock([G EXCEPT !.next[n] = b], b, n)
                  /\ Becomes(p, H, "sleeping", n)
  BY <1>1 DEF Block
<1>6. /\ Queued(G, n, ToSet(G.list), G.lf) /\ IsFile(G) /\ n \notin ToSet(G.list) /\ G.lf[n] = k
      /\ b \in ToSet(G.list) /\ G.lf[b] = lf[b]
      /\ LockList(G.list, G.lf) /\ Ord(G.list, G.lf, NOLOCKF) /\ Others(p, G.list, G.lf)
  <2>1. CASE drops
    <3>1. Clearable(F, k, NOLOCKF)
      BY <1>2, <2>1, ListIs, NotALock DEF Clearable, Wants
    <3>2. Unlinkable(F, n, k, NOLOCKF)
      BY <1>2, <3>1, NotALock DEF Unlinkable, Begins
    <3>3. Queued(G, n, ToSet(G.list), G.lf)
      BY <1>5, <2>1, <3>2, UnlinkChains
    <3>4. IsFile(G) /\ Unlinked(F.list, F.lf, G.list, G.lf, k, NOLOCKF)
      BY <1>5, <2>1, <3>1, UnlinkRange
    <3>5. Rel(ToSet(F.list), F.lf, ToSet(G.list), G.lf, k, NOLOCKF, NOLOCKF)
          /\ LockList(G.list, G.lf) /\ Ord(G.list, G.lf, NOLOCKF)
      BY <3>4 DEF Unlinked
    <3>6. Others(p, G.list, G.lf)
      BY <1>2, <3>5, OthersStep
    <3>7. n \notin ToSet(G.list) /\ G.lf[n] = k
      BY <1>1, <1>2, <3>5, NotALock DEF Rel
    <3>8. b \in ToSet(G.list) /\ G.lf[b] = lf[b]
      BY <1>3, <3>5 DEF Rel
    <3> QED
      BY <3>3, <3>4, <3>5, <3>6, <3>7, <3>8
  <2>2. CASE ~ drops
    <3>1. G = F
      BY <1>5, <2>2
    <3> QED
      BY <1>1, <1>2, <1>3, <3>1 DEF Begins
  <2> QED
    BY <2>1, <2>2
<1>7. Fits(p, H, "sleeping", n)
  <2>1. IsFile(H) /\ H.list = G.list /\ H.lf = G.lf
    <3>1. b \in ToSet(i_lockf)
      BY <1>2, <1>3
    <3> QED
      BY <1>2, <1>5, <1>6, <3>1, SleepIs
  <2> QED
    BY <1>2, <1>6, <2>1, SleepFits
<1>8. Opposed(G.lf[n], G.lf[b]) /\ NoOthers(p, n) /\ n \in Locks \ ToSet(G.list)
  BY <1>2, <1>4, <1>6 DEF NoOthers
<1> QED
  BY <1>5, <1>6, <1>7, <1>8, QueuedSleeps

\* A turn of lf_setlock.
LEMMA ChainsAttempt ==
  ASSUME IInv, Awake, Setting, NEW p \in Procs, p \notin Waiters, NEW F, NEW n, Tries(p, F, n),
         Begins(p, F, n), Attempt(p, F, n)
  PROVE  ChainInv'
<1>1. PICK b : b = lf_getblock(F, F.lf[n])
  OBVIOUS
<1>2. \/ /\ b = NOLOCKF
         /\ \E spare \in Spares(F, F.lf[n], InUse \cup {n}) :
              Becomes(p, link_lock(F, n, spare), "idle", NOLOCKF)
      \/ MallocSleeps /\ Splits(F, F.lf[n])
      \/ Becomes(p, F, "idle", NOLOCKF)
      \/ b # NOLOCKF /\ Block(p, F, n, b)
  BY <1>1 DEF Attempt
<1>3. /\ Wants(p, F.lf[n]) /\ LockList(F.list, F.lf) /\ F.list = i_lockf /\ Same(F)
  BY StartsIs
<1>4. CASE /\ b = NOLOCKF
           /\ \E spare \in Spares(F, F.lf[n], InUse \cup {n}) :
                Becomes(p, link_lock(F, n, spare), "idle", NOLOCKF)
  <2>1. Unopposed(F.lf[n])
    BY <1>1, <1>3, <1>4, GetblockIs DEF Same
  <2> QED
    BY <1>4, <2>1, ChainsLinked
<1>5. CASE MallocSleeps /\ Splits(F, F.lf[n])
  BY <1>3, <1>5, NoSplits
<1>6. CASE Becomes(p, F, "idle", NOLOCKF)
  <2>1. Fits(p, F, "idle", NOLOCKF)
    BY <1>6, TriesStay DEF Moves
  <2>2. Queued(F, n, ToSet(F.list), F.lf) /\ NoOthers(p, n)
    BY DEF Begins
  <2> QED
    BY <1>6, <2>1, <2>2, QueuedIdle
<1>7. CASE b # NOLOCKF /\ Block(p, F, n, b)
  BY <1>1, <1>7, ChainsBlocked
<1> QED
  BY <1>2, <1>4, <1>5, <1>6, <1>7

LEMMA ChainsSetlock ==
  ASSUME IInv, ChainInv, Setting, system = "runs", NEW p \in Procs, NEW t \in Requested,
         NEW r \in Ranges(p), lf_setlock(p, t, r)
  PROVE  ChainInv'
<1>1. PICK n \in Locks \ InUse : Attempt(p, malloc(n, Lock(p, t, r)), n)
  BY DEF lf_setlock
<1>2. state[p] = "idle" /\ p \notin Waiters
  BY DEF lf_setlock, Waiters
<1>3. Wants(p, Lock(p, t, r)) /\ Lock(p, t, r).lf_type # "F_UNLCK"
  BY TypesAsked, LockIs DEF Types
<1>4. PICK k, F : k = Lock(p, t, r) /\ F = malloc(n, k)
  OBVIOUS
<1>5. Begins(p, F, n) /\ F.lf[n] = k
  BY <1>2, <1>3, <1>4, MallocBegins
<1>6. Tries(p, F, n)
  BY <1>3, <1>4, <1>5, NotALock DEF Tries, Begins
<1>7. Attempt(p, F, n)
  BY <1>1, <1>4
<1> QED
  BY <1>2, <1>5, <1>6, <1>7, ChainsAttempt DEF ChainInv

LEMMA ChainsRetry ==
  ASSUME IInv, ChainInv, Setting, system = "runs", NEW p \in Procs, retry(p)
  PROVE  ChainInv'
<1>1. state[p] = "awakened" /\ Attempt(p, File, req[p])
  BY DEF retry
<1>2. req[p] # NOLOCKF /\ lf[req[p]].lf_type # "F_UNLCK"
  BY <1>1, InvIs DEF Asks
<1>3. Tries(p, File, req[p])
  BY <1>2, FileIs DEF Tries
<1>4. p \notin Waiters
  BY <1>1 DEF Waiters
<1>5. Begins(p, File, req[p])
  BY <1>4, FileBegins
<1> QED
  BY <1>1, <1>3, <1>4, <1>5, ChainsAttempt DEF ChainInv

LEMMA ChainsClearlock ==
  ASSUME IInv, ChainInv, Setting, system = "runs", NEW p \in Procs, NEW r \in Ranges(p),
         lf_clearlock(p, r)
  PROVE  ChainInv'
<1>1. PICK k, F : k = Lock(p, "F_UNLCK", r) /\ F = File
  OBVIOUS
<1>2. Wants(p, k) /\ k.lf_type = "F_UNLCK" /\ k \in Structs /\ Proper(k) /\ k.lf_id = p
  BY <1>1, LockIs DEF Wants
<1>3. state[p] = "idle" /\ p \notin Waiters /\ req[p] = NOLOCKF
  <2>1. state[p] = "idle"
    BY DEF lf_clearlock
  <2> QED
    BY <2>1, InvIs DEF Waiters
<1>4. Begins(p, F, NOLOCKF) /\ F.lf = lf
  BY <1>1, <1>3, FileBegins
<1>5. /\ IsFile(F) /\ F.list = i_lockf /\ LockList(F.list, F.lf) /\ Ord(F.list, F.lf, NOLOCKF)
      /\ Others(p, F.list, F.lf) /\ Queued(F, NOLOCKF, ToSet(F.list), F.lf) /\ NoOthers(p, NOLOCKF)
  BY <1>4 DEF Begins, Starts
<1>6. ~ (MallocSleeps /\ Splits(F, k))
  BY <1>2, <1>5, NoSplits
<1>7. PICK spare \in Spares(F, k, InUse) : Becomes(p, unlink_range(F, k, spare), "idle", NOLOCKF)
  BY <1>1, <1>6 DEF lf_clearlock
<1>8. PICK G : G = unlink_range(F, k, spare)
  OBVIOUS
<1>9. /\ IF Splits(F, k) THEN spare \in Locks ELSE spare = NOLOCKF
      /\ spare \notin ToSet(F.list) /\ spare \notin Requests
  <2>1. CASE Splits(F, k)
    <3>1. spare \in Locks \ InUse
      BY <1>7, <2>1 DEF Spares
    <3> QED
      BY <1>5, <2>1, <3>1 DEF InUse
  <2>2. CASE ~ Splits(F, k)
    <3>1. spare = NOLOCKF
      BY <1>7, <2>2 DEF Spares
    <3> QED
      BY <1>5, <2>2, <3>1, NotALock, ListIs DEF Requests
  <2> QED
    BY <2>1, <2>2
<1>10. Clearable(F, k, spare)
  BY <1>2, <1>5, <1>9 DEF Clearable, Types
<1>11. Unlinkable(F, NOLOCKF, k, spare)
  BY <1>5, <1>9, <1>10, NotALock, ListIs DEF Unlinkable
<1>12. Queued(G, NOLOCKF, ToSet(G.list), G.lf)
  BY <1>8, <1>11, UnlinkChains
<1>13. IsFile(G) /\ Unlinked(F.list, F.lf, G.list, G.lf, k, spare)
  BY <1>8, <1>10, UnlinkRange
<1>14. Others(p, G.list, G.lf)
  <2>1. Rel(ToSet(F.list), F.lf, ToSet(G.list), G.lf, k, NOLOCKF, spare)
    BY <1>13 DEF Unlinked
  <2>2. \A q \in Procs \ {p} : req[q] # NOLOCKF => req[q] # NOLOCKF /\ req[q] # spare
    BY <1>9 DEF Requests
  <2> QED
    BY <1>2, <1>5, <2>1, <2>2, OthersStep
<1>15. Fits(p, G, "idle", NOLOCKF)
  BY <1>13, <1>14 DEF Fits, Unlinked, States
<1>16. Becomes(p, G, "idle", NOLOCKF)
  BY <1>7, <1>8
<1> QED
  BY <1>3, <1>5, <1>12, <1>15, <1>16, QueuedIdle DEF ChainInv

\* A request that was interrupted takes itself off its chain; or it was
\* awakened before, and the search for it panics.
LEMMA ChainsInterrupted ==
  ASSUME IInv, ChainInv, Uninterrupted, system = "runs", NEW p \in Procs, lf_interrupted(p)
  PROVE  ChainInv'
<1>1. PICK n, start, H : n = req[p] /\ start = lf_next[n] /\ H = ToSet(i_lockf)
  OBVIOUS
<1>2. state[p] = "interrupted" /\ Interruptible
  BY DEF lf_interrupted, Uninterrupted
<1>3. /\ n # NOLOCKF /\ n \in Locks \ H /\ Requests \subseteq Locks /\ Requests \cap H = {}
      /\ Waiting \subseteq Requests /\ \A q \in Procs : q \notin Waiters => req[q] \notin Waiting
      /\ \A q \in Procs \ {p} : req[q] # NOLOCKF => req[q] # n
      /\ \A q \in Procs : req[q] # NOLOCKF => req[q] \in Requests
  <2>1. n # NOLOCKF
    BY <1>1, <1>2, InvIs
  <2> QED
    BY <1>1, <2>1, RequestsDiffer DEF Requests
<1>4. /\ IsFile(File) /\ File.list = i_lockf /\ File.lf = lf /\ LockList(i_lockf, lf)
      /\ Ord(i_lockf, lf, NOLOCKF) /\ Others(p, i_lockf, lf) /\ H \subseteq Locks
      /\ lf_block \in Pointers /\ lf_next \in Pointers
  <2>1. lf_block \in Pointers /\ lf_next \in Pointers
    BY InvIs DEF TypeOK, Pointers
  <2> QED
    BY <1>1, <2>1, FileIs, ListIs DEF Starts
<1>5. PICK R : R = File
  OBVIOUS
<1>6. /\ R.block = lf_block /\ R.next = lf_next /\ R.woken = {} /\ R.system = "runs"
      /\ R.list = i_lockf /\ R.lf = lf /\ IsFile(R)
  BY <1>4, <1>5 DEF File
<1>7. PICK root, rank, top : Chained(lf_block, lf_next, H, Waiting, lf, root, rank, top)
  BY <1>1 DEF ChainInv, Chains
<1> DEFINE walk == IF start = NOLOCKF THEN {} ELSE {start} \cup Blocked(lf_block, start)
           before == {k \in walk : lf_block[k] = n}
<1>8. \/ \E k \in before : Becomes(p, unblock(k, n), "idle", NOLOCKF)
      \/ Becomes(p, [File EXCEPT !.system = "panic: lost lock"], "interrupted", n)
  BY <1>1 DEF lf_interrupted
<1>9. {req[q] : q \in Waiters \ {p}} = Waiting \ {n}
  <2>1. \A q \in Waiters : q \in Procs /\ req[q] # NOLOCKF
    BY RequestsDiffer DEF Waiters
  <2> QED
    BY <1>1, <1>3, <2>1 DEF Waiting
<1>10. CASE \E k \in before : Becomes(p, unblock(k, n), "idle", NOLOCKF)
  <2>1. PICK k \in before : Becomes(p, unblock(k, n), "idle", NOLOCKF)
    BY <1>10
  <2>2. start # NOLOCKF /\ k \in {start} \cup Blocked(lf_block, start) /\ lf_block[k] = n
    BY <2>1
  <2>3. p \in Waiters /\ n \in Waiting
    BY <1>1, <1>2, <2>2 DEF Waiters, Waiting
  <2>4. start = root[n] /\ start \in H
    BY <1>1, <1>2, <1>7, <2>3 DEF Chained
  <2>5. k \in H \cup Waiting
    <3>1. Blocked(lf_block, start) = {w \in Waiting : root[w] = start}
      BY <1>3, <1>4, <1>7, <2>4, ChainIs
    <3> QED
      BY <2>2, <2>4, <3>1
  <2>6. PICK G, V : G = unblock(k, n) /\ V = Waiting \ {n}
    OBVIOUS
  <2>7. k \in Locks /\ lf_block[n] \in Locks \cup {NOLOCKF}
    BY <1>3, <1>4, <2>5 DEF Pointers
  <2>8. /\ IsFile(G) /\ G.list = i_lockf /\ G.lf = lf /\ G.next = lf_next /\ G.woken = {}
        /\ G.system = "runs" /\ G.block = [lf_block EXCEPT ![k] = lf_block[n]]
    <3>1. G = [R EXCEPT !.block[k] = lf_block[n]]
      BY <1>5, <2>6 DEF unblock
    <3> QED
      BY <1>6, <2>7, <3>1 DEF IsFile, Pointers
  <2>9. \A j \in Locks : G.block[j] = IF j = k THEN lf_block[n] ELSE lf_block[j]
    BY <1>4, <2>8 DEF Pointers
  <2>10. Chains(G.block, G.next, H, V, G.lf)
    <3>1. Waiting \subseteq Locks /\ Chains(lf_block, lf_next, H, Waiting, lf)
      BY <1>1, <1>3 DEF ChainInv
    <3>2. PICK block2 : block2 = G.block
      OBVIOUS
    <3>3. \A j \in Locks : block2[j] = IF j = k THEN lf_block[n] ELSE lf_block[j]
      BY <2>9, <3>2
    <3>4. n \in Waiting /\ lf_block[k] = n /\ H \subseteq Locks /\ lf_block \in Pointers
      BY <1>4, <2>2, <2>3
    <3>5. Chains(block2, lf_next, H, Waiting \ {n}, lf)
      <4> HIDE DEF walk, before
      <4>1. PICK W, b : W = Waiting /\ b = lf_block
        OBVIOUS
      <4>2. /\ b \in Pointers /\ H \subseteq Locks /\ W \subseteq Locks
            /\ Chains(b, lf_next, H, W, lf) /\ n \in W /\ k \in H \cup W /\ b[k] = n
            /\ \A j \in Locks : block2[j] = IF j = k THEN b[n] ELSE b[j]
        BY <2>5, <3>1, <3>3, <3>4, <4>1
      <4>3. Chains(block2, lf_next, H, W \ {n}, lf)
        BY <4>2, ChainsLeft
      <4> QED
        BY <4>1, <4>3
    <3> QED
      BY <2>6, <2>8, <3>2, <3>5
  <2>11. Fits(p, G, "idle", NOLOCKF) /\ Becomes(p, G, "idle", NOLOCKF)
    BY <1>4, <2>1, <2>6, <2>8 DEF Fits, States
  <2>12. ASSUME NEW q \in Procs \ {p}, req[q] # NOLOCKF
         PROVE  G.next[req[q]] = lf_next[req[q]] /\ (q \notin Waiters => G.block[req[q]] = NOLOCKF)
    <3>1. req[q] \in Locks /\ req[q] \notin H
      BY <1>3, <2>12
    <3>2. q \notin Waiters => req[q] # k /\ lf_block[req[q]] = NOLOCKF
      BY <1>3, <2>5, <2>12, <3>1 DEF ChainInv, Awake
    <3> QED
      BY <2>8, <2>9, <3>1, <3>2
  <2>13. V = ({req[q] : q \in Waiters \ {p}} \ G.woken)
           \cup (IF "idle" = "sleeping" \/ ("idle" = "interrupted" /\ G.next[NOLOCKF] # NOLOCKF)
                 THEN {NOLOCKF} ELSE {})
    BY <1>9, <2>6, <2>8
  <2>14. Rests(p, G, "idle", NOLOCKF, V)
    BY <1>1, <2>8, <2>10, <2>11, <2>12, <2>13 DEF Rests
  <2> QED
    BY <2>14, RestsChains DEF ChainInv
<1>11. CASE Becomes(p, [File EXCEPT !.system = "panic: lost lock"], "interrupted", n)
  <2>1. PICK G : G = [R EXCEPT !.system = "panic: lost lock"]
    OBVIOUS
  <2>2. /\ IsFile(G) /\ G.list = i_lockf /\ G.lf = lf /\ G.next = lf_next /\ G.woken = {}
        /\ G.system = "panic: lost lock" /\ G.block = lf_block
    BY <1>6, <2>1 DEF IsFile, Outcomes
  <2>3. Becomes(p, G, "interrupted", n)
    BY <1>5, <1>11, <2>1
  <2>4. Fits(p, G, "interrupted", n)
    <3>1. Asks(p, i_lockf, lf, "interrupted", n)
      BY <1>1, <1>2, <1>3, InvIs
    <3> QED
      BY <1>3, <1>4, <2>2, <3>1 DEF Fits, States
  <2>5. p \in Waiters <=> G.next[n] # NOLOCKF
    BY <1>1, <1>2, <2>2 DEF Waiters
  <2>6. ASSUME NEW q \in Procs, req[q] # NOLOCKF, q \notin Waiters
        PROVE  G.block[req[q]] = NOLOCKF
    BY <2>2, <2>6 DEF ChainInv, Awake
  <2>7. Waiting = ({req[q] : q \in Waiters \ {p}} \ G.woken)
           \cup (IF "interrupted" = "sleeping" \/ ("interrupted" = "interrupted" /\ G.next[n] # NOLOCKF)
                 THEN {n} ELSE {})
    <3>1. n \in Waiting <=> G.next[n] # NOLOCKF
      BY <1>1, <1>3, <2>5 DEF Waiting
    <3> QED
      BY <1>9, <2>2, <3>1
  <2>8. Chains(G.block, G.next, ToSet(G.list), Waiting, G.lf)
    BY <1>1, <2>2 DEF ChainInv
  <2>9. Rests(p, G, "interrupted", n, Waiting)
    BY <1>1, <2>2, <2>3, <2>4, <2>5, <2>6, <2>7, <2>8 DEF Rests
  <2> QED
    BY <2>9, RestsChains DEF ChainInv
<1> QED
  BY <1>8, <1>10, <1>11

\* A signal leaves who waits on the chain.
LEMMA ChainsSignalled ==
  ASSUME IInv, ChainInv, ~ Continuable, NEW p \in Procs, psignal(p)
  PROVE  ChainInv' /\ Interruptible /\ UNCHANGED <<i_lockf, lf>>
<1>1. /\ UNCHANGED <<i_lockf, lf, lf_block, lf_next, req, system>> /\ Interruptible
      /\ state[p] \in {"sleeping", "awakened"} /\ state' = [state EXCEPT ![p] = "interrupted"]
  BY DEF psignal
<1>2. state'[p] = "interrupted" /\ \A q \in Procs \ {p} : state'[q] = state[q]
  BY <1>1, InvIs DEF TypeOK
<1>3. state[p] = "sleeping" => lf_next[req[p]] # NOLOCKF
  <2> SUFFICES ASSUME state[p] = "sleeping" PROVE lf_next[req[p]] # NOLOCKF
    OBVIOUS
  <2>1. req[p] \in Waiting
    BY DEF Waiters, Waiting
  <2>2. lf_next[req[p]] \in ToSet(i_lockf)
    BY <1>1, <2>1 DEF ChainInv, Chains, Chained
  <2>3. ToSet(i_lockf) \subseteq Locks
    BY InvIs, ListIs
  <2> QED
    BY <2>2, <2>3, NotALock
<1>4. state[p] = "awakened" => lf_next[req[p]] = NOLOCKF
  <2>1. state[p] = "awakened" => req[p] # NOLOCKF /\ p \notin Waiters
    BY InvIs DEF Waiters
  <2> QED
    BY <2>1 DEF ChainInv, Awake
<1>5. Waiters' = Waiters
  BY <1>1, <1>2, <1>3, <1>4 DEF Waiters
<1>6. Waiting' = Waiting
  BY <1>1, <1>5 DEF Waiting
<1>7. Awake'
  BY <1>1, <1>5 DEF ChainInv, Awake
<1> QED
  BY <1>1, <1>6, <1>7 DEF ChainInv

LEMMA UninterruptedStep ==
  ASSUME Uninterrupted, NEW p \in Procs, NEW F, NEW s, NEW n, Becomes(p, F, s, n),
         s = "interrupted" => state[p] = "interrupted"
  PROVE  Uninterrupted'
<1>1. \A q \in Procs : \/ (q = p /\ state'[q] = s)
                        \/ state'[q] = state[q]
                        \/ state'[q] = "awakened"
  BY DEF Becomes
<1> QED
  BY <1>1 DEF Uninterrupted

LEMMA UninterruptedAttempt ==
  ASSUME Uninterrupted, NEW p \in Procs, NEW F, NEW n, Attempt(p, F, n)
  PROVE  Uninterrupted'
<1>1. \E G, m : \E s \in {"idle", "splitting_lock", "sleeping"} : Becomes(p, G, s, m)
  BY DEF Attempt, Block
<1> QED
  BY <1>1, UninterruptedStep

LEMMA UninterruptedNext ==
  ASSUME IInv, Uninterrupted, [Next]_vars
  PROVE  Uninterrupted'
<1>1. CASE Next
  <2>1. PICK p \in Procs :
       \/ \E t \in Requested, r \in Ranges(p) : lf_setlock(p, t, r)
       \/ \E r \in Ranges(p) : lf_clearlock(p, r)
       \/ retry(p)
       \/ malloc_wakes(p)
       \/ psignal(p)
       \/ lf_interrupted(p)
    BY <1>1 DEF Next
  <2>2. CASE \E t \in Requested, r \in Ranges(p) : lf_setlock(p, t, r)
    <3>1. PICK F, n : Attempt(p, F, n)
      BY <2>2 DEF lf_setlock
    <3> QED
      BY <3>1, UninterruptedAttempt
  <2>3. CASE retry(p)
    BY <2>3, UninterruptedAttempt DEF retry
  <2>4. CASE \E r \in Ranges(p) : lf_clearlock(p, r)
    <3>1. \E G, m : \E s \in {"idle", "splitting_unlock"} : Becomes(p, G, s, m)
      BY <2>4 DEF lf_clearlock
    <3> QED
      BY <3>1, UninterruptedStep
  <2>5. CASE malloc_wakes(p)
    <3>1. \E G, m : Becomes(p, G, "idle", m)
      BY <2>5 DEF malloc_wakes
    <3> QED
      BY <3>1, UninterruptedStep
  <2>6. CASE lf_interrupted(p)
    <3>1. state[p] = "interrupted" /\ \E G, s, m : Becomes(p, G, s, m)
      BY <2>6 DEF lf_interrupted
    <3> QED
      BY <3>1, UninterruptedStep
  <2>7. CASE psignal(p)
    BY <2>7, InvIs DEF psignal, Uninterrupted, TypeOK
  <2> QED
    BY <2>1, <2>2, <2>3, <2>4, <2>5, <2>6, <2>7
<1>2. CASE UNCHANGED vars
  BY <1>2 DEF vars, Uninterrupted
<1> QED
  BY <1>1, <1>2

LEMMA ChainsNext ==
  ASSUME IInv, NoSplitting, Setting, Uninterrupted, ChainInv, ~ Continuable, [Next]_vars
  PROVE  ChainInv'
<1>1. CASE Next
  <2>1. system = "runs"
    BY <1>1 DEF Next
  <2>2. PICK p \in Procs :
       \/ \E t \in Requested, r \in Ranges(p) : lf_setlock(p, t, r)
       \/ \E r \in Ranges(p) : lf_clearlock(p, r)
       \/ retry(p)
       \/ malloc_wakes(p)
       \/ psignal(p)
       \/ lf_interrupted(p)
    BY <1>1 DEF Next
  <2>3. ~ malloc_wakes(p)
    BY DEF NoSplitting, malloc_wakes
  <2> QED
    BY <2>1, <2>2, <2>3, ChainsSetlock, ChainsClearlock, ChainsRetry, ChainsSignalled, ChainsInterrupted
<1>2. CASE UNCHANGED vars
  <2>1. Waiters' = Waiters
    BY <1>2 DEF vars, Waiters
  <2>2. Waiting' = Waiting
    BY <1>2, <2>1 DEF vars, Waiting
  <2>3. Awake'
    BY <1>2, <2>1 DEF vars, ChainInv, Awake
  <2> QED
    BY <1>2, <2>2, <2>3 DEF vars, ChainInv
<1> QED
  BY <1>1, <1>2

LEMMA ChainsInit == Init => ChainInv
<1> SUFFICES ASSUME Init PROVE ChainInv
  OBVIOUS
<1>1. Waiters = {} /\ Waiting = {}
  BY DEF Init, Waiters, Waiting
<1>2. ToSet(i_lockf) = {}
  BY DEF Init, ToSet
<1>3. Chains(lf_block, lf_next, {}, {}, lf)
  <2> DEFINE none == [w \in {} |-> 0]
  <2>1. none \in [{} -> {}] /\ none \in [{} -> 0..0]
    OBVIOUS
  <2> HIDE DEF none
  <2>2. Chained(lf_block, lf_next, {}, {}, lf, none, none, 0)
    BY <2>1 DEF Chained
  <2> QED
    BY <2>2 DEF Chains
<1> QED
  BY <1>1, <1>2, <1>3 DEF Init, ChainInv, Awake

\* What the environment is like, of every state.
LEMMA SettingAlways ==
  ASSUME Flocks = Procs \/ ~ (Interruptible \/ MallocSleeps)
  PROVE  Spec => [](IInv /\ NoSplitting /\ Setting)
<1>1. CASE Flocks = Procs
  <2>1. Init => FlockInv
    BY FlockInit
  <2>2. FlockInv /\ [Next]_vars => FlockInv'
    BY <1>1, FlockNext
  <2>3. FlockInv => IInv /\ NoSplitting /\ Setting
    BY <1>1, FlockSplits DEF FlockInv, Setting
  <2> QED
    BY <2>1, <2>2, <2>3, PTL DEF Spec
<1>2. CASE ~ (Interruptible \/ MallocSleeps)
  <2>1. Init => IInv /\ NoSplitting
    BY InvInit DEF Init, NoSplitting
  <2>2. IInv /\ NoSplitting /\ [Next]_vars => IInv' /\ NoSplitting'
    BY <1>2, InvNext, SplittingNext
  <2>3. Setting
    BY <1>2 DEF Setting
  <2>4. IInv /\ NoSplitting => IInv /\ NoSplitting /\ Setting
    BY <2>3
  <2> QED
    BY <2>1, <2>2, <2>4, PTL DEF Spec
<1> QED
  BY <1>1, <1>2

LEMMA ChainsAlways ==
  ASSUME ~ Continuable, Flocks = Procs \/ ~ (Interruptible \/ MallocSleeps)
  PROVE  Spec => [](IInv /\ ChainInv)
<1>1. Spec => [](IInv /\ NoSplitting /\ Setting)
  BY SettingAlways
<1>2. Init => Uninterrupted /\ ChainInv
  BY ChainsInit DEF Init, Uninterrupted
<1>3. IInv /\ NoSplitting /\ Setting /\ Uninterrupted /\ ChainInv /\ [Next]_vars
        => Uninterrupted' /\ ChainInv'
  BY UninterruptedNext, ChainsNext
<1> QED
  BY <1>1, <1>2, <1>3, PTL DEF Spec

\* What the chains say of the locks on the list.
LEMMA ChainsShow ==
  ASSUME IInv, ChainInv
  PROVE  /\ \A k \in ToSet(i_lockf) : Holds(k) \subseteq Waiting /\ Ends(lf_block, k) # {}
         /\ \A w \in Waiting : \E k \in ToSet(i_lockf) :
              /\ w \in Holds(k) /\ Opposed(lf[w], lf[k])
              /\ \A j \in ToSet(i_lockf) \ {k} : w \notin Holds(j)
<1>1. PICK H : H = ToSet(i_lockf)
  OBVIOUS
<1>2. PICK root, rank, top : Chained(lf_block, lf_next, H, Waiting, lf, root, rank, top)
  BY <1>1 DEF ChainInv, Chains
<1>3. H \subseteq Locks /\ Waiting \subseteq Locks /\ lf_block \in Pointers
  <2>1. LockList(i_lockf, lf) /\ lf_block \in Pointers
    BY InvIs DEF TypeOK, Pointers
  <2>2. Waiting \subseteq Locks
    BY RequestsDiffer
  <2> QED
    BY <1>1, <2>1, <2>2, ListIs
<1>4. \A h \in H : Holds(h) = {w \in Waiting : root[w] = h} /\ Ends(lf_block, h) # {}
  BY <1>2, <1>3, ChainIs DEF Holds
<1>5. \A w \in Waiting : root[w] \in H /\ Opposed(lf[w], lf[root[w]])
  BY <1>2 DEF Chained
<1>6. ASSUME NEW w \in Waiting
      PROVE  \E k \in H : /\ w \in Holds(k) /\ Opposed(lf[w], lf[k])
                          /\ \A j \in H \ {k} : w \notin Holds(j)
  <2>1. root[w] \in H /\ w \in Holds(root[w]) /\ Opposed(lf[w], lf[root[w]])
    BY <1>4, <1>5
  <2>2. \A j \in H \ {root[w]} : w \notin Holds(j)
    BY <1>4
  <2> QED
    BY <2>1, <2>2
<1> QED
  BY <1>1, <1>4, <1>6

\* Every chain ends and holds only requests of processes that wait, and no
\* step spins in a loop of the list or writes to a structure that was freed:
\* whatever the owner of a lock merges, splits, shortens, downgrades or
\* clears, lf_setlock (ufs_lockf.c:199), lf_clearlock (:310) and lf_wakelock
\* (:640) leave no request behind on a chain.  The waits are not continued by
\* a signal, and either all owners use flock or waits are not interrupted and
\* malloc does not sleep: a continued wait is queued twice, and an interrupted
\* wait for a record lock may be left on a chain.
THEOREM ChainsAreSound ==
  ASSUME ~ Continuable, Flocks = Procs \/ ~ (Interruptible \/ MallocSleeps)
  PROVE  Spec => []ChainsSound
<1>1. Spec => [](IInv /\ ChainInv)
  BY ChainsAlways
<1>2. IInv /\ ChainInv => ChainsSound
  <2> SUFFICES ASSUME IInv, ChainInv PROVE ChainsSound
    OBVIOUS
  <2>1. system # "memory corrupted" /\ system # "spins"
    BY DEF ChainInv
  <2>2. Waiting \subseteq Requests
    BY RequestsDiffer
  <2>3. \A k \in ToSet(i_lockf) : Holds(k) \subseteq Waiting /\ Ends(lf_block, k) # {}
    BY ChainsShow
  <2> QED
    BY <2>1, <2>2, <2>3 DEF ChainsSound
<1> QED
  BY <1>1, <1>2, PTL

\* Who sleeps in lf_setlock is on the chain of exactly one lock of the list,
\* and that lock stands in its way: nobody waits for what has been released
\* (ufs_lockf.c:167, lf_wakelock :640, and the lf_next and lf_block that
\* lf_setlock, lf_split and lf_clearlock hand over).  In the environments of
\* ChainsAreSound.
THEOREM SleepersKept ==
  ASSUME ~ Continuable, Flocks = Procs \/ ~ (Interruptible \/ MallocSleeps)
  PROVE  Spec => []NoLostSleeper
<1>1. Spec => [](IInv /\ ChainInv)
  BY ChainsAlways
<1>2. IInv /\ ChainInv => NoLostSleeper
  <2> SUFFICES ASSUME IInv, ChainInv, NEW p \in Sleepers
               PROVE  \E k \in ToSet(i_lockf) :
                        /\ req[p] \in Holds(k) /\ Conflict(req[p], k)
                        /\ \A j \in ToSet(i_lockf) \ {k} : req[p] \notin Holds(j)
    BY DEF NoLostSleeper
  <2>1. req[p] \in Waiting
    BY DEF Sleepers, Waiters, Waiting
  <2>2. PICK k \in ToSet(i_lockf) :
          /\ req[p] \in Holds(k) /\ Opposed(lf[req[p]], lf[k])
          /\ \A j \in ToSet(i_lockf) \ {k} : req[p] \notin Holds(j)
    BY <2>1, ChainsShow
  <2>3. Conflict(req[p], k)
    BY <2>2 DEF Opposed, Conflict, Overlap
  <2> QED
    BY <2>2, <2>3
<1> QED
  BY <1>1, <1>2, PTL

=============================================================================
