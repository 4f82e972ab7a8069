---------------------------- MODULE CalloutProofs ----------------------------
(* Proofs about the callout queue, for any functions, delays and sizes of   *)
(* the table: its deltas implement a queue of times left.                   *)
EXTENDS Callout, SequenceTheorems, WellFoundedInduction, TLAPS

-----------------------------------------------------------------------------
(* Numbers.                                                                *)

\* A set of natural numbers has a least element.
LEMMA LeastNat ==
  ASSUME NEW S, S \subseteq Nat, S # {}
  PROVE  \E n \in S : \A m \in S : n <= m
<1> DEFINE R == OpToRel(<, Nat)
<1>1. IsWellFoundedOn(R, Nat)
  BY NatLessThanWellFounded
<1>2. \A x, y \in Nat : <<x, y>> \in R <=> x < y
  BY DEF OpToRel
<1> HIDE DEF R
<1>3. PICK n \in S : \A m \in S : ~ (<<m, n>> \in R)
  BY <1>1, WFMin
<1>4. \A m \in S : n \in Nat /\ m \in Nat /\ ~ (m < n)
  BY <1>2, <1>3
<1> QED
  BY <1>4

\* Induction, with a set for the statement.
LEMMA SetInduction ==
  ASSUME NEW S, 0 \in S, \A n \in Nat : n \in S => n + 1 \in S
  PROVE  Nat \subseteq S
<1> SUFFICES ASSUME Nat \ S # {} PROVE FALSE
  OBVIOUS
<1>1. PICK n \in Nat \ S : \A m \in Nat \ S : n <= m
  BY LeastNat
<1>2. n # 0 /\ n - 1 \in Nat /\ n - 1 \in S
  BY <1>1
<1> QED
  BY <1>1, <1>2

\* The larger of two numbers, as Max of a set.
LEMMA MaxOf ==
  ASSUME NEW a \in Int, NEW b \in Int
  PROVE  Max({a, b}) = IF a >= b THEN a ELSE b
<1> DEFINE larger == IF a >= b THEN a ELSE b
<1>1. \A y \in {a, b} : larger >= y
  OBVIOUS
<1>2. \A x \in {a, b} : (\A y \in {a, b} : x >= y) => x = larger
  OBVIOUS
<1> QED
  BY <1>1, <1>2 DEF Max

-----------------------------------------------------------------------------
(* The sums of the deltas.                                                 *)

\* entries of the queue, with any delta
Entries == [c_func : Funcs, c_time : Int]

\* what an entry adds to the time left to itself and to those behind it
Ticks(c) == IF c.c_time >= 0 THEN c.c_time ELSE 0

\* What Left adds for an entry is a natural number.
LEMMA TicksNat ==
  ASSUME NEW q \in Seq(Entries), NEW i \in 1..Len(q)
  PROVE  Ticks(q[i]) \in Nat /\ Ticks(q[i]) = Max({q[i].c_time, 0})
<1>1. q[i] \in Entries
  OBVIOUS
<1>2. q[i].c_time \in Int
  BY <1>1 DEF Entries
<1> QED
  BY <1>2, MaxOf DEF Ticks

\* s has the sums of the deltas of q, as far as n
IsSumTo(q, n, s) ==
  s = [i \in 0..n |-> IF i = 0 THEN 0 ELSE s[i - 1] + Max({q[i].c_time, 0})]

IsSum(q, s) == IsSumTo(q, Len(q), s)

\* Sums start at 0, and each is the one before and the delta of its entry.
LEMMA SumSteps ==
  ASSUME NEW q \in Seq(Entries), NEW s, IsSum(q, s)
  PROVE  /\ s[0] = 0
         /\ \A i \in 1..Len(q) : s[i] = s[i - 1] + Ticks(q[i])
<1> DEFINE step(i) == IF i = 0 THEN 0 ELSE s[i - 1] + Max({q[i].c_time, 0})
<1>1. \A i \in 0..Len(q) : s[i] = step(i)
  <2>1. s = [i \in 0..Len(q) |-> step(i)]
    BY DEF IsSum, IsSumTo
  <2> HIDE DEF step
  <2> QED
    BY <2>1
<1>2. s[0] = 0
  <2>1. 0 \in 0..Len(q)
    OBVIOUS
  <2> QED
    BY <1>1, <2>1
<1>3. ASSUME NEW i \in 1..Len(q) PROVE s[i] = s[i - 1] + Ticks(q[i])
  <2>1. i \in 0..Len(q) /\ i # 0
    OBVIOUS
  <2>2. s[i] = s[i - 1] + Max({q[i].c_time, 0})
    BY <1>1, <2>1
  <2> QED
    BY <2>2, TicksNat
<1> QED
  BY <1>2, <1>3

\* The recursion of Left has a solution.
LEMMA SumExists == ASSUME NEW q \in Seq(Entries) PROVE \E s : IsSum(q, s)
<1> DEFINE S == {n \in Nat : n <= Len(q) => \E s : IsSumTo(q, n, s)}
<1>1. 0 \in S
  <2> DEFINE s == [i \in 0..0 |-> 0]
  <2>1. IsSumTo(q, 0, s)
    BY DEF IsSumTo
  <2> QED
    BY <2>1
<1>2. ASSUME NEW n \in Nat, n \in S, n + 1 <= Len(q) PROVE n + 1 \in S
  <2>1. PICK s : IsSumTo(q, n, s)
    BY <1>2
  <2> DEFINE step(f, i) == IF i = 0 THEN 0 ELSE f[i - 1] + Max({q[i].c_time, 0})
             t == [i \in 0..n + 1 |-> IF i = n + 1 THEN step(s, n + 1) ELSE s[i]]
  <2>2. \A i \in 0..n + 1 : t[i] = step(t, i)
    <3> TAKE i \in 0..n + 1
    <3>1. CASE i = n + 1
      BY <3>1
    <3>2. CASE i # n + 1
      <4>1. i \in 0..n /\ (i # 0 => i - 1 \in 0..n)
        BY <3>2
      <4>2. s[i] = step(s, i)
        BY <2>1, <4>1 DEF IsSumTo
      <4> QED
        BY <3>2, <4>1, <4>2
    <3> QED
      BY <3>1, <3>2
  <2>3. t = [i \in 0..n + 1 |-> step(t, i)]
    <3> HIDE DEF step
    <3> QED
      BY <2>2
  <2>4. IsSumTo(q, n + 1, t)
    BY <2>3 DEF IsSumTo
  <2> HIDE DEF t, step
  <2> QED
    BY <2>4
<1>3. \A n \in Nat : n \in S => n + 1 \in S
  <2> TAKE n \in Nat
  <2> HAVE n \in S
  <2>1. CASE n + 1 <= Len(q)
    BY <1>2, <2>1
  <2>2. CASE ~ (n + 1 <= Len(q))
    BY <2>2
  <2> QED
    BY <2>1, <2>2
<1>4. Len(q) \in S
  <2> HIDE DEF S
  <2> QED
    BY <1>1, <1>3, SetInduction
<1> QED
  BY <1>4 DEF IsSum

\* It has only one, so that a sequence with the right steps is Left.
LEMMA SumUnique ==
  ASSUME NEW q \in Seq(Entries), NEW s, IsSum(q, s), NEW t,
         t[0] = 0, \A i \in 1..Len(q) : t[i] = t[i - 1] + Ticks(q[i])
  PROVE  \A i \in 0..Len(q) : s[i] = t[i]
<1> DEFINE S == {n \in Nat : n <= Len(q) => s[n] = t[n]}
<1>1. 0 \in S
  BY SumSteps
<1>2. ASSUME NEW n \in Nat, n \in S, n + 1 <= Len(q) PROVE n + 1 \in S
  <2>1. n + 1 \in 1..Len(q) /\ (n + 1) - 1 = n
    BY <1>2
  <2>2. s[n + 1] = s[n] + Ticks(q[n + 1])
    BY <2>1, SumSteps
  <2>3. t[n + 1] = t[n] + Ticks(q[n + 1])
    BY <2>1
  <2> QED
    BY <1>2, <2>2, <2>3
<1>3. \A n \in Nat : n \in S => n + 1 \in S
  BY <1>2
<1>4. Nat \subseteq S
  <2> HIDE DEF S
  <2> QED
    BY <1>1, <1>3, SetInduction
<1> QED
  BY <1>4

\* What Left is: the sums of the deltas, which never decrease.
LEMMA LeftIs ==
  ASSUME NEW q \in Seq(Entries)
  PROVE  /\ Left(q)[0] = 0
         /\ \A i \in 1..Len(q) : Left(q)[i] = Left(q)[i - 1] + Ticks(q[i])
         /\ \A i \in 0..Len(q) : Left(q)[i] \in Nat
<1>1. IsSum(q, Left(q))
  BY SumExists DEF Left, IsSum, IsSumTo
<1>2. Left(q)[0] = 0
  BY <1>1, SumSteps
<1>3. \A i \in 1..Len(q) : Left(q)[i] = Left(q)[i - 1] + Ticks(q[i])
  BY <1>1, SumSteps
<1> DEFINE S == {n \in Nat : n <= Len(q) => Left(q)[n] \in Nat}
<1>4. 0 \in S
  BY <1>2
<1>5. ASSUME NEW n \in Nat, n \in S, n + 1 <= Len(q) PROVE n + 1 \in S
  <2>1. n + 1 \in 1..Len(q) /\ (n + 1) - 1 = n
    BY <1>5
  <2>2. Left(q)[n + 1] = Left(q)[n] + Ticks(q[n + 1])
    BY <1>3, <2>1
  <2>3. Ticks(q[n + 1]) \in Nat
    BY <2>1, TicksNat
  <2> QED
    BY <1>5, <2>1, <2>2, <2>3
<1>6. Nat \subseteq S
  <2>1. \A n \in Nat : n \in S => n + 1 \in S
    BY <1>5
  <2> HIDE DEF S
  <2> QED
    BY <1>4, <2>1, SetInduction
<1> QED
  BY <1>2, <1>3, <1>6

\* A sequence of sums that starts at 0 and steps by the deltas is Left.
LEMMA LeftUnique ==
  ASSUME NEW q \in Seq(Entries), NEW t, t[0] = 0,
         \A i \in 1..Len(q) : t[i] = t[i - 1] + Ticks(q[i])
  PROVE  \A i \in 0..Len(q) : Left(q)[i] = t[i]
<1>1. IsSum(q, Left(q))
  BY SumExists DEF Left, IsSum, IsSumTo
<1> QED
  BY <1>1, SumUnique

\* Whoever is further back has no less time left.
LEMMA LeftMonotone ==
  ASSUME NEW q \in Seq(Entries), NEW i \in 0..Len(q)
  PROVE  \A j \in i..Len(q) : Left(q)[i] <= Left(q)[j]
<1> DEFINE S == {n \in Nat : i + n <= Len(q) => Left(q)[i] <= Left(q)[i + n]}
<1>1. 0 \in S
  BY LeftIs
<1>2. ASSUME NEW n \in Nat, n \in S, i + n + 1 <= Len(q) PROVE n + 1 \in S
  <2>1. i + n + 1 \in 1..Len(q) /\ (i + n + 1) - 1 = i + n
    BY <1>2
  <2>2. Left(q)[i + n + 1] = Left(q)[i + n] + Ticks(q[i + n + 1])
    BY <2>1, LeftIs
  <2>3. Ticks(q[i + n + 1]) \in Nat
    BY <2>1, TicksNat
  <2>4. Left(q)[i] \in Nat /\ Left(q)[i + n] \in Nat
    BY <2>1, LeftIs
  <2> QED
    BY <1>2, <2>1, <2>2, <2>3, <2>4
<1>3. Nat \subseteq S
  <2>1. \A n \in Nat : n \in S => n + 1 \in S
    BY <1>2
  <2> HIDE DEF S
  <2> QED
    BY <1>1, <2>1, SetInduction
<1>4. ASSUME NEW j \in i..Len(q) PROVE Left(q)[i] <= Left(q)[j]
  <2>1. j - i \in Nat /\ i + (j - i) = j
    BY <1>4
  <2>2. j - i \in S
    BY <1>3, <2>1
  <2> QED
    BY <2>1, <2>2
<1> QED
  BY <1>4

\* Where no entry has ticks, none are left.
LEMMA LeftZero ==
  ASSUME NEW q \in Seq(Entries), NEW n \in 0..Len(q),
         \A j \in 1..n : Ticks(q[j]) = 0
  PROVE  Left(q)[n] = 0
<1> DEFINE S == {m \in Nat : m <= n => Left(q)[m] = 0}
<1>1. 0 \in S
  BY LeftIs
<1>2. ASSUME NEW m \in Nat, m \in S, m + 1 <= n PROVE m + 1 \in S
  <2>1. m + 1 \in 1..Len(q) /\ (m + 1) - 1 = m /\ Ticks(q[m + 1]) = 0
    BY <1>2
  <2>2. Left(q)[m + 1] = Left(q)[m] + Ticks(q[m + 1])
    BY <2>1, LeftIs
  <2> QED
    BY <1>2, <2>1, <2>2
<1>3. \A m \in Nat : m \in S => m + 1 \in S
  <2> TAKE m \in Nat
  <2> HAVE m \in S
  <2>1. CASE m + 1 <= n
    BY <1>2, <2>1
  <2>2. CASE ~ (m + 1 <= n)
    BY <2>2
  <2> QED
    BY <2>1, <2>2
<1>4. Nat \subseteq S
  <2> HIDE DEF S
  <2> QED
    BY <1>1, <1>3, SetInduction
<1> QED
  BY <1>4

-----------------------------------------------------------------------------
(* Sequences.                                                              *)

\* Where the elements are after an insertion.
InsertedAt(q, k, e, r) ==
  /\ Len(r) = Len(q) + 1
  /\ \A i \in 1..Len(q) + 1 :
       r[i] = IF i < k THEN q[i] ELSE IF i = k THEN e ELSE q[i - 1]

LEMMA Inserted ==
  ASSUME NEW S, NEW q \in Seq(S), NEW k \in 1..Len(q) + 1, NEW e \in S
  PROVE  InsertAt(q, k, e) \in Seq(S) /\ InsertedAt(q, k, e, InsertAt(q, k, e))
<1> DEFINE front == SubSeq(q, 1, k - 1)
           back  == SubSeq(q, k, Len(q))
           most  == front \o <<e>>
           whole == most \o back
<1>1. front \in Seq(S) /\ Len(front) = k - 1 /\ \A i \in 1..k - 1 : front[i] = q[i]
  BY SubSeqProperties
<1>2. /\ back \in Seq(S) /\ Len(back) = Len(q) - k + 1
      /\ \A i \in 1..Len(q) - k + 1 : back[i] = q[k + i - 1]
  BY SubSeqProperties
<1>3. <<e>> \in Seq(S) /\ Len(<<e>>) = 1 /\ <<e>>[1] = e
  OBVIOUS
<1>4. InsertAt(q, k, e) = whole
  BY DEF InsertAt
<1> HIDE DEF front, back
<1>5. /\ most \in Seq(S) /\ Len(most) = k
      /\ \A i \in 1..k : most[i] = IF i < k THEN q[i] ELSE e
  BY <1>1, <1>3, ConcatProperties
<1> HIDE DEF most
<1>6. /\ whole \in Seq(S) /\ Len(whole) = Len(most) + Len(back)
      /\ \A i \in 1..Len(most) + Len(back) :
           whole[i] = IF i <= Len(most) THEN most[i] ELSE back[i - Len(most)]
  BY <1>2, <1>5, ConcatProperties
<1> HIDE DEF whole
<1>7. k \in Int /\ Len(q) \in Nat
  OBVIOUS
<1>8. ASSUME NEW i \in 1..Len(q) + 1, i > k PROVE whole[i] = q[i - 1]
  <2>1. i - k \in 1..Len(q) - k + 1 /\ k + (i - k) - 1 = i - 1
    BY <1>7, <1>8
  <2>2. whole[i] = back[i - k]
    BY <1>2, <1>5, <1>6, <1>7, <1>8
  <2> QED
    BY <1>2, <2>1, <2>2
<1>9. ASSUME NEW i \in 1..Len(q) + 1, i <= k PROVE whole[i] = IF i < k THEN q[i] ELSE e
  <2>1. i \in 1..Len(most) + Len(back) /\ i \in 1..k /\ i <= Len(most)
    BY <1>2, <1>5, <1>7, <1>9
  <2>2. whole[i] = most[i]
    BY <1>6, <2>1
  <2> QED
    BY <1>5, <2>1, <2>2
<1>10. ASSUME NEW i \in 1..Len(q) + 1
       PROVE  whole[i] = IF i < k THEN q[i] ELSE IF i = k THEN e ELSE q[i - 1]
  BY <1>7, <1>8, <1>9
<1>11. Len(whole) = Len(q) + 1
  BY <1>2, <1>5, <1>6, <1>7
<1> QED
  BY <1>4, <1>6, <1>10, <1>11 DEF InsertedAt

\* Where the elements are after a removal.
LEMMA Removed ==
  ASSUME NEW S, NEW q \in Seq(S), NEW k \in 1..Len(q)
  PROVE  /\ RemoveAt(q, k) \in Seq(S)
         /\ Len(RemoveAt(q, k)) = Len(q) - 1
         /\ \A i \in 1..Len(q) - 1 :
              RemoveAt(q, k)[i] = IF i < k THEN q[i] ELSE q[i + 1]
<1> DEFINE front == SubSeq(q, 1, k - 1)
           back  == SubSeq(q, k + 1, Len(q))
           whole == front \o back
<1>1. front \in Seq(S) /\ Len(front) = k - 1 /\ \A i \in 1..k - 1 : front[i] = q[i]
  BY SubSeqProperties
<1>2. /\ back \in Seq(S) /\ Len(back) = Len(q) - k
      /\ \A i \in 1..Len(q) - k : back[i] = q[k + i]
  <2>1. \A i \in k + 1..Len(q) : q[i] \in S
    OBVIOUS
  <2>2. \A i \in 1..Len(q) - (k + 1) + 1 : back[i] = q[k + 1 + i - 1]
    BY <2>1, SubSeqProperties
  <2>3. \A i \in 1..Len(q) - k : i \in 1..Len(q) - (k + 1) + 1 /\ k + 1 + i - 1 = k + i
    OBVIOUS
  <2>4. back \in Seq(S) /\ Len(back) = Len(q) - k
    BY <2>1, SubSeqProperties
  <2> QED
    BY <2>2, <2>3, <2>4
<1>3. RemoveAt(q, k) = whole
  BY DEF RemoveAt
<1> HIDE DEF front, back
<1>4. /\ whole \in Seq(S) /\ Len(whole) = Len(front) + Len(back)
      /\ \A i \in 1..Len(front) + Len(back) :
           whole[i] = IF i <= Len(front) THEN front[i] ELSE back[i - Len(front)]
  BY <1>1, <1>2, ConcatProperties
<1> HIDE DEF whole
<1>5. k \in Int /\ Len(q) \in Nat
  OBVIOUS
<1>6. ASSUME NEW i \in 1..Len(q) - 1, i >= k PROVE whole[i] = q[i + 1]
  <2>1. i - (k - 1) \in 1..Len(q) - k /\ k + (i - (k - 1)) = i + 1
    BY <1>5, <1>6
  <2>2. whole[i] = back[i - (k - 1)]
    BY <1>1, <1>2, <1>4, <1>5, <1>6
  <2> QED
    BY <1>2, <2>1, <2>2
<1>7. ASSUME NEW i \in 1..Len(q) - 1, i < k PROVE whole[i] = q[i]
  <2>1. i \in 1..Len(front) + Len(back) /\ i \in 1..k - 1 /\ i <= Len(front)
    BY <1>1, <1>2, <1>5, <1>7
  <2> QED
    BY <1>1, <1>4, <2>1
<1>8. Len(whole) = Len(q) - 1
  BY <1>1, <1>2, <1>4, <1>5
<1> QED
  BY <1>3, <1>4, <1>5, <1>6, <1>7, <1>8

\* What Shortened does to one entry, and leaves of the others.
LEMMA ShortenedIs ==
  ASSUME NEW q \in Seq(Entries), NEW k \in Nat \ {0}, NEW t \in Int
  PROVE  /\ Shortened(q, k, t) \in Seq(Entries)
         /\ Len(Shortened(q, k, t)) = Len(q)
         /\ \A i \in 1..Len(q) :
              Shortened(q, k, t)[i] = IF i = k
                                      THEN Entry(q[k].c_func, q[k].c_time - t)
                                      ELSE q[i]
<1>1. DOMAIN q = 1..Len(q)
  OBVIOUS
<1>2. CASE k \notin DOMAIN q
  BY <1>1, <1>2 DEF Shortened
<1>3. CASE k \in DOMAIN q
  <2> DEFINE e == [q[k] EXCEPT !.c_time = @ - t]
  <2>1. q[k] \in Entries
    BY <1>1, <1>3
  <2>2. e = Entry(q[k].c_func, q[k].c_time - t) /\ e \in Entries
    BY <2>1 DEF Entries, Entry
  <2>3. Shortened(q, k, t) = [q EXCEPT ![k] = e]
    BY <1>3 DEF Shortened
  <2> HIDE DEF e
  <2> QED
    BY <1>1, <1>3, <2>2, <2>3, ExceptSeq
<1> QED
  BY <1>2, <1>3

-----------------------------------------------------------------------------
(* The steps.                                                              *)

\* the entries that TypeOK lets on the queue
Cells == [c_func : Funcs, c_time : -1..MaxTicks]

\* The types of the queue, entry by entry.
LEMMA Queue ==
  ASSUME calltodo \in Seq(Cells)
  PROVE  /\ calltodo \in Seq(Entries) /\ Len(calltodo) \in Nat
         /\ DOMAIN calltodo = 1..Len(calltodo)
         /\ \A i \in 1..Len(calltodo) : /\ calltodo[i] \in Entries
                                        /\ calltodo[i].c_func \in Funcs
                                        /\ calltodo[i].c_time \in -1..MaxTicks
<1>1. Cells \subseteq Entries
  BY MaxTicksPos DEF Cells, Entries
<1>2. calltodo \in Seq(Entries)
  BY <1>1, SeqMonotonic
<1>3. \A i \in 1..Len(calltodo) : calltodo[i] \in Cells
  OBVIOUS
<1> QED
  BY <1>1, <1>2, <1>3 DEF Cells

\* Before the first entry nothing is left.
LEMMA LeftStart == ASSUME NEW r \in Seq(Cells) PROVE Left(r)[0] = 0
<1>1. Cells \subseteq Entries
  BY MaxTicksPos DEF Cells, Entries
<1> QED
  BY <1>1, SeqMonotonic, LeftIs

\* A queue of entries in range is a queue of entries.
LEMMA CellsQueue ==
  ASSUME NEW r \in Seq(Entries), \A i \in 1..Len(r) : r[i].c_time \in -1..MaxTicks
  PROVE  r \in Seq(Cells)
<1>1. \A i \in 1..Len(r) : r[i] \in Cells
  <2> TAKE i \in 1..Len(r)
  <2>1. r[i] \in Entries
    OBVIOUS
  <2> QED
    BY <2>1 DEF Entries, Cells
<1> QED
  BY <1>1

\* One tick less for every entry that hardclock reaches is one tick less for
\* all that have any left.
LEMMA HardclockLeft ==
  ASSUME calltodo \in Seq(Cells), OverdueFirst, hardclock
  PROVE  /\ calltodo' \in Seq(Cells) /\ Len(calltodo') = Len(calltodo)
         /\ \A i \in 1..Len(calltodo) : calltodo'[i].c_func = calltodo[i].c_func
         /\ \A i \in 0..Len(calltodo) :
              Left(calltodo')[i] = IF Left(calltodo)[i] = 0 THEN 0
                                   ELSE Left(calltodo)[i] - 1
         /\ OverdueFirst'
<1> DEFINE q == calltodo
           r == calltodo'
           n == Len(q)
           reached(i) == \A j \in 1..i - 1 : q[j].c_time <= 0
           less(i) == IF Left(q)[i] = 0 THEN 0 ELSE Left(q)[i] - 1
<1>1. /\ q \in Seq(Entries) /\ n \in Nat /\ DOMAIN q = 1..n
      /\ \A i \in 1..n : /\ q[i] \in Entries /\ q[i].c_func \in Funcs
                         /\ q[i].c_time \in -1..MaxTicks
  BY Queue
<1>2. r = [i \in 1..n |-> IF reached(i) THEN Decremented(q[i]) ELSE q[i]]
  BY <1>1 DEF hardclock
<1>3. ASSUME NEW i \in 1..n
      PROVE  /\ r[i] \in Entries /\ r[i].c_func = q[i].c_func
             /\ r[i].c_time \in -1..MaxTicks
             /\ r[i].c_time = IF ~ reached(i) THEN q[i].c_time
                              ELSE IF q[i].c_time > 0 THEN q[i].c_time - 1 ELSE -1
  <2> HIDE DEF reached
  <2>1. r[i] = IF reached(i) THEN Decremented(q[i]) ELSE q[i]
    BY <1>2
  <2> QED
    BY <1>1, <2>1, MaxTicksPos DEF Decremented, Entries
<1>4. r \in Seq(Entries) /\ Len(r) = n
  <2>1. DOMAIN r = 1..n /\ r = [i \in 1..n |-> r[i]]
    BY <1>2
  <2> QED
    BY <1>1, <1>3, <2>1
<1>5. \A i \in 1..n : reached(i) => Left(q)[i - 1] = 0
  <2> TAKE i \in 1..n
  <2> HAVE reached(i)
  <2>1. i - 1 \in 0..n /\ \A j \in 1..i - 1 : j \in 1..n /\ q[j].c_time <= 0
    BY <1>1
  <2>2. \A j \in 1..i - 1 : Ticks(q[j]) = 0
    BY <1>1, <2>1 DEF Ticks
  <2> QED
    BY <1>1, <2>1, <2>2, LeftZero
<1>6. \A i \in 1..n : ~ reached(i) => Left(q)[i - 1] > 0
  <2> SUFFICES ASSUME NEW i \in 1..n, NEW j \in 1..i - 1, q[j].c_time > 0
               PROVE  Left(q)[i - 1] > 0
    BY <1>1
  <2>1. j \in 1..n /\ i - 1 \in j..n /\ j - 1 \in 0..n
    BY <1>1
  <2>2. Left(q)[j] = Left(q)[j - 1] + Ticks(q[j]) /\ Left(q)[j - 1] \in Nat
    BY <1>1, <2>1, LeftIs
  <2>3. Left(q)[j] > 0
    BY <1>1, <2>1, <2>2 DEF Ticks
  <2>4. Left(q)[j] <= Left(q)[i - 1] /\ Left(q)[j] \in Nat /\ Left(q)[i - 1] \in Nat
    BY <1>1, <2>1, LeftMonotone, LeftIs
  <2> QED
    BY <2>3, <2>4
<1>7. \A i \in 0..n : Left(r)[i] = less(i)
  <2> DEFINE t == [i \in 0..n |-> less(i)]
  <2>1. t[0] = 0
    BY <1>1, LeftIs
  <2>2. ASSUME NEW i \in 1..n PROVE t[i] = t[i - 1] + Ticks(r[i])
    <3>1. /\ Left(q)[i] = Left(q)[i - 1] + Ticks(q[i])
          /\ Left(q)[i - 1] \in Nat /\ Left(q)[i] \in Nat
      BY <1>1, LeftIs
    <3>2. t[i] = less(i) /\ t[i - 1] = less(i - 1)
      BY <1>1
    <3>3. CASE reached(i)
      <4>1. Left(q)[i - 1] = 0
        BY <1>5, <3>3
      <4>2. r[i].c_time = IF q[i].c_time > 0 THEN q[i].c_time - 1 ELSE -1
        BY <1>3, <3>3
      <4>3. q[i].c_time \in Int
        BY <1>1
      <4>4. Ticks(r[i]) = IF Ticks(q[i]) = 0 THEN 0 ELSE Ticks(q[i]) - 1
        BY <4>2, <4>3 DEF Ticks
      <4> QED
        BY <3>1, <3>2, <4>1, <4>4
    <3>4. CASE ~ reached(i)
      <4>1. Ticks(r[i]) = Ticks(q[i])
        BY <1>3, <3>4 DEF Ticks
      <4>2. Left(q)[i - 1] > 0
        BY <1>6, <3>4
      <4>3. Ticks(q[i]) \in Nat
        BY <1>1, TicksNat
      <4> QED
        BY <3>1, <3>2, <4>1, <4>2, <4>3
    <3> QED
      BY <3>3, <3>4
  <2> HIDE DEF t
  <2>3. \A i \in 0..n : Left(r)[i] = t[i]
    BY <1>4, <2>1, <2>2, LeftUnique
  <2> QED
    BY <2>3 DEF t
<1>8. ASSUME NEW i \in 1..n, r[i].c_time < 0 PROVE Left(r)[i] = 0
  <2>1. Left(q)[i] = 0
    <3>1. CASE reached(i)
      <4>1. Ticks(q[i]) = 0
        BY <1>1, <1>3, <1>8, <3>1 DEF Ticks
      <4> QED
        BY <1>1, <1>5, <3>1, <4>1, LeftIs
    <3>2. CASE ~ reached(i)
      BY <1>1, <1>3, <1>8, <3>2 DEF OverdueFirst
    <3> QED
      BY <3>1, <3>2
  <2> QED
    BY <1>7, <2>1
<1>9. OverdueFirst'
  <2>1. DOMAIN r = 1..n
    BY <1>4
  <2> QED
    BY <1>8, <2>1 DEF OverdueFirst
<1>10. r \in Seq(Cells)
  BY <1>3, <1>4, CellsQueue
<1> QED
  BY <1>3, <1>4, <1>7, <1>9, <1>10

\* To take a due entry off leaves the time of the others as it was.
LEMMA PoppedLeft ==
  ASSUME calltodo \in Seq(Cells), OverdueFirst, HeadDue, calltodo' \in Seq(Cells),
         Len(calltodo') = Len(calltodo) - 1,
         \A i \in 1..Len(calltodo) - 1 : calltodo'[i] = calltodo[i + 1]
  PROVE  /\ Left(calltodo)[1] = 0
         /\ \A i \in 0..Len(calltodo) - 1 : Left(calltodo')[i] = Left(calltodo)[i + 1]
         /\ OverdueFirst'
<1> DEFINE q == calltodo
           r == calltodo'
           n == Len(q)
<1>1. /\ q \in Seq(Entries) /\ n \in Nat
      /\ \A i \in 1..n : q[i] \in Entries /\ q[i].c_time \in -1..MaxTicks
  BY Queue
<1>2. n >= 1 /\ q[1].c_time <= 0
  BY <1>1, EmptySeq DEF HeadDue
<1>3. /\ r \in Seq(Cells) /\ Len(r) = n - 1
      /\ \A i \in 1..n - 1 : r[i] = q[i + 1]
  OBVIOUS
<1>4. r \in Seq(Entries) /\ \A i \in 1..n - 1 : r[i] \in Entries
  <2>1. Cells \subseteq Entries
    BY MaxTicksPos DEF Cells, Entries
  <2> QED
    BY <1>3, <2>1, SeqMonotonic
<1>5. Left(q)[1] = 0
  <2>1. Left(q)[1] = Left(q)[0] + Ticks(q[1]) /\ Left(q)[0] = 0
    BY <1>1, <1>2, LeftIs
  <2> QED
    BY <1>1, <1>2, <2>1 DEF Ticks
<1>6. \A i \in 0..n - 1 : Left(r)[i] = Left(q)[i + 1]
  <2> DEFINE t == [i \in 0..n - 1 |-> Left(q)[i + 1]]
  <2>1. t[0] = 0
    BY <1>1, <1>2, <1>5
  <2>2. ASSUME NEW i \in 1..n - 1 PROVE t[i] = t[i - 1] + Ticks(r[i])
    <3>1. i + 1 \in 1..n /\ (i + 1) - 1 = i /\ (i - 1) + 1 = i
      BY <1>1
    <3>2. Left(q)[i + 1] = Left(q)[i] + Ticks(q[i + 1])
      BY <1>1, <3>1, LeftIs
    <3>3. t[i] = Left(q)[i + 1] /\ t[i - 1] = Left(q)[i]
      BY <1>1, <3>1
    <3> QED
      BY <1>3, <3>2, <3>3
  <2> HIDE DEF t
  <2>3. \A i \in 0..n - 1 : Left(r)[i] = t[i]
    BY <1>3, <1>4, <2>1, <2>2, LeftUnique
  <2> QED
    BY <2>3 DEF t
<1>7. OverdueFirst'
  <2>1. DOMAIN r = 1..n - 1 /\ DOMAIN q = 1..n
    BY <1>3, <1>4, <1>1
  <2>2. \A i \in 1..n - 1 : i + 1 \in 1..n /\ i \in 0..n - 1
    BY <1>1
  <2> QED
    BY <1>3, <1>6, <2>1, <2>2 DEF OverdueFirst
<1> QED
  BY <1>3, <1>5, <1>6, <1>7

\* The same, of the tail that softclock leaves.
LEMMA SoftclockLeft ==
  ASSUME calltodo \in Seq(Cells), OverdueFirst, HeadDue, calltodo' = Tail(calltodo)
  PROVE  /\ calltodo' \in Seq(Cells) /\ Len(calltodo') = Len(calltodo) - 1
         /\ Left(calltodo)[1] = 0
         /\ \A i \in 1..Len(calltodo) - 1 : calltodo'[i] = calltodo[i + 1]
         /\ \A i \in 0..Len(calltodo) - 1 : Left(calltodo')[i] = Left(calltodo)[i + 1]
         /\ OverdueFirst'
<1>1. calltodo # <<>>
  BY DEF HeadDue
<1>2. /\ calltodo' \in Seq(Cells) /\ Len(calltodo') = Len(calltodo) - 1
      /\ \A i \in 1..Len(calltodo) - 1 : calltodo'[i] = calltodo[i + 1]
  BY <1>1, HeadTailProperties
<1> QED
  BY <1>2, PoppedLeft, Zenon

\* A new entry of t ticks stands behind whatever is sooner and before the
\* rest, and changes the time of none of them.
Joins(q, r, f, t, k) ==
  /\ r \in Seq(Cells) /\ Len(r) = Len(q) + 1 /\ r[k].c_func = f /\ Left(r)[k] = t
  /\ \A i \in 1..k - 1 :
       r[i].c_func = q[i].c_func /\ Left(r)[i] = Left(q)[i] /\ Left(q)[i] < t
  /\ \A i \in k..Len(q) :
       r[i + 1].c_func = q[i].c_func /\ Left(r)[i + 1] = Left(q)[i] /\ Left(q)[i] >= t

LEMMA TimeoutLeft ==
  ASSUME calltodo \in Seq(Cells), OverdueFirst, Bounded,
         NEW f \in Funcs, NEW t0 \in 0..MaxTicks, timeout(f, t0)
  PROVE  \E t \in 1..MaxTicks, k \in 1..Len(calltodo) + 1 :
           t = Max({t0, 1}) /\ Joins(calltodo, calltodo', f, t, k) /\ OverdueFirst'
<1> DEFINE q == calltodo
           r == calltodo'
           n == Len(q)
           t == Max({t0, 1})
           rest(j) == t - Left(q)[j - 1]
           stop(j) == j = Len(q) + 1 \/ q[j].c_time >= rest(j)
           first(j) == stop(j) /\ \A m \in 1..j - 1 : ~ stop(m)
           k == CHOOSE j \in 1..Len(q) + 1 : first(j)
           s == Shortened(q, k, rest(k))
<1>1. /\ q \in Seq(Entries) /\ n \in Nat /\ DOMAIN q = 1..n
      /\ \A i \in 1..n : /\ q[i] \in Entries /\ q[i].c_func \in Funcs
                         /\ q[i].c_time \in -1..MaxTicks
  BY Queue
<1>2. t \in 1..MaxTicks
  BY MaxOf, MaxTicksPos
<1>3. r = InsertAt(s, k, Entry(f, rest(k)))
  BY DEF timeout
<1>4. k \in 1..n + 1 /\ first(k)
  <2> HIDE DEF stop, t
  <2>1. \E j \in 1..n + 1 : first(j)
    <3> DEFINE S == {j \in 1..n + 1 : stop(j)}
    <3>1. n + 1 \in S
      BY <1>1 DEF stop
    <3>2. S \subseteq Nat /\ S # {}
      BY <1>1, <3>1
    <3>3. PICK j \in S : \A m \in S : j <= m
      <4> HIDE DEF S
      <4> QED
        BY <3>2, LeastNat
    <3>4. \A m \in 1..j - 1 : m \in 1..n + 1 /\ ~ (j <= m)
      BY <1>1
    <3> QED
      BY <3>3, <3>4
  <2> HIDE DEF first
  <2> QED
    BY <2>1
<1> HIDE DEF t, k
<1>0. k \in 1..n + 1 /\ k \in Int /\ n \in Nat
  BY <1>1, <1>4
<1>5. \A i \in 0..n : Left(q)[i] \in Nat
  BY <1>1, LeftIs
<1>6. ASSUME NEW i \in 0..k - 1 PROVE Left(q)[i] < t
  <2> DEFINE S == {m \in Nat : m <= k - 1 => Left(q)[m] < t}
  <2>1. 0 \in S
    BY <1>1, <1>2, LeftIs
  <2>2. ASSUME NEW m \in Nat, m \in S, m + 1 <= k - 1 PROVE m + 1 \in S
    <3>1. m + 1 \in 1..k - 1 /\ m + 1 \in 1..n /\ (m + 1) - 1 = m /\ m \in 0..n
      BY <1>0, <2>2
    <3>2. ~ stop(m + 1)
      BY <1>4, <3>1
    <3>3. q[m + 1].c_time < t - Left(q)[m]
      BY <1>1, <1>2, <1>5, <3>1, <3>2
    <3>4. Left(q)[m + 1] = Left(q)[m] + Ticks(q[m + 1])
      BY <1>1, <3>1, LeftIs
    <3>5. Left(q)[m] < t
      BY <1>1, <1>4, <2>2
    <3> QED
      BY <1>1, <1>2, <1>5, <3>1, <3>3, <3>4, <3>5 DEF Ticks
  <2>3. Nat \subseteq S
    <3>1. \A m \in Nat : m \in S => m + 1 \in S
      <4> TAKE m \in Nat
      <4> HAVE m \in S
      <4>1. CASE m + 1 <= k - 1
        BY <2>2, <4>1
      <4>2. CASE ~ (m + 1 <= k - 1)
        BY <4>2
      <4> QED
        BY <4>1, <4>2
    <3> HIDE DEF S
    <3> QED
      BY <2>1, <3>1, SetInduction
  <2> QED
    BY <1>4, <2>3
<1>7. k - 1 \in 0..n /\ rest(k) \in 1..MaxTicks /\ rest(k) = t - Left(q)[k - 1]
  <2>1. k - 1 \in 0..n /\ k - 1 \in 0..k - 1
    BY <1>1, <1>4
  <2>2. Left(q)[k - 1] < t /\ Left(q)[k - 1] \in Nat
    BY <1>5, <1>6, <2>1
  <2>3. rest(k) = t - Left(q)[k - 1]
    OBVIOUS
  <2> QED
    BY <1>2, <2>1, <2>2, <2>3, MaxTicksPos
<1>8. k <= n => q[k].c_time >= rest(k) /\ Left(q)[k] >= t
  <2> HAVE k <= n
  <2>1. k \in 1..n
    BY <1>1, <1>4
  <2>2. q[k].c_time >= rest(k)
    BY <1>1, <1>4, <2>1
  <2>3. Left(q)[k] = Left(q)[k - 1] + Ticks(q[k])
    BY <1>1, <2>1, LeftIs
  <2>4. Ticks(q[k]) = q[k].c_time
    BY <1>1, <1>7, <2>1, <2>2 DEF Ticks
  <2> QED
    BY <1>1, <1>2, <1>5, <1>7, <2>1, <2>2, <2>3, <2>4
<1>9. ASSUME NEW i \in k..n PROVE Left(q)[i] >= t /\ i \in 1..n
  <2>1. k \in 0..n /\ k <= n /\ i \in 0..n /\ i \in 1..n
    BY <1>1, <1>4
  <2>2. Left(q)[k] <= Left(q)[i]
    BY <1>1, <2>1, LeftMonotone
  <2> QED
    BY <1>2, <1>5, <1>8, <2>1, <2>2
<1>10. /\ s \in Seq(Entries) /\ Len(s) = n
       /\ \A i \in 1..n : s[i] = IF i = k THEN Entry(q[k].c_func, q[k].c_time - rest(k))
                                 ELSE q[i]
  <2> HIDE DEF rest
  <2> QED
    BY <1>1, <1>4, <1>7, ShortenedIs
<1>11. Entry(f, rest(k)) \in Entries
  BY <1>7, MaxTicksPos DEF Entry, Entries
<1> HIDE DEF s, rest, first, stop
<1>12. /\ r \in Seq(Entries) /\ Len(r) = n + 1
       /\ \A i \in 1..n + 1 : r[i] = IF i < k THEN s[i]
                                     ELSE IF i = k THEN Entry(f, rest(k)) ELSE s[i - 1]
  <2>1. s \in Seq(Entries) /\ Len(s) = n /\ k \in 1..Len(s) + 1
    BY <1>0, <1>10
  <2> DEFINE e == Entry(f, rest(k))
  <2>2. e \in Entries
    BY <1>11
  <2> HIDE DEF e
  <2>3. r \in Seq(Entries) /\ InsertedAt(s, k, e, r)
    <3>1. r = InsertAt(s, k, e)
      BY <1>3 DEF e
    <3> QED
      BY <2>1, <2>2, <3>1, Inserted
  <2> QED
    BY <2>1, <2>3 DEF InsertedAt, e
<1>13. \A i \in 1..k - 1 : r[i] = q[i] /\ i \in 1..n
  <2> TAKE i \in 1..k - 1
  <2>1. i \in 1..n /\ i \in 1..n + 1 /\ i < k /\ i # k
    BY <1>0
  <2>2. r[i] = s[i] /\ s[i] = q[i]
    BY <1>10, <1>12, <2>1
  <2> QED
    BY <2>1, <2>2
<1>14. r[k].c_func = f /\ r[k].c_time = rest(k)
  BY <1>1, <1>4, <1>12 DEF Entry
<1>15. \A i \in k..n : /\ i + 1 \in 1..n + 1
                       /\ r[i + 1].c_func = q[i].c_func
                       /\ r[i + 1].c_time = IF i = k THEN q[k].c_time - rest(k)
                                            ELSE q[i].c_time
  <2> TAKE i \in k..n
  <2>1. i \in 1..n /\ i + 1 \in 1..n + 1 /\ ~ (i + 1 < k) /\ i + 1 # k /\ (i + 1) - 1 = i
    BY <1>1, <1>4
  <2>2. r[i + 1] = s[i]
    BY <1>12, <2>1
  <2> QED
    BY <1>10, <2>1, <2>2 DEF Entry
<1>16. \A i \in 0..n + 1 : Left(r)[i] = IF i < k THEN Left(q)[i] ELSE IF i = k THEN t
                                        ELSE Left(q)[i - 1]
  <2> DEFINE u == [i \in 0..n + 1 |-> IF i < k THEN Left(q)[i] ELSE IF i = k THEN t
                                      ELSE Left(q)[i - 1]]
  <2>1. u[0] = 0
    BY <1>1, <1>4, LeftIs
  <2>2. ASSUME NEW i \in 1..n + 1 PROVE u[i] = u[i - 1] + Ticks(r[i])
    <3>1. CASE i < k
      <4>1. i \in 1..n /\ i - 1 \in 0..n + 1 /\ i - 1 < k /\ i \in 1..k - 1
        BY <1>1, <1>4, <3>1
      <4>2. Left(q)[i] = Left(q)[i - 1] + Ticks(q[i])
        BY <1>1, <4>1, LeftIs
      <4> QED
        BY <1>13, <3>1, <4>1, <4>2
    <3>2. CASE i = k
      <4>1. u[i] = t /\ u[i - 1] = Left(q)[k - 1]
        BY <1>1, <1>4, <3>2
      <4>2. Ticks(r[i]) = rest(k)
        BY <1>7, <1>14, <3>2 DEF Ticks
      <4> QED
        BY <1>2, <1>5, <1>7, <4>1, <4>2
    <3>3. CASE i = k + 1
      <4>1. k \in k..n /\ k \in 1..n /\ k <= n
        BY <1>1, <1>4, <3>3
      <4>2. u[i] = Left(q)[k] /\ u[i - 1] = t
        BY <1>1, <1>4, <3>3
      <4>3. r[i].c_time = q[k].c_time - rest(k)
        BY <1>15, <3>3, <4>1
      <4>4. Left(q)[k] = Left(q)[k - 1] + Ticks(q[k])
        BY <1>1, <4>1, LeftIs
      <4>5. Ticks(q[k]) = q[k].c_time /\ Ticks(r[i]) = q[k].c_time - rest(k)
        BY <1>1, <1>7, <1>8, <4>1, <4>3 DEF Ticks
      <4>6. Left(q)[k - 1] \in Int /\ q[k].c_time \in Int /\ t \in Int
        BY <1>1, <1>2, <1>5, <1>7, <4>1
      <4>7. Left(q)[k] = t + Ticks(r[i])
        BY <1>7, <4>4, <4>5, <4>6
      <4> QED
        BY <4>2, <4>7
    <3>4. CASE i > k + 1
      <4>1. /\ i - 1 \in k..n /\ i - 1 \in 1..n /\ i - 1 # k /\ (i - 1) + 1 = i
            /\ i - 1 \in 0..n + 1 /\ ~ (i < k) /\ ~ (i - 1 < k) /\ i # k
        BY <1>1, <1>4, <3>4
      <4>2. u[i] = Left(q)[i - 1] /\ u[i - 1] = Left(q)[(i - 1) - 1]
        BY <4>1
      <4>3. r[i].c_time = q[i - 1].c_time
        BY <1>15, <4>1
      <4>4. Left(q)[i - 1] = Left(q)[(i - 1) - 1] + Ticks(q[i - 1])
        BY <1>1, <4>1, LeftIs
      <4> QED
        BY <4>2, <4>3, <4>4 DEF Ticks
    <3> QED
      BY <1>1, <1>4, <3>1, <3>2, <3>3, <3>4
  <2> HIDE DEF u
  <2>3. \A i \in 0..n + 1 : Left(r)[i] = u[i]
    BY <1>12, <2>1, <2>2, LeftUnique
  <2> QED
    BY <2>3 DEF u
<1>17. ASSUME NEW i \in 1..n + 1
       PROVE  r[i].c_time \in -1..MaxTicks /\ (r[i].c_time < 0 => Left(r)[i] = 0)
  <2>1. CASE i < k
    <3>1. i \in 1..k - 1 /\ i \in 1..n /\ i \in 0..n + 1
      BY <1>1, <1>4, <2>1
    <3>2. r[i] = q[i] /\ Left(r)[i] = Left(q)[i]
      BY <1>13, <1>16, <2>1, <3>1
    <3> QED
      BY <1>1, <3>1, <3>2 DEF OverdueFirst
  <2>2. CASE i = k
    BY <1>7, <1>14, <2>2, MaxTicksPos
  <2>3. CASE i > k
    <3>1. i - 1 \in k..n /\ i - 1 \in 1..n /\ (i - 1) + 1 = i
      BY <1>1, <1>4, <2>3
    <3>2. r[i].c_time = IF i - 1 = k THEN q[k].c_time - rest(k) ELSE q[i - 1].c_time
      BY <1>15, <3>1
    <3>3. Left(q)[i - 1] >= t
      BY <1>9, <3>1
    <3>4. ~ (q[i - 1].c_time < 0)
      BY <1>1, <1>2, <3>1, <3>3 DEF OverdueFirst
    <3>5. CASE i - 1 = k
      <4>1. k \in 1..n /\ r[i].c_time = q[k].c_time - rest(k)
        BY <3>1, <3>2, <3>5
      <4>2. q[k].c_time \in -1..MaxTicks /\ q[k].c_time >= rest(k) /\ rest(k) \in 1..MaxTicks
        BY <1>1, <1>7, <1>8, <4>1
      <4>3. q[k].c_time - rest(k) \in 0..MaxTicks
        <5> HIDE DEF rest, k
        <5> QED
          BY <4>2, MaxTicksPos
      <4> QED
        BY <4>1, <4>3, MaxTicksPos
    <3>6. CASE i - 1 # k
      BY <1>1, <3>1, <3>2, <3>4, <3>6
    <3> QED
      BY <3>5, <3>6
  <2> QED
    BY <1>1, <1>4, <2>1, <2>2, <2>3
<1>18. r \in Seq(Cells)
  BY <1>12, <1>17, CellsQueue
<1>19. OverdueFirst'
  <2>1. DOMAIN r = 1..n + 1
    BY <1>12
  <2> QED
    BY <1>17, <2>1 DEF OverdueFirst
<1>20. \A i \in 1..k - 1 : /\ r[i].c_func = q[i].c_func
                           /\ Left(r)[i] = Left(q)[i] /\ Left(q)[i] < t
  <2> TAKE i \in 1..k - 1
  <2>1. i \in 0..k - 1 /\ i \in 0..n + 1 /\ i < k
    BY <1>1, <1>4
  <2> QED
    BY <1>6, <1>13, <1>16, <2>1
<1>21. \A i \in k..n : /\ r[i + 1].c_func = q[i].c_func
                       /\ Left(r)[i + 1] = Left(q)[i] /\ Left(q)[i] >= t
  <2> TAKE i \in k..n
  <2>1. i + 1 \in 0..n + 1 /\ ~ (i + 1 < k) /\ i + 1 # k /\ (i + 1) - 1 = i
    BY <1>1, <1>4
  <2>2. Left(r)[i + 1] = Left(q)[i]
    BY <1>16, <2>1
  <2> QED
    BY <1>9, <1>15, <2>2
<1>22. Left(r)[k] = t
  BY <1>1, <1>4, <1>16
<1>23. t = Max({t0, 1})
  BY DEF t
<1>24. Joins(q, r, f, t, k)
  BY <1>12, <1>14, <1>18, <1>20, <1>21, <1>22 DEF Joins
<1> QED
  BY <1>2, <1>4, <1>19, <1>23, <1>24

\* The entry that untimeout looks for, in the queue and in the pending list.
FirstOf(q, f) == SelectInSeq(q, LAMBDA c : c.c_func = f)

LEMMA Found ==
  ASSUME NEW q, Len(q) \in Nat, NEW f, NEW k, k = FirstOf(q, f), k # 0
  PROVE  k \in 1..Len(q) /\ q[k].c_func = f
<1> DEFINE S == {i \in 1..Len(q) : q[i].c_func = f}
<1>1. k = IF S # {} THEN Min(S) ELSE 0
  BY DEF FirstOf, SelectInSeq
<1>2. S # {} /\ S \subseteq Nat
  BY <1>1
<1> HIDE DEF S
<1>3. k \in S
  BY <1>1, <1>2, LeastNat DEF Min
<1> QED
  BY <1>3 DEF S

\* What an entry that is removed had to wait passes to the next one: the time
\* left to the others is as it was.
LEMMA UntimeoutLeft ==
  ASSUME calltodo \in Seq(Cells), OverdueFirst, Bounded,
         NEW f \in Funcs, untimeout(f)
  PROVE  \E k \in 1..Len(calltodo) :
           /\ k = FirstOf(calltodo, f)
           /\ calltodo' \in Seq(Cells) /\ Len(calltodo') = Len(calltodo) - 1
           /\ \A i \in 1..Len(calltodo) - 1 :
                LET j == IF i < k THEN i ELSE i + 1
                IN  /\ calltodo'[i].c_func = calltodo[j].c_func
                    /\ Left(calltodo')[i] = Left(calltodo)[j]
           /\ OverdueFirst'
<1> DEFINE q == calltodo
           r == calltodo'
           n == Len(q)
           k == FirstOf(q, f)
           d == -Max({q[k].c_time, 0})
           s == Shortened(q, k + 1, d)
<1>1. /\ q \in Seq(Entries) /\ n \in Nat /\ DOMAIN q = 1..n
      /\ \A i \in 1..n : /\ q[i] \in Entries /\ q[i].c_func \in Funcs
                         /\ q[i].c_time \in -1..MaxTicks
  BY Queue
<1>2. k # 0 /\ r = RemoveAt(s, k)
  BY DEF untimeout, FirstOf
<1>3. k \in 1..n
  BY <1>1, <1>2, Found
<1> HIDE DEF k
<1>4. k \in 1..n /\ k \in Int /\ n \in Nat /\ MaxTicks \in Nat
  BY <1>1, <1>3, MaxTicksPos
<1>5. d \in Int /\ d = -Ticks(q[k]) /\ Ticks(q[k]) \in Nat
  <2>1. Ticks(q[k]) \in Nat /\ Ticks(q[k]) = Max({q[k].c_time, 0})
    BY <1>1, <1>4, TicksNat
  <2> QED
    BY <2>1
<1> HIDE DEF d
<1>6. /\ s \in Seq(Entries) /\ Len(s) = n
      /\ \A i \in 1..n : s[i] = IF i = k + 1
                                THEN Entry(q[k + 1].c_func, q[k + 1].c_time - d)
                                ELSE q[i]
  BY <1>1, <1>4, <1>5, ShortenedIs
<1> HIDE DEF s
<1>7. /\ r \in Seq(Entries) /\ Len(r) = n - 1
      /\ \A i \in 1..n - 1 : r[i] = IF i < k THEN s[i] ELSE s[i + 1]
  BY <1>2, <1>4, <1>6, Removed
<1>8. \A i \in 0..n : Left(q)[i] \in Nat
  BY <1>1, LeftIs
<1>9. \A i \in 1..n : /\ Left(q)[i] = Left(q)[i - 1] + Ticks(q[i])
                      /\ Ticks(q[i]) \in Nat
  BY <1>1, LeftIs, TicksNat
<1>10. ASSUME NEW i \in 1..n - 1, i < k PROVE r[i] = q[i]
  <2>1. i \in 1..n /\ i # k + 1
    BY <1>4, <1>10
  <2> QED
    BY <1>6, <1>7, <1>10, <2>1
<1>11. ASSUME k \in 1..n - 1
       PROVE  /\ k + 1 \in 1..n /\ r[k].c_func = q[k + 1].c_func
              /\ r[k].c_time = q[k + 1].c_time + Ticks(q[k])
  <2>1. k + 1 \in 1..n
    BY <1>4, <1>11
  <2>2. r[k] = s[k + 1]
    BY <1>4, <1>7, <1>11
  <2>3. q[k + 1].c_time \in Int
    BY <1>1, <2>1
  <2> QED
    BY <1>5, <1>6, <2>1, <2>2, <2>3 DEF Entry
<1>12. ASSUME NEW i \in 1..n - 1, i > k PROVE i + 1 \in 1..n /\ r[i] = q[i + 1]
  <2>1. i + 1 \in 1..n /\ ~ (i < k) /\ i + 1 # k + 1
    BY <1>4, <1>12
  <2>2. r[i] = s[i + 1]
    BY <1>7, <2>1
  <2> QED
    BY <1>6, <2>1, <2>2
<1>13. ASSUME k \in 1..n - 1
       PROVE  Ticks(r[k]) = Ticks(q[k]) + Ticks(q[k + 1])
  <2>1. k + 1 \in 1..n /\ r[k].c_time = q[k + 1].c_time + Ticks(q[k])
    BY <1>11, <1>13
  <2>2. q[k + 1].c_time \in -1..MaxTicks /\ Left(q)[k] \in Nat /\ Left(q)[k - 1] \in Nat
    <3>1. k \in 0..n /\ k - 1 \in 0..n
      BY <1>4
    <3> QED
      BY <1>1, <1>8, <2>1, <3>1
  <2>3. Left(q)[k] = Left(q)[k - 1] + Ticks(q[k]) /\ Ticks(q[k]) \in Nat
    BY <1>4, <1>9
  <2>4. Left(q)[k + 1] = Left(q)[k] + Ticks(q[k + 1]) /\ Ticks(q[k + 1]) \in Nat
    <3>1. (k + 1) - 1 = k
      BY <1>4
    <3> QED
      BY <1>9, <2>1, <3>1
  <2>5. CASE q[k + 1].c_time < 0
    <3>1. Left(q)[k + 1] = 0
      BY <1>1, <2>1, <2>5 DEF OverdueFirst
    <3>2. Ticks(q[k]) = 0 /\ Ticks(q[k + 1]) = 0
      BY <2>2, <2>3, <2>4, <3>1
    <3> QED
      BY <1>4, <2>1, <2>2, <2>5, <3>2 DEF Ticks
  <2>6. CASE q[k + 1].c_time >= 0
    <3>1. Ticks(q[k + 1]) = q[k + 1].c_time
      BY <1>4, <2>2, <2>6 DEF Ticks
    <3>2. Ticks(r[k]) = r[k].c_time
      BY <1>4, <2>1, <2>2, <2>3, <2>6 DEF Ticks
    <3> QED
      BY <1>4, <2>1, <2>2, <2>3, <3>1, <3>2
  <2> QED
    BY <1>4, <2>2, <2>5, <2>6
<1>14. \A i \in 0..n - 1 : Left(r)[i] = IF i < k THEN Left(q)[i] ELSE Left(q)[i + 1]
  <2> DEFINE u == [i \in 0..n - 1 |-> IF i < k THEN Left(q)[i] ELSE Left(q)[i + 1]]
  <2>1. u[0] = 0
    BY <1>1, <1>4, LeftIs
  <2>2. ASSUME NEW i \in 1..n - 1 PROVE u[i] = u[i - 1] + Ticks(r[i])
    <3>1. CASE i < k
      <4>1. i \in 1..n /\ i - 1 \in 0..n - 1 /\ i \in 0..n - 1 /\ i - 1 < k
        BY <1>4, <3>1
      <4>2. r[i] = q[i] /\ Left(q)[i] = Left(q)[i - 1] + Ticks(q[i])
        BY <1>9, <1>10, <3>1, <4>1
      <4> QED
        BY <3>1, <4>1, <4>2
    <3>2. CASE i = k
      <4>1. /\ k \in 1..n - 1 /\ k \in 1..n /\ k + 1 \in 1..n /\ (k + 1) - 1 = k
            /\ k - 1 \in 0..n /\ k \in 0..n
        BY <1>4, <3>2
      <4>2. u[i] = Left(q)[k + 1] /\ u[i - 1] = Left(q)[k - 1]
        BY <1>4, <3>2
      <4>3. Left(q)[k + 1] = Left(q)[k] + Ticks(q[k + 1]) /\ Ticks(q[k + 1]) \in Nat
        BY <1>9, <4>1
      <4>4. Left(q)[k] = Left(q)[k - 1] + Ticks(q[k]) /\ Ticks(q[k]) \in Nat
        BY <1>9, <4>1
      <4>5. Ticks(r[i]) = Ticks(q[k]) + Ticks(q[k + 1])
        BY <1>13, <3>2, <4>1
      <4>6. Left(q)[k - 1] \in Nat
        BY <1>8, <4>1
      <4> QED
        BY <4>2, <4>3, <4>4, <4>5, <4>6
    <3>3. CASE i > k
      <4>1. /\ i \in 0..n - 1 /\ i - 1 \in 0..n - 1 /\ ~ (i < k) /\ ~ (i - 1 < k)
            /\ (i - 1) + 1 = i /\ (i + 1) - 1 = i /\ i + 1 \in 1..n
        BY <1>4, <3>3
      <4>2. u[i] = Left(q)[i + 1] /\ u[i - 1] = Left(q)[i]
        BY <4>1
      <4>3. Left(q)[i + 1] = Left(q)[i] + Ticks(q[i + 1])
        BY <1>9, <4>1
      <4>4. r[i] = q[i + 1]
        BY <1>12, <3>3
      <4> QED
        BY <4>2, <4>3, <4>4
    <3> QED
      BY <1>4, <3>1, <3>2, <3>3
  <2> HIDE DEF u
  <2>3. \A i \in 0..n - 1 : Left(r)[i] = u[i]
    BY <1>7, <2>1, <2>2, LeftUnique
  <2> QED
    BY <2>3 DEF u
<1>15. ASSUME NEW i \in 1..n - 1
       PROVE  r[i].c_time \in -1..MaxTicks /\ (r[i].c_time < 0 => Left(r)[i] = 0)
  <2>0. i \in 0..n - 1 /\ i \in 1..n /\ i \in Int
    BY <1>4
  <2>1. CASE i < k
    BY <1>1, <1>10, <1>14, <2>0, <2>1 DEF OverdueFirst
  <2>2. CASE i > k
    BY <1>1, <1>4, <1>12, <1>14, <2>0, <2>2 DEF OverdueFirst
  <2>3. CASE i = k
    <3>1. /\ k + 1 \in 1..n /\ k + 1 \in 0..n /\ k \in 0..n /\ k - 1 \in 0..n
          /\ (k + 1) - 1 = k
      BY <1>4, <2>3
    <3>2. r[k].c_time = q[k + 1].c_time + Ticks(q[k])
      BY <1>11, <2>3
    <3>3. /\ Ticks(q[k]) \in Nat /\ Left(q)[k] = Left(q)[k - 1] + Ticks(q[k])
          /\ Left(q)[k - 1] \in Nat /\ Left(q)[k + 1] \in Nat
      BY <1>4, <1>8, <1>9, <3>1
    <3>4. q[k + 1].c_time \in -1..MaxTicks
      BY <1>1, <3>1
    <3>5. /\ Left(q)[k + 1] = Left(q)[k] + Ticks(q[k + 1])
          /\ Left(q)[k + 1] <= MaxTicks
      BY <1>9, <3>1 DEF Bounded
    <3>6. q[k + 1].c_time < 0 \/ Ticks(q[k + 1]) = q[k + 1].c_time
      BY <1>4, <3>4 DEF Ticks
    <3>7. q[k + 1].c_time < 0 => Left(q)[k + 1] = 0
      BY <1>1, <3>1 DEF OverdueFirst
    <3>8. Left(r)[k] = Left(q)[k + 1]
      BY <1>4, <1>14, <2>0, <2>3
    <3>9. Ticks(q[k + 1]) \in Nat
      BY <1>9, <3>1
    <3>10. CASE q[k + 1].c_time < 0
      BY <1>4, <2>3, <3>2, <3>3, <3>4, <3>5, <3>7, <3>8, <3>9, <3>10
    <3>11. CASE q[k + 1].c_time >= 0
      BY <1>4, <2>3, <3>2, <3>3, <3>4, <3>5, <3>6, <3>9, <3>11, SMTT(30)
    <3> QED
      BY <1>4, <3>4, <3>10, <3>11
  <2> QED
    BY <1>4, <2>0, <2>1, <2>2, <2>3
<1>16. r \in Seq(Cells)
  BY <1>7, <1>15, CellsQueue
<1>17. OverdueFirst'
  <2>1. DOMAIN r = 1..n - 1
    BY <1>7
  <2> QED
    BY <1>15, <2>1 DEF OverdueFirst
<1>18. \A i \in 1..n - 1 : LET j == IF i < k THEN i ELSE i + 1
                           IN  r[i].c_func = q[j].c_func /\ Left(r)[i] = Left(q)[j]
  <2> TAKE i \in 1..n - 1
  <2>1. i \in 0..n - 1 /\ i \in Int
    BY <1>4
  <2>2. CASE i < k
    BY <1>10, <1>14, <2>1, <2>2
  <2>3. CASE i = k
    BY <1>4, <1>11, <1>14, <2>1, <2>3
  <2>4. CASE i > k
    BY <1>4, <1>12, <1>14, <2>1, <2>4
  <2> QED
    BY <1>4, <2>1, <2>2, <2>3, <2>4
<1> QED
  BY <1>3, <1>7, <1>16, <1>17, <1>18 DEF k

-----------------------------------------------------------------------------
(* The theorems.                                                           *)

\* The queue is empty when the system starts.
LEMMA InitIInv == Init => IInv
<1> SUFFICES ASSUME Init PROVE IInv
  OBVIOUS
<1>1. /\ calltodo = <<>> /\ calltodo \in Seq(Cells) /\ Len(calltodo) = 0
      /\ DOMAIN calltodo = {}
  BY DEF Init
<1>2. TypeOK
  <2>1. Len(calltodo) <= NCallout
    BY <1>1, NCalloutPos
  <2>2. calltodo \in Seq([c_func : Funcs, c_time : -1..MaxTicks])
    BY <1>1 DEF Cells
  <2>3. softint \in BOOLEAN /\ insoft \in BOOLEAN /\ called \in Funcs \cup {NoFunc}
    BY DEF Init
  <2>4. time \in 0..1
    BY DEF Init
  <2> QED
    BY <2>1, <2>2, <2>3, <2>4 DEF TypeOK
<1>3. Bounded
  <2>1. Left(calltodo)[0] = 0
    BY <1>1, Queue, LeftIs
  <2> QED
    BY <1>1, <2>1, MaxTicksPos DEF Bounded
<1> QED
  BY <1>1, <1>2, <1>3 DEF IInv, OverdueFirst

\* softclock_loop, in both its cases.
LEMMA LoopKeeps ==
  ASSUME IInv, softclock_loop, softint' \in BOOLEAN, UNCHANGED time
  PROVE  IInv'
<1>1. calltodo \in Seq(Cells) /\ OverdueFirst /\ Bounded /\ TypeOK
  BY DEF IInv, TypeOK, Cells
<1>2. CASE HeadDue /\ calltodo' = Tail(calltodo)
  <2>1. /\ calltodo' \in Seq(Cells) /\ Len(calltodo') = Len(calltodo) - 1
        /\ \A i \in 0..Len(calltodo) - 1 : Left(calltodo')[i] = Left(calltodo)[i + 1]
        /\ OverdueFirst'
    BY <1>1, <1>2, SoftclockLeft
  <2>2. /\ Len(calltodo) \in Nat /\ calltodo # <<>> /\ Len(calltodo) # 0
        /\ calltodo[1].c_func \in Funcs
    <3>1. /\ Len(calltodo) \in Nat
          /\ \A i \in 1..Len(calltodo) : calltodo[i].c_func \in Funcs
      BY <1>1, Queue
    <3>2. calltodo # <<>> /\ Len(calltodo) # 0
      BY <1>1, <1>2, EmptySeq DEF HeadDue
    <3> QED
      BY <3>1, <3>2
  <2>3. Bounded'
    <3>1. \A i \in 0..Len(calltodo) - 1 : i + 1 \in 0..Len(calltodo)
      BY <2>2
    <3> QED
      BY <1>1, <2>1, <3>1 DEF Bounded
  <2>4. insoft' \in BOOLEAN /\ called' \in Funcs \cup {NoFunc} /\ time' \in 0..1
    BY <1>1, <1>2, <2>2 DEF softclock_loop, TypeOK
  <2>5. TypeOK'
    BY <1>1, <2>1, <2>2, <2>4, NCalloutPos DEF TypeOK, Cells
  <2> QED
    BY <2>1, <2>3, <2>5 DEF IInv
<1>3. CASE ~ HeadDue /\ UNCHANGED calltodo
  BY <1>1, <1>3 DEF softclock_loop, IInv, TypeOK, Bounded, OverdueFirst
<1> QED
  BY <1>2, <1>3 DEF softclock_loop

\* Every step keeps the invariant.
LEMMA NextIInv == ASSUME IInv, [Next]_vars PROVE IInv'
<1>1. calltodo \in Seq(Cells) /\ OverdueFirst /\ Bounded /\ TypeOK
  BY DEF IInv, TypeOK, Cells
<1>2. Len(calltodo) \in Nat /\ Len(calltodo) <= NCallout
  BY <1>1 DEF TypeOK
<1>3. CASE hardclock
  <2>1. /\ calltodo' \in Seq(Cells) /\ Len(calltodo') = Len(calltodo) /\ OverdueFirst'
        /\ \A i \in 0..Len(calltodo) :
             Left(calltodo')[i] = IF Left(calltodo)[i] = 0 THEN 0
                                  ELSE Left(calltodo)[i] - 1
    BY <1>1, <1>3, HardclockLeft
  <2>2. \A i \in 0..Len(calltodo) : Left(calltodo)[i] \in Nat
    BY <1>1, Queue, LeftIs
  <2>3. Bounded'
    BY <1>1, <2>1, <2>2, MaxTicksPos DEF Bounded
  <2>4. TypeOK'
    BY <1>1, <1>2, <1>3, <2>1 DEF TypeOK, Cells, hardclock, HeadDue
  <2> QED
    BY <2>1, <2>3, <2>4 DEF IInv
<1>4. CASE softclock
  BY <1>1, <1>4, LoopKeeps DEF softclock
<1>5. CASE softclock_again
  BY <1>1, <1>5, LoopKeeps DEF softclock_again, TypeOK
<1>6. ASSUME NEW f \in Funcs, NEW t0 \in 0..MaxTicks, timeout(f, t0) PROVE IInv'
  <2>1. PICK t \in 1..MaxTicks, k \in 1..Len(calltodo) + 1 :
           /\ calltodo' \in Seq(Cells) /\ Len(calltodo') = Len(calltodo) + 1
           /\ Left(calltodo')[k] = t
           /\ \A i \in 1..k - 1 : Left(calltodo')[i] = Left(calltodo)[i]
           /\ \A i \in k..Len(calltodo) : Left(calltodo')[i + 1] = Left(calltodo)[i]
           /\ OverdueFirst'
    <3>1. PICK t \in 1..MaxTicks, k \in 1..Len(calltodo) + 1 :
            t = Max({t0, 1}) /\ Joins(calltodo, calltodo', f, t, k) /\ OverdueFirst'
      BY <1>1, <1>6, TimeoutLeft
    <3> QED
      BY <3>1 DEF Joins
  <2>2. ASSUME NEW i \in 0..Len(calltodo') PROVE Left(calltodo')[i] <= MaxTicks
    <3>1. CASE i = 0
      BY <2>1, <3>1, LeftStart, MaxTicksPos
    <3>2. CASE i \in 1..k - 1
      BY <1>1, <1>2, <2>1, <3>2 DEF Bounded
    <3>3. CASE i = k
      BY <2>1, <3>3
    <3>4. CASE i \in k + 1..Len(calltodo')
      <4>1. i - 1 \in k..Len(calltodo) /\ i - 1 \in 0..Len(calltodo) /\ (i - 1) + 1 = i
        BY <1>2, <2>1, <3>4
      <4> QED
        BY <1>1, <2>1, <4>1 DEF Bounded
    <3> QED
      BY <1>2, <2>1, <2>2, <3>1, <3>2, <3>3, <3>4
  <2>3. TypeOK'
    <3>1. Len(calltodo) < NCallout /\ UNCHANGED <<softint, insoft, called, time>>
      BY <1>6 DEF timeout
    <3>2. calltodo' \in Seq(Cells) /\ Len(calltodo') <= NCallout
      BY <1>2, <2>1, <3>1, NCalloutPos
    <3> QED
      BY <1>1, <3>1, <3>2 DEF TypeOK, Cells
  <2> QED
    BY <2>1, <2>2, <2>3 DEF IInv, Bounded
<1>7. ASSUME NEW f \in Funcs, untimeout(f) PROVE IInv'
  <2>1. PICK k \in 1..Len(calltodo) :
           /\ calltodo' \in Seq(Cells) /\ Len(calltodo') = Len(calltodo) - 1
           /\ \A i \in 1..Len(calltodo) - 1 :
                Left(calltodo')[i] = Left(calltodo)[IF i < k THEN i ELSE i + 1]
           /\ OverdueFirst'
    BY <1>1, <1>7, UntimeoutLeft
  <2>2. ASSUME NEW i \in 0..Len(calltodo') PROVE Left(calltodo')[i] <= MaxTicks
    <3>1. CASE i = 0
      BY <2>1, <3>1, LeftStart, MaxTicksPos
    <3>2. CASE i # 0
      <4>1. /\ i \in 1..Len(calltodo) - 1
            /\ (IF i < k THEN i ELSE i + 1) \in 0..Len(calltodo)
        BY <1>2, <2>1, <3>2
      <4> QED
        BY <1>1, <2>1, <4>1 DEF Bounded
    <3> QED
      BY <3>1, <3>2
  <2>3. TypeOK'
    BY <1>1, <1>2, <1>7, <2>1, NCalloutPos DEF TypeOK, Cells, untimeout
  <2> QED
    BY <2>1, <2>2, <2>3 DEF IInv, Bounded
<1>8. CASE UNCHANGED vars
  BY <1>1, <1>8 DEF vars, IInv, TypeOK, Bounded, OverdueFirst
<1> QED
  BY <1>3, <1>4, <1>5, <1>6, <1>7, <1>8 DEF Next

\* The inductive invariant holds in every state, for any functions and delays
\* and any size of the callout table.
THEOREM Invariance == Spec => []IInv
BY InitIInv, NextIInv, PTL DEF Spec

\* The state keeps its types: no delta leaves the range of the delays asked for.
THEOREM TypeCorrect == Spec => []TypeOK
<1>1. IInv => TypeOK
  BY DEF IInv
<1> QED
  BY <1>1, Invariance, PTL

-----------------------------------------------------------------------------
(* The refinement.                                                         *)

\* what Timers has on its list
Things == [func : Funcs, left : Nat]

\* The entries of the pending list, one by one.
LEMMA PendingIs ==
  ASSUME NEW q \in Seq(Cells)
  PROVE  /\ Pending(q) \in Seq(Things)
         /\ Len(Pending(q)) = Len(q) /\ Len(q) \in Nat
         /\ \A i \in 1..Len(q) : /\ Pending(q)[i].func = q[i].c_func
                                 /\ Pending(q)[i].left = Left(q)[i]
<1>1. q \in Seq(Entries) /\ Len(q) \in Nat /\ DOMAIN q = 1..Len(q)
  <2>1. Cells \subseteq Entries
    BY MaxTicksPos DEF Cells, Entries
  <2> QED
    BY <2>1, SeqMonotonic
<1>2. \A i \in 1..Len(q) : q[i].c_func \in Funcs
  <2>1. \A i \in 1..Len(q) : q[i] \in Cells
    OBVIOUS
  <2> QED
    BY <2>1 DEF Cells
<1>3. \A i \in 1..Len(q) : Left(q)[i] \in Nat
  BY <1>1, LeftIs
<1>4. Pending(q) = [i \in 1..Len(q) |-> [func |-> q[i].c_func, left |-> Left(q)[i]]]
  BY <1>1 DEF Pending
<1>5. \A i \in 1..Len(q) : /\ Pending(q)[i] = [func |-> q[i].c_func, left |-> Left(q)[i]]
                           /\ Pending(q)[i] \in Things
  BY <1>2, <1>3, <1>4 DEF Things
<1>6. Pending(q) \in Seq(Things) /\ Len(Pending(q)) = Len(q)
  BY <1>1, <1>4, <1>5
<1>7. \A i \in 1..Len(q) : /\ Pending(q)[i].func = q[i].c_func
                           /\ Pending(q)[i].left = Left(q)[i]
  <2> TAKE i \in 1..Len(q)
  <2>1. Pending(q)[i] = [func |-> q[i].c_func, left |-> Left(q)[i]]
    BY <1>5
  <2> QED
    BY <2>1
<1> QED
  BY <1>1, <1>6, <1>7

\* Sequences of the same functions at the same times are the same.
LEMMA SameThings ==
  ASSUME NEW s \in Seq(Things), NEW t \in Seq(Things), Len(s) = Len(t),
         \A i \in 1..Len(s) : s[i].func = t[i].func /\ s[i].left = t[i].left
  PROVE  s = t
<1>1. \A i \in 1..Len(s) : s[i] = t[i]
  <2> TAKE i \in 1..Len(s)
  <2>1. s[i] \in Things /\ t[i] \in Things
    OBVIOUS
  <2>2. \A x \in Things : x = [func |-> x.func, left |-> x.left]
    BY DEF Things
  <2>3. /\ s[i] = [func |-> s[i].func, left |-> s[i].left]
        /\ t[i] = [func |-> t[i].func, left |-> t[i].left]
    BY <2>1, <2>2
  <2>4. s[i].func = t[i].func /\ s[i].left = t[i].left
    OBVIOUS
  <2> QED
    BY <2>3, <2>4
<1> QED
  BY <1>1, SeqEqual

\* hardclock is the tick of Timers.
LEMMA HardclockTicks ==
  ASSUME IInv, hardclock
  PROVE  LET p == Pending(calltodo)
         IN  /\ time' = 1 - time
             /\ Pending(calltodo') =
                  [i \in DOMAIN p |-> [p[i] EXCEPT !.left = Max({@ - 1, 0})]]
<1> DEFINE p == Pending(calltodo)
           r == Pending(calltodo')
           u == [i \in DOMAIN p |-> [p[i] EXCEPT !.left = Max({@ - 1, 0})]]
           n == Len(calltodo)
<1>1. calltodo \in Seq(Cells) /\ OverdueFirst
  BY DEF IInv, TypeOK, Cells
<1>2. /\ calltodo' \in Seq(Cells) /\ Len(calltodo') = n
      /\ \A i \in 1..n : calltodo'[i].c_func = calltodo[i].c_func
      /\ \A i \in 0..n : Left(calltodo')[i] = IF Left(calltodo)[i] = 0 THEN 0
                                              ELSE Left(calltodo)[i] - 1
  BY <1>1, HardclockLeft
<1>3. /\ p \in Seq(Things) /\ Len(p) = n /\ n \in Nat
      /\ \A i \in 1..n : /\ p[i].func = calltodo[i].c_func
                         /\ p[i].left = Left(calltodo)[i]
  BY <1>1, PendingIs
<1>4. /\ r \in Seq(Things) /\ Len(r) = n
      /\ \A i \in 1..n : /\ r[i].func = calltodo'[i].c_func
                         /\ r[i].left = Left(calltodo')[i]
  BY <1>2, PendingIs
<1> HIDE DEF p, r
<1>5. DOMAIN p = 1..n /\ \A i \in 1..n : p[i] \in Things
  BY <1>3
<1>6. ASSUME NEW i \in 1..n
      PROVE  u[i] \in Things /\ u[i].func = r[i].func /\ u[i].left = r[i].left
  <2>1. u[i] = [p[i] EXCEPT !.left = Max({p[i].left - 1, 0})]
    BY <1>5
  <2>2. p[i].left \in Nat /\ p[i] \in Things
    BY <1>5 DEF Things
  <2>3. Max({p[i].left - 1, 0}) = IF p[i].left = 0 THEN 0 ELSE p[i].left - 1
    BY <2>2, MaxOf
  <2> HIDE DEF u
  <2>4. u[i].func = p[i].func /\ u[i].left = Max({p[i].left - 1, 0}) /\ u[i] \in Things
    BY <2>1, <2>2, <2>3 DEF Things
  <2> QED
    BY <1>2, <1>3, <1>4, <2>3, <2>4
<1>7. u \in Seq(Things) /\ Len(u) = n
  <2>1. u = [i \in 1..n |-> u[i]]
    BY <1>5
  <2> HIDE DEF u
  <2>2. \A i \in 1..n : u[i] \in Things
    BY <1>6
  <2>3. n \in Nat
    BY <1>3
  <2> QED
    BY <2>1, <2>2, <2>3
<1>8. r = u
  <2> HIDE DEF u
  <2> QED
    BY <1>4, <1>6, <1>7, SameThings
<1> QED
  BY <1>8 DEF p, r, hardclock

\* The pending list of a queue without its first entry is its own tail.
LEMMA PoppedPending ==
  ASSUME NEW q \in Seq(Cells), NEW q1 \in Seq(Cells), Len(q) > 0, Len(q1) = Len(q) - 1,
         \A i \in 1..Len(q) - 1 : q1[i] = q[i + 1],
         \A i \in 0..Len(q) - 1 : Left(q1)[i] = Left(q)[i + 1]
  PROVE  Pending(q1) = Tail(Pending(q))
<1> DEFINE p == Pending(q)
           r == Pending(q1)
           n == Len(q)
<1>1. /\ p \in Seq(Things) /\ Len(p) = n /\ n \in Nat
      /\ \A i \in 1..n : p[i].func = q[i].c_func /\ p[i].left = Left(q)[i]
  BY PendingIs
<1>2. /\ r \in Seq(Things) /\ Len(r) = n - 1
      /\ \A i \in 1..n - 1 : r[i].func = q1[i].c_func /\ r[i].left = Left(q1)[i]
  BY PendingIs
<1> HIDE DEF p, r
<1>3. /\ Tail(p) \in Seq(Things) /\ Len(Tail(p)) = n - 1
      /\ \A i \in 1..n - 1 : Tail(p)[i] = p[i + 1]
  BY <1>1, HeadTailProperties
<1> DEFINE t == Tail(p)
<1> HIDE DEF t
<1>4. /\ t \in Seq(Things) /\ Len(t) = n - 1
      /\ \A i \in 1..n - 1 : t[i] = p[i + 1]
  BY <1>3 DEF t
<1>5. ASSUME NEW i \in 1..n - 1 PROVE r[i].func = t[i].func /\ r[i].left = t[i].left
  <2>1. i + 1 \in 1..n /\ i \in 0..n - 1
    BY <1>1
  <2>2. p[i + 1].func = q[i + 1].c_func /\ p[i + 1].left = Left(q)[i + 1]
    BY <1>1, <2>1
  <2>3. r[i].func = q[i + 1].c_func /\ r[i].left = Left(q)[i + 1]
    BY <1>2, <2>1
  <2>4. t[i] = p[i + 1]
    BY <1>4
  <2> QED
    BY <2>2, <2>3, <2>4
<1>6. r = t
  BY <1>2, <1>4, <1>5, SameThings
<1> QED
  BY <1>6 DEF p, r, t

\* To take a due entry off is the call of Timers.
LEMMA LoopCalls ==
  ASSUME IInv, HeadDue, calltodo' = Tail(calltodo)
  PROVE  /\ Pending(calltodo) # <<>> /\ Pending(calltodo)[1].left = 0
         /\ Pending(calltodo') = Tail(Pending(calltodo))
<1>1. calltodo \in Seq(Cells) /\ OverdueFirst
  BY DEF IInv, TypeOK, Cells
<1>2. calltodo' \in Seq(Cells) /\ Len(calltodo') = Len(calltodo) - 1
  BY <1>1, SoftclockLeft, Zenon
<1>3. Left(calltodo)[1] = 0
  BY <1>1, SoftclockLeft, Zenon
<1>4. /\ \A i \in 1..Len(calltodo) - 1 : calltodo'[i] = calltodo[i + 1]
      /\ \A i \in 0..Len(calltodo) - 1 : Left(calltodo')[i] = Left(calltodo)[i + 1]
  BY <1>1, SoftclockLeft, Zenon
<1>5. Len(calltodo) > 0
  <2>1. calltodo # <<>>
    BY DEF HeadDue
  <2> QED
    BY <1>1, <2>1, EmptySeq
<1>6. Pending(calltodo') = Tail(Pending(calltodo))
  BY <1>1, <1>2, <1>4, <1>5, PoppedPending, Zenon
<1>7. Len(Pending(calltodo)) = Len(calltodo) /\ Pending(calltodo)[1].left = Left(calltodo)[1]
  BY <1>1, <1>5, PendingIs
<1>8. Pending(calltodo) # <<>>
  BY <1>5, <1>7
<1> QED
  BY <1>3, <1>6, <1>7, <1>8

\* timeout is the insertion of Timers.
LEMMA TimeoutSets ==
  ASSUME IInv, NEW f \in Funcs, NEW t0 \in 0..MaxTicks, timeout(f, t0)
  PROVE  LET p == Pending(calltodo)
         IN  \E t \in 1..MaxTicks, k \in 1..Len(p) + 1 :
               /\ \A i \in 1..k - 1 : p[i].left < t
               /\ \A i \in k..Len(p) : p[i].left >= t
               /\ Pending(calltodo') = InsertAt(p, k, [func |-> f, left |-> t])
<1> DEFINE p == Pending(calltodo)
           r == Pending(calltodo')
           n == Len(calltodo)
<1>1. calltodo \in Seq(Cells) /\ OverdueFirst /\ Bounded
  BY DEF IInv, TypeOK, Cells
<1>2. PICK t \in 1..MaxTicks, k \in 1..n + 1 :
           /\ calltodo' \in Seq(Cells) /\ Len(calltodo') = n + 1
           /\ calltodo'[k].c_func = f /\ Left(calltodo')[k] = t
           /\ \A i \in 1..k - 1 : /\ calltodo'[i].c_func = calltodo[i].c_func
                                  /\ Left(calltodo')[i] = Left(calltodo)[i]
                                  /\ Left(calltodo)[i] < t
           /\ \A i \in k..n : /\ calltodo'[i + 1].c_func = calltodo[i].c_func
                              /\ Left(calltodo')[i + 1] = Left(calltodo)[i]
                              /\ Left(calltodo)[i] >= t
  <2>1. PICK t \in 1..MaxTicks, k \in 1..Len(calltodo) + 1 :
          t = Max({t0, 1}) /\ Joins(calltodo, calltodo', f, t, k) /\ OverdueFirst'
    BY <1>1, TimeoutLeft
  <2> QED
    BY <2>1 DEF Joins
<1>3. /\ p \in Seq(Things) /\ Len(p) = n /\ n \in Nat
      /\ \A i \in 1..n : /\ p[i].func = calltodo[i].c_func
                         /\ p[i].left = Left(calltodo)[i]
  BY <1>1, PendingIs
<1>4. /\ r \in Seq(Things) /\ Len(r) = n + 1
      /\ \A i \in 1..n + 1 : /\ r[i].func = calltodo'[i].c_func
                             /\ r[i].left = Left(calltodo')[i]
  BY <1>2, PendingIs
<1> HIDE DEF p, r
<1> DEFINE e == [func |-> f, left |-> t]
<1>5. e \in Things
  BY DEF Things
<1> DEFINE s == InsertAt(p, k, e)
<1>6. s \in Seq(Things) /\ InsertedAt(p, k, e, s)
  <2> HIDE DEF e
  <2> QED
    BY <1>3, <1>5, Inserted
<1> HIDE DEF s
<1>7. ASSUME NEW i \in 1..n + 1
      PROVE  r[i].func = s[i].func /\ r[i].left = s[i].left
  <2>0. /\ r[i].func = calltodo'[i].c_func /\ r[i].left = Left(calltodo')[i]
        /\ i \in Int /\ k \in Int
    BY <1>4
  <2>1. CASE i < k
    <3>1. i \in 1..k - 1 /\ i \in 1..n
      BY <1>3, <2>1
    <3>2. s[i] = p[i]
      BY <1>3, <1>6, <2>1 DEF InsertedAt
    <3> QED
      BY <1>2, <1>3, <2>0, <3>1, <3>2
  <2>2. CASE i = k
    <3>1. s[i] = e
      BY <1>3, <1>6, <2>2 DEF InsertedAt
    <3> QED
      BY <1>2, <2>0, <2>2, <3>1
  <2>3. CASE i > k
    <3>1. i - 1 \in k..n /\ i - 1 \in 1..n /\ (i - 1) + 1 = i
      BY <1>3, <2>3
    <3>2. s[i] = p[i - 1]
      BY <1>3, <1>6, <2>3 DEF InsertedAt
    <3>3. calltodo'[i].c_func = calltodo[i - 1].c_func /\ Left(calltodo')[i] = Left(calltodo)[i - 1]
      BY <1>2, <3>1
    <3> QED
      BY <1>3, <2>0, <3>1, <3>2, <3>3
  <2> QED
    BY <2>0, <2>1, <2>2, <2>3
<1>8. r = s
  BY <1>3, <1>4, <1>6, <1>7, SameThings DEF InsertedAt
<1>9. /\ \A i \in 1..k - 1 : p[i].left < t
      /\ \A i \in k..Len(p) : p[i].left >= t
  <2>1. \A i \in 1..k - 1 : i \in 1..n
    BY <1>3
  <2>2. \A i \in k..n : i \in 1..n
    BY <1>3
  <2> QED
    BY <1>2, <1>3, <2>1, <2>2
<1> QED
  BY <1>3, <1>8, <1>9 DEF p, r, s

\* untimeout is the cancellation of Timers.
LEMMA UntimeoutCancels ==
  ASSUME IInv, NEW f \in Funcs, untimeout(f)
  PROVE  LET p == Pending(calltodo)
             k == SelectInSeq(p, LAMBDA e : e.func = f)
         IN  Pending(calltodo') = IF k = 0 THEN p ELSE RemoveAt(p, k)
<1> DEFINE p == Pending(calltodo)
           r == Pending(calltodo')
           n == Len(calltodo)
<1>1. calltodo \in Seq(Cells) /\ OverdueFirst /\ Bounded
  BY DEF IInv, TypeOK, Cells
<1>2. PICK k \in 1..n :
           /\ k = FirstOf(calltodo, f)
           /\ calltodo' \in Seq(Cells) /\ Len(calltodo') = n - 1
           /\ \A i \in 1..n - 1 :
                LET j == IF i < k THEN i ELSE i + 1
                IN  /\ calltodo'[i].c_func = calltodo[j].c_func
                    /\ Left(calltodo')[i] = Left(calltodo)[j]
  BY <1>1, UntimeoutLeft
<1>3. /\ p \in Seq(Things) /\ Len(p) = n /\ n \in Nat
      /\ \A i \in 1..n : /\ p[i].func = calltodo[i].c_func
                         /\ p[i].left = Left(calltodo)[i]
  BY <1>1, PendingIs
<1>4. /\ r \in Seq(Things) /\ Len(r) = n - 1
      /\ \A i \in 1..n - 1 : /\ r[i].func = calltodo'[i].c_func
                             /\ r[i].left = Left(calltodo')[i]
  BY <1>2, PendingIs
<1> HIDE DEF p, r
<1>5. SelectInSeq(p, LAMBDA e : e.func = f) = k
  <2>1. {i \in 1..Len(p) : p[i].func = f} = {i \in 1..n : calltodo[i].c_func = f}
    BY <1>3
  <2> QED
    BY <1>2, <2>1 DEF SelectInSeq, FirstOf
<1>6. k \in 1..Len(p) /\ k # 0
  BY <1>2, <1>3
<1> DEFINE s == RemoveAt(p, k)
<1>7. /\ s \in Seq(Things) /\ Len(s) = n - 1
      /\ \A i \in 1..n - 1 : s[i] = IF i < k THEN p[i] ELSE p[i + 1]
  BY <1>3, <1>6, Removed
<1> HIDE DEF s
<1>8. ASSUME NEW i \in 1..n - 1
      PROVE  r[i].func = s[i].func /\ r[i].left = s[i].left
  <2>1. /\ r[i].func = calltodo'[i].c_func /\ r[i].left = Left(calltodo')[i]
        /\ i \in 1..n /\ i + 1 \in 1..n
    BY <1>3, <1>4
  <2>2. CASE i < k
    BY <1>2, <1>3, <1>7, <2>1, <2>2
  <2>3. CASE ~ (i < k)
    BY <1>2, <1>3, <1>7, <2>1, <2>3
  <2> QED
    BY <2>2, <2>3
<1>9. r = s
  BY <1>4, <1>7, <1>8, SameThings
<1> QED
  BY <1>5, <1>6, <1>9 DEF p, r, s

\* The list of deltas implements a queue of times left: nothing is called
\* early or out of order, and no tick, insertion or removal changes the time
\* left to another entry.
THEOREM Refinement == Spec => ImplementsTimers
<1> DEFINE p == Pending(calltodo)
\* Timers has the operators on sets and sequences of its own instance.
<1>1. /\ \A S : T!Max(S) = Max(S)
      /\ \A q, k, e : T!InsertAt(q, k, e) = InsertAt(q, k, e)
      /\ \A q, k : T!RemoveAt(q, k) = RemoveAt(q, k)
  BY DEF T!Max, Max, T!InsertAt, InsertAt, T!RemoveAt, RemoveAt
<1>2. Init => T!Init
  BY DEF Init, T!Init, Pending
<1>3. ASSUME IInv, [Next]_vars PROVE [T!Next]_<<p, time>>
  <2>1. CASE hardclock
    <3>1. /\ time' = 1 - time
          /\ p' = [i \in DOMAIN p |-> [p[i] EXCEPT !.left = Max({@ - 1, 0})]]
      BY <1>3, <2>1, HardclockTicks
    <3>2. T!Tick
      BY <1>1, <3>1 DEF T!Tick
    <3> QED
      BY <3>2 DEF T!Next
  <2>2. CASE softclock_loop /\ UNCHANGED time
    <3>1. CASE HeadDue /\ calltodo' = Tail(calltodo)
      <4>1. T!Call
        BY <1>3, <2>2, <3>1, LoopCalls DEF T!Call
      <4> QED
        BY <4>1 DEF T!Next
    <3>2. CASE UNCHANGED calltodo
      BY <2>2, <3>2
    <3> QED
      BY <2>2, <3>1, <3>2 DEF softclock_loop
  <2>3. ASSUME NEW f \in Funcs, NEW t0 \in 0..MaxTicks, timeout(f, t0)
        PROVE  T!Next
    <3>1. PICK t \in 1..MaxTicks, k \in 1..Len(p) + 1 :
               /\ \A i \in 1..k - 1 : p[i].left < t
               /\ \A i \in k..Len(p) : p[i].left >= t
               /\ p' = InsertAt(p, k, [func |-> f, left |-> t])
      BY <1>3, <2>3, TimeoutSets
    <3>2. UNCHANGED time
      BY <2>3 DEF timeout
    <3>3. p' = T!InsertAt(p, k, [func |-> f, left |-> t])
      BY <1>1, <3>1
    <3>4. T!Set(f, t)
      BY <3>1, <3>2, <3>3 DEF T!Set
    <3> QED
      BY <3>4 DEF T!Next
  <2>4. ASSUME NEW f \in Funcs, untimeout(f) PROVE T!Next
    <3> DEFINE k == SelectInSeq(p, LAMBDA e : e.func = f)
    <3>1. p' = IF k = 0 THEN p ELSE RemoveAt(p, k)
      BY <1>3, <2>4, UntimeoutCancels
    <3>2. k = T!SelectInSeq(p, LAMBDA e : e.func = f)
      BY DEF T!SelectInSeq, SelectInSeq, T!Min, Min
    <3>3. UNCHANGED time
      BY <2>4 DEF untimeout
    <3> HIDE DEF k
    <3>4. T!Cancel(f)
      BY <1>1, <3>1, <3>2, <3>3 DEF T!Cancel
    <3> QED
      BY <3>4 DEF T!Next
  <2>5. CASE UNCHANGED vars
    BY <2>5 DEF vars
  <2> QED
    BY <1>3, <2>1, <2>2, <2>3, <2>4, <2>5 DEF Next, softclock, softclock_again
<1> QED
  BY <1>2, <1>3, Invariance, PTL DEF Spec, T!Spec, ImplementsTimers
=============================================================================
