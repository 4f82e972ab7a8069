---------------------------- MODULE VnodeProofs ----------------------------
(* Proofs about the life of vnodes, for any number of processes, vnodes, files *)
(* and names.                                                                  *)
EXTENDS Vnode, FiniteSetTheorems, SequenceTheorems, TLAPS

-----------------------------------------------------------------------------
(* The free list as a sequence without duplicates.                           *)

Once(s) == \A i, j \in 1 .. Len(s) : s[i] = s[j] => i = j

LEMMA RangeOf ==
  ASSUME NEW S, NEW s \in Seq(S)
  PROVE  \A x : x \in Range(s) <=> \E i \in 1 .. Len(s) : s[i] = x
BY DEF Range

\* A vnode at the end of the list,
LEMMA AppendOnce ==
  ASSUME NEW S, NEW s \in Seq(S), Once(s), NEW v \in S, v \notin Range(s)
  PROVE  /\ Append(s, v) \in Seq(S) /\ Once(Append(s, v))
         /\ Range(Append(s, v)) = Range(s) \cup {v}
<1> DEFINE t == Append(s, v)
<1>1. /\ t \in Seq(S) /\ Len(t) = Len(s) + 1 /\ t[Len(s) + 1] = v /\ Len(s) \in Nat
      /\ \A i \in 1 .. Len(s) : t[i] = s[i]
  OBVIOUS
<1> HIDE DEF t
<1>2. Once(t)
  BY <1>1, RangeOf DEF Once
<1>3. \A x : x \in Range(t) <=> \E i \in 1 .. Len(s) + 1 : t[i] = x
  BY <1>1, RangeOf
<1>4. \A x : x \in Range(t) <=> x \in Range(s) \/ x = v
  BY <1>1, <1>3, RangeOf
<1> QED
  BY <1>1, <1>2, <1>4 DEF t

\* the first of the list taken off,
LEMMA TailOnce ==
  ASSUME NEW S, NEW s \in Seq(S), Once(s), s # <<>>
  PROVE  /\ Head(s) \in Range(s) /\ Head(s) \in S /\ Tail(s) \in Seq(S)
         /\ Once(Tail(s)) /\ Range(Tail(s)) = Range(s) \ {Head(s)}
<1> DEFINE t == Tail(s)
<1>1. /\ Len(s) \in Nat \ {0} /\ Head(s) = s[1] /\ Head(s) \in S
      /\ t \in Seq(S) /\ Len(t) = Len(s) - 1
      /\ \A i \in 1 .. Len(s) - 1 : t[i] = s[i + 1]
  OBVIOUS
<1> HIDE DEF t
<1>2. Head(s) \in Range(s)
  BY <1>1, RangeOf
<1>3. Once(t)
  BY <1>1 DEF Once
<1>4. ASSUME NEW x \in Range(t) PROVE x \in Range(s) \ {Head(s)}
  <2>1. PICK i \in 1 .. Len(s) - 1 : s[i + 1] = x
    BY <1>1, RangeOf
  <2>2. i + 1 \in 1 .. Len(s) /\ i + 1 # 1
    BY <1>1
  <2> QED
    BY <1>1, <2>1, <2>2, RangeOf DEF Once
<1>5. ASSUME NEW x \in Range(s) \ {Head(s)} PROVE x \in Range(t)
  <2>1. PICK i \in 1 .. Len(s) : s[i] = x
    BY RangeOf
  <2>2. i - 1 \in 1 .. Len(s) - 1 /\ t[i - 1] = x
    BY <1>1, <2>1
  <2> QED
    BY <1>1, <2>2, RangeOf
<1> QED
  BY <1>1, <1>2, <1>3, <1>4, <1>5 DEF t

\* a vnode at its head,
LEMMA FirstOnce ==
  ASSUME NEW S, NEW s \in Seq(S), Once(s), NEW v \in S, v \notin Range(s)
  PROVE  /\ <<v>> \o s \in Seq(S) /\ Once(<<v>> \o s)
         /\ Range(<<v>> \o s) = Range(s) \cup {v}
<1> DEFINE t == <<v>> \o s
<1>1. /\ t \in Seq(S) /\ Len(t) = Len(s) + 1 /\ t[1] = v /\ Len(s) \in Nat
      /\ \A i \in 2 .. Len(s) + 1 : t[i] = s[i - 1]
  OBVIOUS
<1>2. Once(t)
  BY <1>1, RangeOf DEF Once
<1> HIDE DEF t
<1>3. ASSUME NEW x \in Range(t) PROVE x \in Range(s) \cup {v}
  <2>1. PICK i \in 1 .. Len(s) + 1 : t[i] = x
    BY <1>1, RangeOf
  <2>2. i = 1 \/ (i - 1 \in 1 .. Len(s) /\ s[i - 1] = x)
    BY <1>1, <2>1
  <2> QED
    BY <1>1, <2>1, <2>2, RangeOf
<1>4. ASSUME NEW x \in Range(s) PROVE x \in Range(t)
  <2>1. PICK i \in 1 .. Len(s) : s[i] = x
    BY RangeOf
  <2>2. i + 1 \in 1 .. Len(t) /\ t[i + 1] = x
    BY <1>1, <2>1
  <2> QED
    BY <1>1, <2>2, RangeOf
<1>5. v \in Range(t)
  BY <1>1, RangeOf
<1> QED
  BY <1>1, <1>2, <1>3, <1>4, <1>5 DEF t

\* and one taken out of it wherever it is.
LEMMA RemoveOnce ==
  ASSUME NEW S, NEW s \in Seq(S), Once(s), NEW v \in Range(s)
  PROVE  /\ RemoveFirst(s, v) \in Seq(S) /\ Once(RemoveFirst(s, v))
         /\ Range(RemoveFirst(s, v)) = Range(s) \ {v}
<1> DEFINE t == RemoveFirst(s, v)
<1>1. PICK k \in 1 .. Len(s) : s[k] = v
  BY RangeOf
<1>2. {i \in 1 .. Len(s) : s[i] = v} = {k} /\ Len(s) \in Nat
  BY <1>1 DEF Once
<1>3. SelectInSeq(s, LAMBDA w : w = v) = k
  BY <1>2 DEF SelectInSeq, Min
<1>4. t = SubSeq(s, 1, k - 1) \o SubSeq(s, k + 1, Len(s))
  BY <1>1, <1>3 DEF RemoveFirst, RemoveAt
<1>5. /\ t \in Seq(S) /\ Len(t) = Len(s) - 1
      /\ \A i \in 1 .. Len(s) - 1 : t[i] = IF i < k THEN s[i] ELSE s[i + 1]
  <2> DEFINE a == SubSeq(s, 1, k - 1)
             b == SubSeq(s, k + 1, Len(s))
  <2>1. a \in Seq(S) /\ Len(a) = k - 1 /\ \A i \in 1 .. k - 1 : a[i] = s[i]
    BY <1>2, SubSeqProperties, ElementOfSeq
  <2>2. b \in Seq(S) /\ Len(b) = Len(s) - k /\ \A i \in 1 .. Len(s) - k : b[i] = s[k + i]
    BY <1>2, SubSeqProperties, ElementOfSeq
  <2> HIDE DEF a, b
  <2>3. /\ a \o b \in Seq(S) /\ Len(a \o b) = Len(a) + Len(b)
        /\ \A i \in 1 .. Len(a) + Len(b) :
             (a \o b)[i] = IF i <= Len(a) THEN a[i] ELSE b[i - Len(a)]
    BY <2>1, <2>2, ConcatProperties
  <2>4. t = a \o b
    BY <1>4 DEF a, b
  <2> HIDE DEF t
  <2>5. Len(a) + Len(b) = Len(s) - 1
    BY <1>2, <2>1, <2>2
  <2>6. ASSUME NEW i \in 1 .. Len(s) - 1, i < k PROVE t[i] = s[i]
    BY <1>2, <2>1, <2>2, <2>3, <2>4, <2>5, <2>6
  <2>7. ASSUME NEW i \in 1 .. Len(s) - 1, ~(i < k) PROVE t[i] = s[i + 1]
    <3>1. i - Len(a) \in 1 .. Len(s) - k /\ k + (i - Len(a)) = i + 1 /\ ~(i <= Len(a))
      BY <1>2, <2>1, <2>7
    <3>2. t[i] = b[i - Len(a)]
      BY <2>3, <2>4, <2>5, <3>1
    <3> QED
      BY <2>2, <3>1, <3>2
  <2> QED
    BY <2>3, <2>4, <2>5, <2>6, <2>7
<1> HIDE DEF t
<1>6. Once(t)
  <2> SUFFICES ASSUME NEW i \in 1 .. Len(s) - 1, NEW j \in 1 .. Len(s) - 1, t[i] = t[j]
               PROVE  i = j
    BY <1>5 DEF Once
  <2> DEFINE at(x) == IF x < k THEN x ELSE x + 1
  <2>1. at(i) \in 1 .. Len(s) /\ at(j) \in 1 .. Len(s)
    BY <1>2
  <2>2. t[i] = s[at(i)] /\ t[j] = s[at(j)]
    BY <1>5
  <2>3. at(i) = at(j)
    <3> HIDE DEF at
    <3> QED
      BY <2>1, <2>2 DEF Once
  <2> QED
    BY <1>2, <2>3
<1>7. Range(t) \subseteq Range(s) \ {v}
  BY <1>1, <1>2, <1>5, RangeOf DEF Once
<1>8. ASSUME NEW x \in Range(s) \ {v} PROVE x \in Range(t)
  <2>1. PICK i \in 1 .. Len(s) : s[i] = x
    BY RangeOf
  <2>2. CASE i < k
    <3>1. i \in 1 .. Len(t) /\ t[i] = x
      BY <1>2, <1>5, <2>1, <2>2
    <3> QED
      BY <1>5, <3>1, RangeOf
  <2>3. CASE i > k
    <3>1. i - 1 \in 1 .. Len(t) /\ t[i - 1] = x
      BY <1>2, <1>5, <2>1, <2>3
    <3> QED
      BY <1>5, <3>1, RangeOf
  <2> QED
    BY <1>1, <1>2, <2>1, <2>2, <2>3
<1> QED
  BY <1>5, <1>6, <1>7, <1>8 DEF t

-----------------------------------------------------------------------------
(* The name cache.                                                           *)

Slot == Vnodes \cup {"negative", "stale"}

\* At most the newest entry of a name is negative.
NegativeFirst(s) == \A j \in 2 .. Len(s) : s[j] # "negative"

LEMMA TailIsRest ==
  ASSUME NEW s \in Seq(Slot), s # <<>>
  PROVE  NegativeFirst(s) <=> "negative" \notin Range(Tail(s))
<1> DEFINE t == Tail(s)
<1>1. /\ Len(s) \in Nat \ {0} /\ t \in Seq(Slot) /\ Len(t) = Len(s) - 1
      /\ \A i \in 1 .. Len(s) - 1 : t[i] = s[i + 1]
  OBVIOUS
<1> HIDE DEF t
<1>2. \A x : x \in Range(t) <=> \E i \in 1 .. Len(s) - 1 : s[i + 1] = x
  BY <1>1, RangeOf
<1>3. ASSUME NEW j \in 2 .. Len(s) PROVE j - 1 \in 1 .. Len(s) - 1 /\ (j - 1) + 1 = j
  BY <1>1
<1>4. ASSUME NEW i \in 1 .. Len(s) - 1 PROVE i + 1 \in 2 .. Len(s)
  BY <1>1
<1> QED
  BY <1>2, <1>3, <1>4 DEF NegativeFirst, t

\* t has the entries of s, or those that are left of them, in their order.
Left(t, s) ==
  \A j \in 1 .. Len(t) : t[j] = "stale" \/ \E k \in 1 .. Len(s) : k >= j /\ t[j] = s[k]

LEMMA LeftSound ==
  ASSUME NEW s \in Seq(Slot), NEW t \in Seq(Slot), Left(t, s)
  PROVE  /\ Range(t) \subseteq Range(s) \cup {"stale"}
         /\ NegativeFirst(s) => NegativeFirst(t)
<1>1. Len(s) \in Nat /\ Len(t) \in Nat
  OBVIOUS
<1>2. Range(t) \subseteq Range(s) \cup {"stale"}
  BY RangeOf DEF Left
<1>3. ASSUME NegativeFirst(s), NEW j \in 2 .. Len(t) PROVE t[j] # "negative"
  <2>1. j \in 1 .. Len(t) /\ j \in Int /\ j >= 2
    BY <1>1
  <2>2. CASE t[j] = "stale"
    BY <2>2
  <2>3. CASE \E k \in 1 .. Len(s) : k >= j /\ t[j] = s[k]
    <3>1. PICK k \in 1 .. Len(s) : k >= j /\ t[j] = s[k]
      BY <2>3
    <3>2. k \in 2 .. Len(s)
      BY <1>1, <2>1, <3>1
    <3> QED
      BY <1>3, <3>1, <3>2 DEF NegativeFirst
  <2> QED
    BY <2>1, <2>2, <2>3 DEF Left
<1> QED
  BY <1>2, <1>3 DEF NegativeFirst

LEMMA TailLeft ==
  ASSUME NEW s \in Seq(Slot), s # <<>>
  PROVE  Tail(s) \in Seq(Slot) /\ Left(Tail(s), s)
<1> DEFINE t == Tail(s)
<1>1. /\ Len(s) \in Nat \ {0} /\ t \in Seq(Slot) /\ Len(t) = Len(s) - 1
      /\ \A i \in 1 .. Len(s) - 1 : t[i] = s[i + 1]
  OBVIOUS
<1> HIDE DEF t
<1>2. ASSUME NEW j \in 1 .. Len(t) PROVE \E k \in 1 .. Len(s) : k >= j /\ t[j] = s[k]
  <2>1. j + 1 \in 1 .. Len(s) /\ j + 1 >= j /\ t[j] = s[j + 1]
    BY <1>1
  <2> QED
    BY <2>1
<1> QED
  BY <1>1, <1>2 DEF Left, t

LEMMA RemoveLeft ==
  ASSUME NEW s \in Seq(Slot), NEW k \in DOMAIN s
  PROVE  RemoveAt(s, k) \in Seq(Slot) /\ Left(RemoveAt(s, k), s)
<1> DEFINE t == RemoveAt(s, k)
           a == SubSeq(s, 1, k - 1)
           b == SubSeq(s, k + 1, Len(s))
<1>1. Len(s) \in Nat /\ k \in 1 .. Len(s)
  OBVIOUS
<1>2. a \in Seq(Slot) /\ Len(a) = k - 1 /\ \A i \in 1 .. k - 1 : a[i] = s[i]
  BY <1>1, SubSeqProperties, ElementOfSeq
<1>3. b \in Seq(Slot) /\ Len(b) = Len(s) - k /\ \A i \in 1 .. Len(s) - k : b[i] = s[k + i]
  BY <1>1, SubSeqProperties, ElementOfSeq
<1>4. t = a \o b
  BY DEF RemoveAt
<1> HIDE DEF t, a, b
<1>5. /\ a \o b \in Seq(Slot) /\ Len(a \o b) = Len(a) + Len(b)
      /\ \A i \in 1 .. Len(a) + Len(b) :
           (a \o b)[i] = IF i <= Len(a) THEN a[i] ELSE b[i - Len(a)]
  BY <1>2, <1>3, ConcatProperties
<1>6. Len(t) = Len(s) - 1
  BY <1>1, <1>2, <1>3, <1>4, <1>5
<1>7. ASSUME NEW j \in 1 .. Len(t) PROVE \E i \in 1 .. Len(s) : i >= j /\ t[j] = s[i]
  <2>1. CASE j <= k - 1
    <3>1. j \in 1 .. Len(s) /\ j >= j /\ t[j] = s[j]
      BY <1>1, <1>2, <1>3, <1>4, <1>5, <1>6, <2>1
    <3> QED
      BY <3>1
  <2>2. CASE ~(j <= k - 1)
    <3>1. j - Len(a) \in 1 .. Len(s) - k /\ k + (j - Len(a)) = j + 1 /\ ~(j <= Len(a))
      BY <1>1, <1>2, <1>6, <2>2
    <3>2. t[j] = b[j - Len(a)]
      BY <1>2, <1>3, <1>4, <1>5, <1>6, <3>1
    <3>3. j + 1 \in 1 .. Len(s) /\ j + 1 >= j /\ t[j] = s[j + 1]
      BY <1>1, <1>3, <1>6, <3>1, <3>2
    <3> QED
      BY <3>3
  <2> QED
    BY <2>1, <2>2
<1> QED
  BY <1>4, <1>5, <1>7 DEF Left, t

LEMMA ConsRange ==
  ASSUME NEW s \in Seq(Slot), NEW e \in Slot, "negative" \notin Range(s)
  PROVE  /\ Cons(e, s) \in Seq(Slot) /\ Range(Cons(e, s)) = {e} \cup Range(s)
         /\ NegativeFirst(Cons(e, s))
<1> DEFINE t == Cons(e, s)
<1>1. /\ t \in Seq(Slot) /\ Len(t) = Len(s) + 1 /\ t[1] = e /\ Len(s) \in Nat
      /\ \A i \in 2 .. Len(s) + 1 : t[i] = s[i - 1]
  BY DEF Cons
<1> HIDE DEF t
<1>2. \A i \in 2 .. Len(s) + 1 : i - 1 \in 1 .. Len(s)
  BY <1>1
<1>3. NegativeFirst(t)
  BY <1>1, <1>2, RangeOf DEF NegativeFirst
<1>4. ASSUME NEW x \in Range(t) PROVE x \in {e} \cup Range(s)
  <2>1. PICK i \in 1 .. Len(s) + 1 : t[i] = x
    BY <1>1, RangeOf
  <2>2. i = 1 \/ (i - 1 \in 1 .. Len(s) /\ s[i - 1] = x)
    BY <1>1, <2>1
  <2> QED
    BY <1>1, <2>1, <2>2, RangeOf
<1>5. ASSUME NEW x \in Range(s) PROVE x \in Range(t)
  <2>1. PICK i \in 1 .. Len(s) : s[i] = x
    BY RangeOf
  <2>2. i + 1 \in 1 .. Len(t) /\ t[i + 1] = x
    BY <1>1, <2>1
  <2> QED
    BY <1>1, <2>2, RangeOf
<1>6. e \in Range(t)
  BY <1>1, RangeOf
<1> QED
  BY <1>1, <1>3, <1>4, <1>5, <1>6 DEF t

\* What is left of the name cache when entries are dropped, or go stale.
Shrunk(c) ==
  /\ c \in [Names -> Seq(Slot)]
  /\ \A n \in Names : /\ Range(c[n]) \subseteq Range(nc[n]) \cup {"stale"}
                      /\ NegativeFirst(c[n])

LEMMA CacheTypes ==
  ASSUME TypeOK, EntriesSound
  PROVE  Shrunk(nc) /\ numcache \in Nat
<1>0. nc \in [Names -> Seq(Vnodes \cup {"negative", "stale"})] /\ numcache \in Nat
  BY DEF TypeOK
<1>1. nc \in [Names -> Seq(Slot)] /\ numcache \in Nat
  BY <1>0 DEF Slot
<1>2. ASSUME NEW n \in Names PROVE NegativeFirst(nc[n])
  <2>1. nc[n] \in Seq(Slot)
    BY <1>1
  <2>2. CASE nc[n] = <<>>
    BY <2>2 DEF NegativeFirst
  <2>3. CASE nc[n] # <<>>
    BY <2>1, <2>3, TailIsRest DEF EntriesSound
  <2> QED
    BY <2>2, <2>3
<1> QED
  BY <1>1, <1>2 DEF Shrunk

LEMMA OneLeft ==
  ASSUME Shrunk(nc), NEW c, NEW n \in Names, NEW t \in Seq(Slot), Left(t, nc[n]),
         c = [nc EXCEPT ![n] = t]
  PROVE  Shrunk(c)
<1>1. nc \in [Names -> Seq(Slot)] /\ \A m \in Names : NegativeFirst(nc[m])
  BY DEF Shrunk
<1>2. c \in [Names -> Seq(Slot)] /\ \A m \in Names : c[m] = IF m = n THEN t ELSE nc[m]
  BY <1>1
<1>3. nc[n] \in Seq(Slot)
  BY <1>1
<1>4. Range(t) \subseteq Range(nc[n]) \cup {"stale"} /\ NegativeFirst(t)
  BY <1>1, <1>3, LeftSound
<1> QED
  BY <1>1, <1>2, <1>4 DEF Shrunk

\* A lookup drops the newest entry of its name: no negative one is left of it.
LEMMA DroppedShrunk ==
  ASSUME Shrunk(nc), NEW n \in Names
  PROVE  Shrunk(Dropped(n)) /\ "negative" \notin Range(Dropped(n)[n])
<1>1. nc \in [Names -> Seq(Slot)] /\ nc[n] \in Seq(Slot) /\ NegativeFirst(nc[n])
  BY DEF Shrunk
<1>2. CASE nc[n] = <<>>
  BY <1>1, <1>2 DEF Dropped, Range
<1>3. CASE nc[n] # <<>>
  <2>1. Dropped(n) = [nc EXCEPT ![n] = Tail(nc[n])] /\ Dropped(n)[n] = Tail(nc[n])
    BY <1>1, <1>3 DEF Dropped
  <2>2. "negative" \notin Range(Tail(nc[n]))
    BY <1>1, <1>3, TailIsRest
  <2> QED
    BY <1>1, <1>3, <2>1, <2>2, TailLeft, OneLeft
<1> QED
  BY <1>2, <1>3

LEMMA RecycledShrunk ==
  ASSUME Shrunk(nc), NEW c \in Recycled
  PROVE  Shrunk(c)
<1>1. nc \in [Names -> Seq(Slot)]
  BY DEF Shrunk
<1>2. CASE c = nc
  BY <1>2
<1>3. CASE c # nc
  <2>1. PICK e \in Entries : c = [nc EXCEPT ![e[1]] = RemoveAt(@, e[2])]
    BY <1>3 DEF Recycled
  <2>2. PICK n \in Names : e \in {n} \X DOMAIN nc[n]
    BY DEF Entries
  <2>3. e[1] = n /\ e[2] \in DOMAIN nc[n] /\ nc[n] \in Seq(Slot)
    BY <1>1, <2>2
  <2>4. c = [nc EXCEPT ![n] = RemoveAt(nc[n], e[2])]
    BY <1>1, <2>1, <2>3
  <2> QED
    BY <2>3, <2>4, RemoveLeft, OneLeft
<1> QED
  BY <1>2, <1>3

LEMMA PurgedShrunk ==
  ASSUME Shrunk(nc), NEW v \in Vnodes
  PROVE  Shrunk(cache_purge(v)) /\ \A n \in Names : v \notin Range(cache_purge(v)[n])
<1>1. nc \in [Names -> Seq(Slot)] /\ \A n \in Names : NegativeFirst(nc[n])
  BY DEF Shrunk
<1>2. v # "stale"
  BY NoneFresh
<1>3. ASSUME NEW n \in Names
      PROVE  /\ cache_purge(v)[n] \in Seq(Slot) /\ v \notin Range(cache_purge(v)[n])
             /\ Range(cache_purge(v)[n]) \subseteq Range(nc[n]) \cup {"stale"}
             /\ NegativeFirst(cache_purge(v)[n])
  <2> DEFINE s == nc[n]
             t == [i \in 1 .. Len(s) |-> IF s[i] = v THEN "stale" ELSE s[i]]
  <2>1. s \in Seq(Slot) /\ Len(s) \in Nat /\ DOMAIN s = 1 .. Len(s)
    BY <1>1
  <2>2. cache_purge(v)[n] = t
    BY <2>1 DEF cache_purge
  <2>3. \A i \in 1 .. Len(s) : t[i] \in Slot /\ t[i] # v
    BY <1>2, <2>1, ElementOfSeq DEF Slot
  <2>4. t \in Seq(Slot) /\ Len(t) = Len(s)
    <3>1. t \in [1 .. Len(s) -> Slot]
      BY <2>3
    <3>2. t \in Seq(Slot)
      BY <2>1, <3>1, SeqDef
    <3> QED
      BY <2>1, <3>2
  <2>5. Left(t, s)
    <3>1. \A j \in 1 .. Len(s) : t[j] = "stale" \/ (j >= j /\ t[j] = s[j])
      BY <2>1
    <3> QED
      BY <2>4, <3>1 DEF Left
  <2> HIDE DEF t
  <2>6. v \notin Range(t)
    BY <2>3, <2>4, RangeOf
  <2> QED
    BY <1>1, <2>1, <2>2, <2>4, <2>5, <2>6, LeftSound
<1>4. cache_purge(v) \in [Names -> Seq(Slot)]
  BY <1>3 DEF cache_purge
<1> QED
  BY <1>3, <1>4 DEF Shrunk

LEMMA EmptyShrunk == Shrunk([n \in Names |-> <<>>])
<1>1. <<>> \in Seq(Slot) /\ Range(<<>>) = {} /\ NegativeFirst(<<>>)
  BY DEF Range, NegativeFirst
<1> QED
  BY <1>1 DEF Shrunk

\* What the invariant says of the cache stays so when entries are dropped; those of
\* vnodes that lose their inodes must be, and negative ones of new names.
LEMMA ShrinkStep ==
  ASSUME TypeOK, EntriesSound, Shrunk(nc'),
         \A n \in Names : "negative" \in Range(nc'[n]) => dir'[n] = dir[n],
         \A n \in Names, v \in ihash : v \in ihash' \/ v \notin Range(nc'[n])
  PROVE  /\ EntriesSound' /\ nc' \in [Names -> Seq(Vnodes \cup {"negative", "stale"})]
         /\ \A n \in Names : "negative" \in Range(nc'[n]) => "negative" \in Range(nc[n])
<1>1. nc' \in [Names -> Seq(Slot)]
  BY DEF Shrunk
<1>2. ASSUME NEW n \in Names
      PROVE  /\ "negative" \in Range(nc'[n]) => dir'[n] = NoFile
             /\ nc'[n] # <<>> => "negative" \notin Range(Tail(nc'[n]))
             /\ Range(nc'[n]) \cap Vnodes \subseteq ihash'
  <2>1. Range(nc'[n]) \subseteq Range(nc[n]) \cup {"stale"} /\ NegativeFirst(nc'[n])
    BY DEF Shrunk
  <2>2. nc'[n] # <<>> => "negative" \notin Range(Tail(nc'[n]))
    BY <1>1, <2>1, TailIsRest
  <2>3. "stale" \notin Vnodes /\ "stale" # "negative"
    BY NoneFresh
  <2> QED
    BY <2>1, <2>2, <2>3 DEF EntriesSound
<1>3. \A n \in Names : Range(nc'[n]) \subseteq Range(nc[n]) \cup {"stale"}
  BY DEF Shrunk
<1> QED
  BY <1>1, <1>2, <1>3 DEF EntriesSound, Slot

\* And when one is made that is right.
LEMMA EnterStep ==
  ASSUME TypeOK, EntriesSound, NEW c, Shrunk(c), NEW n \in Names, NEW e \in Slot,
         nc' = [c EXCEPT ![n] = Cons(e, @)], UNCHANGED <<dir, ihash>>,
         "negative" \notin Range(nc[n]), e = "negative" => dir[n] = NoFile,
         e \in Vnodes => e \in ihash
  PROVE  /\ EntriesSound' /\ nc' \in [Names -> Seq(Vnodes \cup {"negative", "stale"})]
         /\ \A m \in Names : "negative" \in Range(nc'[m]) =>
              "negative" \in Range(nc[m]) \/ (m = n /\ e = "negative")
<1>1. /\ c \in [Names -> Seq(Slot)] /\ c[n] \in Seq(Slot)
      /\ \A m \in Names : /\ Range(c[m]) \subseteq Range(nc[m]) \cup {"stale"}
                          /\ NegativeFirst(c[m])
  BY DEF Shrunk
<1>2. /\ Cons(e, c[n]) \in Seq(Slot) /\ Range(Cons(e, c[n])) = {e} \cup Range(c[n])
      /\ NegativeFirst(Cons(e, c[n]))
  BY <1>1, ConsRange
<1>3. /\ nc' \in [Names -> Seq(Slot)]
      /\ \A m \in Names : nc'[m] = IF m = n THEN Cons(e, c[n]) ELSE c[m]
  BY <1>1, <1>2
<1>4. /\ "stale" \notin Vnodes /\ "stale" # "negative" /\ "negative" \notin Vnodes
  BY NoneFresh
<1>5. ASSUME NEW m \in Names
      PROVE  /\ "negative" \in Range(nc'[m]) => dir'[m] = NoFile
             /\ nc'[m] # <<>> => "negative" \notin Range(Tail(nc'[m]))
             /\ Range(nc'[m]) \cap Vnodes \subseteq ihash'
             /\ "negative" \in Range(nc'[m]) =>
                  "negative" \in Range(nc[m]) \/ (m = n /\ e = "negative")
  <2>1. /\ Range(nc'[m]) \subseteq Range(nc[m]) \cup {"stale"} \cup IF m = n THEN {e} ELSE {}
        /\ NegativeFirst(nc'[m]) /\ nc'[m] \in Seq(Slot)
    BY <1>1, <1>2, <1>3
  <2>2. nc'[m] # <<>> => "negative" \notin Range(Tail(nc'[m]))
    BY <2>1, TailIsRest
  <2> QED
    BY <1>4, <2>1, <2>2 DEF EntriesSound
<1> QED
  BY <1>3, <1>5 DEF EntriesSound, Slot

\* cache_enter, with or without a sleep.
LEMMA Enters ==
  ASSUME IInv, NEW n \in Names, NEW e \in Slot, cache_enter(n, e) \/ cache_enter_malloc(n, e),
         UNCHANGED <<dir, ihash>>, "negative" \notin Range(nc[n]),
         e = "negative" => dir[n] = NoFile, e \in Vnodes => e \in ihash
  PROVE  /\ EntriesSound' /\ nc' \in [Names -> Seq(Vnodes \cup {"negative", "stale"})]
         /\ numcache' \in Nat
         /\ \A m \in Names : "negative" \in Range(nc'[m]) =>
              "negative" \in Range(nc[m]) \/ (m = n /\ e = "negative")
<1>1. TypeOK /\ EntriesSound
  BY DEF IInv
<1>2. Shrunk(nc) /\ numcache \in Nat
  BY <1>1, CacheTypes
<1>3. PICK c : Shrunk(c) /\ nc' = [c EXCEPT ![n] = Cons(e, @)]
  BY <1>2, RecycledShrunk DEF cache_enter, cache_enter_malloc
<1>4. numcache' \in Nat
  BY <1>2 DEF cache_enter, cache_enter_malloc
<1> QED
  BY <1>1, <1>3, <1>4, EnterStep
-----------------------------------------------------------------------------
(* The reference count.                                                      *)

LEMMA Constants ==
  /\ NoProc \notin Procs /\ NoVnode \notin Vnodes /\ NoFile \notin Files
  /\ \A v \in Vnodes : /\ NoChan # <<"vnode", v>> /\ NoChan # <<"inode", v>>
                       /\ v # "negative" /\ v # "stale"
BY NoneFresh

LEMMA FiniteUsers ==
  \A v : /\ IsFiniteSet(Opens(v)) /\ IsFiniteSet(Uses(v))
         /\ Cardinality(Opens(v)) \in Nat /\ Cardinality(Uses(v)) \in Nat
BY FiniteProcs, FS_Subset, FS_CardinalityType DEF Opens, Uses

\* A vnode with v_usecount 0 has no users,
LEMMA NoUsers ==
  ASSUME Counted, NEW v \in Vnodes
  PROVE  v_usecount[v] \in Nat /\ (v_usecount[v] = 0 <=> Opens(v) = {} /\ Uses(v) = {})
<1>1. /\ Cardinality(Opens(v)) = 0 <=> Opens(v) = {}
      /\ Cardinality(Uses(v)) = 0 <=> Uses(v) = {}
  BY FiniteUsers, FS_EmptySet
<1> QED
  BY <1>1, FiniteUsers DEF Counted

\* and one with v_usecount 1 no other than the one that is known.
LEMMA OnlyOpen ==
  ASSUME Counted, NEW v \in Vnodes, v_usecount[v] = 1, NEW p \in Opens(v)
  PROVE  Opens(v) = {p} /\ Uses(v) = {}
<1>1. Cardinality(Opens(v)) # 0
  BY FiniteUsers, FS_EmptySet
<1>2. Cardinality(Opens(v)) = 1 /\ Cardinality(Uses(v)) = 0
  BY <1>1, FiniteUsers DEF Counted
<1>3. Uses(v) = {}
  BY <1>2, FiniteUsers, FS_EmptySet
<1>4. /\ IsFiniteSet(Opens(v) \ {p})
      /\ Cardinality(Opens(v) \ {p}) = Cardinality(Opens(v)) - 1
  BY FiniteUsers, FS_RemoveElement
<1>5. Cardinality(Opens(v) \ {p}) = 0
  BY <1>2, <1>4
<1>6. Opens(v) \ {p} = {}
  BY <1>4, <1>5, FS_EmptySet
<1> QED
  BY <1>3, <1>6

LEMMA OnlyUse ==
  ASSUME Counted, NEW v \in Vnodes, v_usecount[v] = 1, NEW p \in Uses(v)
  PROVE  Uses(v) = {p} /\ Opens(v) = {}
<1>1. Cardinality(Uses(v)) # 0
  BY FiniteUsers, FS_EmptySet
<1>2. Cardinality(Uses(v)) = 1 /\ Cardinality(Opens(v)) = 0
  BY <1>1, FiniteUsers DEF Counted
<1>3. Opens(v) = {}
  BY <1>2, FiniteUsers, FS_EmptySet
<1>4. /\ IsFiniteSet(Uses(v) \ {p})
      /\ Cardinality(Uses(v) \ {p}) = Cardinality(Uses(v)) - 1
  BY FiniteUsers, FS_RemoveElement
<1>5. Cardinality(Uses(v) \ {p}) = 0
  BY <1>2, <1>4
<1>6. Uses(v) \ {p} = {}
  BY <1>4, <1>5, FS_EmptySet
<1> QED
  BY <1>3, <1>6

\* The count stays right when the users stay the same,
LEMMA SameUsers ==
  ASSUME Counted, UNCHANGED v_usecount,
         \A v \in Vnodes : Opens(v)' = Opens(v) /\ Uses(v)' = Uses(v)
  PROVE  Counted'
BY DEF Counted

\* when a process begins to use a vnode,
LEMMA OneMore ==
  ASSUME Counted, v_usecount \in [Vnodes -> Nat], NEW v \in Vnodes, NEW p,
         v_usecount' = [v_usecount EXCEPT ![v] = @ + 1],
         \A w \in Vnodes : Opens(w)' = Opens(w),
         \A w \in Vnodes : w # v => Uses(w)' = Uses(w),
         Uses(v)' = Uses(v) \cup {p}, p \notin Uses(v)
  PROVE  Counted' /\ v_usecount' \in [Vnodes -> Nat]
<1>1. Cardinality(Uses(v)') = Cardinality(Uses(v)) + 1
  BY FiniteUsers, FS_AddElement
<1> QED
  BY <1>1, FiniteUsers DEF Counted

\* when one ends to,
LEMMA OneLess ==
  ASSUME Counted, v_usecount \in [Vnodes -> Nat], NEW v \in Vnodes, NEW p,
         v_usecount' = [v_usecount EXCEPT ![v] = @ - 1],
         \A w \in Vnodes : w # v => Opens(w)' = Opens(w) /\ Uses(w)' = Uses(w),
         \/ Opens(v)' = Opens(v) \ {p} /\ p \in Opens(v) /\ Uses(v)' = Uses(v)
         \/ Uses(v)' = Uses(v) \ {p} /\ p \in Uses(v) /\ Opens(v)' = Opens(v)
  PROVE  Counted' /\ v_usecount' \in [Vnodes -> Nat]
<1>1. CASE Opens(v)' = Opens(v) \ {p} /\ p \in Opens(v) /\ Uses(v)' = Uses(v)
  <2>0. IsFiniteSet(Opens(v))
    BY FiniteUsers
  <2>1. /\ Cardinality(Opens(v)') = Cardinality(Opens(v)) - 1
        /\ Cardinality(Opens(v)) # 0
    <3>1. Cardinality(Opens(v) \ {p}) = Cardinality(Opens(v)) - 1
      BY <1>1, <2>0, FS_RemoveElement
    <3>2. Cardinality(Opens(v)) # 0
      BY <1>1, <2>0, FS_EmptySet
    <3> QED
      BY <1>1, <3>1, <3>2
  <2>2. /\ v_usecount[v] - 1 \in Nat
        /\ v_usecount[v] - 1 = Cardinality(Opens(v)') + Cardinality(Uses(v)')
    BY <1>1, <2>1, FiniteUsers DEF Counted
  <2> QED
    BY <2>2 DEF Counted
<1>2. CASE Uses(v)' = Uses(v) \ {p} /\ p \in Uses(v) /\ Opens(v)' = Opens(v)
  <2>0. IsFiniteSet(Uses(v))
    BY FiniteUsers
  <2>1. /\ Cardinality(Uses(v)') = Cardinality(Uses(v)) - 1
        /\ Cardinality(Uses(v)) # 0
    <3>1. Cardinality(Uses(v) \ {p}) = Cardinality(Uses(v)) - 1
      BY <1>2, <2>0, FS_RemoveElement
    <3>2. Cardinality(Uses(v)) # 0
      BY <1>2, <2>0, FS_EmptySet
    <3> QED
      BY <1>2, <3>1, <3>2
  <2>2. /\ v_usecount[v] - 1 \in Nat
        /\ v_usecount[v] - 1 = Cardinality(Opens(v)') + Cardinality(Uses(v)')
    BY <1>2, <2>1, FiniteUsers DEF Counted
  <2> QED
    BY <2>2 DEF Counted
<1> QED
  BY <1>1, <1>2

\* and when it keeps the vnode open instead.
LEMMA KeptOpen ==
  ASSUME Counted, UNCHANGED v_usecount, NEW v \in Vnodes, NEW p,
         \A w \in Vnodes : w # v => Opens(w)' = Opens(w) /\ Uses(w)' = Uses(w),
         Uses(v)' = Uses(v) \ {p}, p \in Uses(v),
         Opens(v)' = Opens(v) \cup {p}, p \notin Opens(v)
  PROVE  Counted'
<1>1. Cardinality(Uses(v)') = Cardinality(Uses(v)) - 1
  BY FiniteUsers, FS_RemoveElement
<1>2. Cardinality(Opens(v)') = Cardinality(Opens(v)) + 1
  BY FiniteUsers, FS_AddElement
<1>3. v_usecount[v] = Cardinality(Opens(v)') + Cardinality(Uses(v)')
  BY <1>1, <1>2, FiniteUsers DEF Counted
<1> QED
  BY <1>3 DEF Counted

-----------------------------------------------------------------------------
\* At first there is no vnode, and no file.
LEMMA InitIInv == Init => IInv
<1> SUFFICES ASSUME Init PROVE IInv
  OBVIOUS
<1> USE Constants DEF Init
<1>1. TypeOK
  <2>1. nc \in [Names -> Seq(Vnodes \cup {"negative", "stale"})]
    OBVIOUS
  <2> QED
    BY <2>1 DEF TypeOK, Places, Panics, Ops, Syncs
<1>2. NoPanic
  BY DEF NoPanic, Panics
<1>3. Counted
  <2>1. \A v \in Vnodes : Opens(v) = {} /\ Uses(v) = {}
    BY DEF Opens, Uses, Using
  <2>2. \A v \in Vnodes : Cardinality(Opens(v)) = 0 /\ Cardinality(Uses(v)) = 0
    BY <2>1, FS_EmptySet
  <2> QED
    BY <2>2 DEF Counted
<1>4. FreeList
  BY DEF FreeList, Taken
<1>5. Contents /\ Cleaned /\ Locks
  BY DEF Contents, Cleaned, Locks, Locking
<1>6. Inactive /\ Lookups
  BY DEF Inactive, Lookups, Looking, Taken
<1>7. Inodes /\ Modes /\ Doomed
  BY DEF Inodes, Modes, Doomed, New, Resolved, Looking
<1>8. OneVnodePerFile /\ EntriesSound
  BY DEF OneVnodePerFile, EntriesSound, Range
<1>9. ReferencesSafe
  BY DEF ReferencesSafe
<1> QED
  BY <1>1, <1>2, <1>3, <1>4, <1>5, <1>6, <1>7, <1>8, <1>9 DEF IInv

-----------------------------------------------------------------------------
\* The invariant but for what it says of names and lookups, and the types of what
\* the operations on vnodes change.
VnodesSound ==
  /\ NoPanic /\ Counted /\ FreeList /\ Contents /\ Cleaned /\ Locks /\ Inactive
  /\ Modes /\ Doomed /\ OneVnodePerFile /\ ReferencesSafe

VnodeTypes ==
  /\ pc \in [Procs -> Places] /\ vp \in [Procs -> Vnodes \cup {NoVnode}]
  /\ allocated \subseteq Vnodes /\ vfree \in Seq(allocated)
  /\ v_usecount \in [Vnodes -> Nat]
  /\ VXLOCK \subseteq Vnodes /\ VXWANT \subseteq Vnodes
  /\ wchan \in [Procs -> {NoChan} \cup ({"vnode", "inode"} \X Vnodes)]
  /\ ilocking \subseteq Procs /\ gone \in [Procs -> Places] /\ IWANT \subseteq Vnodes
  /\ ILOCKED \in [Vnodes -> Procs \cup {NoProc}]

\* What the functions of the state are defined on.
LEMMA Functions ==
  ASSUME IInv
  PROVE  /\ pc \in [Procs -> Places] /\ op \in [Procs -> Ops \cup Syncs \cup {"none"}]
         /\ nm \in [Procs -> Names \cup {NoName}] /\ ino \in [Procs -> Files \cup {NoFile}]
         /\ vp \in [Procs -> Vnodes \cup {NoVnode}]
         /\ fd \in [Procs -> Vnodes \cup {NoVnode}]
         /\ opened \in [Procs -> Files \cup {NoFile}] /\ gone \in [Procs -> Places]
         /\ i_number \in [Vnodes -> Files \cup {NoFile}]
         /\ dir \in [Names -> Files \cup {NoFile}]
         /\ ihash \subseteq Vnodes
BY DEF IInv, TypeOK

-----------------------------------------------------------------------------
(* Steps that touch no vnode.                                                *)

\* The places of a process that has no vnode.
Outside == {"user", "scan", "enoent", "ihash", "sync", "vflush", "done"}

\* p goes on from one of them to another.
Quiet(p) ==
  /\ UNCHANGED <<fd, opened, ilocking, gone, allocated, vfree, v_usecount, VXLOCK, VBAD,
                 v_mount, i_number, ihash, ILOCKED, i_mode, dir, di_mode>>
  /\ system' \notin Panics /\ p \notin ilocking
  /\ pc[p] \in Outside /\ pc'[p] \in Outside
  /\ \A q \in Procs \ {p} : /\ pc'[q] = pc[q] /\ op'[q] = op[q] /\ nm'[q] = nm[q]
                            /\ ino'[q] = ino[q] /\ vp'[q] = vp[q] /\ wchan'[q] = wchan[q]

\* Such a step keeps the invariant but for what it says of lookups, if it frees no
\* inode that is in core.
LEMMA QuietStep ==
  ASSUME IInv, NEW p \in Procs, Quiet(p),
         \A f \in inodes : f \in inodes' \/ InCore(f) = {}
  PROVE  VnodesSound'
<1> USE DEF Quiet
<1>1. \A v \in Vnodes : Opens(v)' = Opens(v) /\ Uses(v)' = Uses(v)
  BY DEF Opens, Uses, Using, Outside
<1>2. NoPanic'
  BY DEF NoPanic
<1>3. Counted'
  BY <1>1, SameUsers DEF IInv
<1>4. FreeList'
  BY DEF IInv, FreeList, Taken, Free, Outside
<1>5. Contents'
  BY DEF IInv, Contents, Outside
<1>6. Cleaned'
  BY DEF IInv, Cleaned, Outside
<1>7. Locks'
  <2>1. ilocking \subseteq Procs /\ \A v \in Vnodes : ILOCKED[v] # NoProc => ILOCKED[v] \in Procs
    BY DEF IInv, TypeOK
  <2>2. \A v \in Vnodes : ILOCKED[v] # NoProc => ILOCKED[v] # p
    BY DEF IInv, Locks, Locking, Outside
  <2> QED
    BY <2>1, <2>2 DEF IInv, Locks, Locking, Outside
<1>8. Inactive'
  <2> SUFFICES ASSUME NEW q \in Procs, pc'[q] \in {"inactive", "update"}
               PROVE  (/\ Opens(vp[q]) = {} /\ Uses(vp[q]) \subseteq ilocking
                       /\ pc[q] = "inactive" => vp[q] \in i_mode
                       /\ pc[q] = "update" => (vp[q] \in i_mode <=> Linked(i_number[vp[q]])))'
    BY DEF Inactive
  <2>1. pc'[q] = pc[q] /\ vp'[q] = vp[q] /\ vp[q] \in Vnodes /\ vp[q] \in ihash
    BY DEF IInv, TypeOK, Locks, Locking, Outside
  <2> QED
    BY <1>1, <2>1 DEF IInv, Inactive, Linked, Opens, Uses
<1>9. Modes' /\ Doomed'
  <2>1. \A v \in ihash : i_number[v] \in inodes => i_number[v] \in inodes'
    BY DEF InCore
  <2>2. \A v \in ihash : (\E q \in Procs : pc[q] \in {"bread", "update"} /\ vp[q] = v)
                         => \E q \in Procs : pc'[q] \in {"bread", "update"} /\ vp'[q] = v
    BY DEF Outside
  <2>3. \A v : (\E q \in Procs : pc[q] = "inactive" /\ vp[q] = v)
               => \E q \in Procs : pc'[q] = "inactive" /\ vp'[q] = v
    BY DEF Outside
  <2> QED
    BY <2>1, <2>2, <2>3 DEF IInv, Modes, Doomed, InCore, Linked
<1>10. OneVnodePerFile'
  BY DEF IInv, OneVnodePerFile
<1>11. ReferencesSafe'
  <2>1. \A v, f : v \in ihash /\ Is(v, f) => Is(v, f)'
    BY DEF Is, InCore
  <2>2. \A v : Kept(v)' <=> Kept(v)
    BY DEF Kept, Free
  <2>3. \A q \in Procs : pc'[q] \notin Outside => q # p
    OBVIOUS
  <2> QED
    BY <2>1, <2>2, <2>3 DEF IInv, ReferencesSafe, Kept, Outside, Is
<1> QED
  BY <1>2, <1>3, <1>4, <1>5, <1>6, <1>7, <1>8, <1>9, <1>10, <1>11 DEF VnodesSound

\* What is known of inodes stays so when lookups are left alone, with the vnodes of
\* the inodes they have made.
LEMMA InodesKept ==
  ASSUME IInv, UNCHANGED <<dir, inodes>>,
         \A q \in Procs : Resolved(q)' =>
           Resolved(q) /\ nm'[q] = nm[q] /\ op'[q] = op[q] /\ ino'[q] = ino[q],
         \A q \in Procs : (pc[q] = "bread" => i_number[vp[q]] = ino[q])',
         \A q \in Procs : New(q)' => (pc[q] = "bread" => ino[q] \notin di_mode)',
         \A q \in Procs : New(q)' =>
           (InCore(ino[q]) \cap i_mode)' \subseteq InCore(ino[q]) \cap i_mode
  PROVE  Inodes'
<1>1. \A q \in Procs : New(q)' => New(q)
  BY DEF New
<1>2. \A q \in Procs : Resolved(q)' /\ ~New(q)' => ino'[q] = dir'[nm'[q]]
  BY DEF IInv, Inodes, New
<1>3. \A q \in Procs : New(q)' =>
        (op[q] = "CREATE" /\ ino[q] \in inodes /\ ~Linked(ino[q]))'
  BY <1>1 DEF IInv, Inodes, New, Linked
<1>4. \A q \in Procs : New(q)' => (InCore(ino[q]) \cap i_mode)' = {}
  BY <1>1 DEF IInv, Inodes
<1> QED
  BY <1>2, <1>3, <1>4 DEF IInv, Inodes

\* It keeps that too about inodes, if p has found no other.
LEMMA QuietInodes ==
  ASSUME IInv, NEW p \in Procs, Quiet(p), UNCHANGED inodes,
         pc'[p] = "ihash" => /\ pc[p] = "ihash" /\ ino'[p] = ino[p]
                             /\ nm'[p] = nm[p] /\ op'[p] = op[p]
  PROVE  Inodes'
<1> USE DEF Quiet
<1>1. \A q \in Procs : Resolved(q)' => /\ Resolved(q) /\ ino'[q] = ino[q]
                                       /\ nm'[q] = nm[q] /\ op'[q] = op[q]
  BY DEF Resolved, Looking, Outside
<1>2. \A q \in Procs : pc'[q] = "bread" => q # p
  BY DEF Outside
<1>3. \A f : InCore(f)' = InCore(f)
  BY DEF InCore
<1>4. \A q \in Procs : New(q)' => New(q)
  BY <1>1 DEF New
<1>5. UNCHANGED <<dir, inodes>>
  OBVIOUS
<1>6. \A q \in Procs : (pc[q] = "bread" => i_number[vp[q]] = ino[q])'
  BY <1>2 DEF IInv, Inodes
<1>7. \A q \in Procs : New(q)' => (pc[q] = "bread" => ino[q] \notin di_mode)'
  BY <1>2, <1>4 DEF IInv, Inodes
<1>8. \A q \in Procs : New(q)' =>
        (InCore(ino[q]) \cap i_mode)' \subseteq InCore(ino[q]) \cap i_mode
  BY <1>1, <1>3 DEF New
<1> QED
  BY <1>1, <1>5, <1>6, <1>7, <1>8, InodesKept

\* What the invariant says of the lookup of one process.
LooksRight(p) ==
  /\ Looking(p) => dirlock = p /\ nm[p] \in Names /\ "negative" \notin Range(nc[nm[p]])
  /\ Taken(p) \/ pc[p] = "malloc" => InCore(ino[p]) = {}
  /\ pc[p] = "enoent" => dir[nm[p]] = NoFile
  /\ pc[p] = "cached" => dirlock = p /\ nm[p] \in Names
                        /\ (ino[p] # NoFile => dir[nm[p]] = ino[p] /\ i_number[vp[p]] = ino[p])
  /\ pc[p] = "enter" => nm[p] \in Names /\ dir[nm[p]] = ino[p] /\ ino[p] # NoFile

LEMMA LooksAll == Lookups <=> \A q \in Procs : LooksRight(q)
BY DEF Lookups, LooksRight

\* The lookups of the others stay right when p leaves them the directory, and what
\* they have found.
LEMMA LookupsKept ==
  ASSUME IInv, NEW p \in Procs, LooksRight(p)',
         \A q \in Procs \ {p} : /\ pc'[q] = pc[q] /\ nm'[q] = nm[q] /\ ino'[q] = ino[q]
                                /\ vp'[q] = vp[q] /\ gone'[q] = gone[q]
                                /\ dirlock = q => dirlock' = q,
         \A n \in Names : "negative" \in Range(nc'[n]) =>
                             "negative" \in Range(nc[n]) \/ dirlock = p,
         \A q \in Procs \ {p} : pc[q] \in {"enoent", "cached", "enter"} =>
                               dir'[nm[q]] = dir[nm[q]],
         \A q \in Procs \ {p} : pc[q] = "cached" => i_number'[vp[q]] = i_number[vp[q]],
         \A q \in Procs \ {p} : Taken(q) \/ pc[q] = "malloc" =>
                               InCore(ino[q])' \subseteq InCore(ino[q])
  PROVE  Lookups'
<1>1. ASSUME NEW q \in Procs \ {p} PROVE LooksRight(q)'
  <2>0. /\ pc'[q] = pc[q] /\ nm'[q] = nm[q] /\ ino'[q] = ino[q] /\ vp'[q] = vp[q]
        /\ gone'[q] = gone[q] /\ (dirlock = q => dirlock' = q) /\ q \in Procs /\ q # p
        /\ pc[q] \in {"enoent", "cached", "enter"} => dir'[nm[q]] = dir[nm[q]]
        /\ pc[q] = "cached" => i_number'[vp[q]] = i_number[vp[q]]
        /\ Taken(q) \/ pc[q] = "malloc" => InCore(ino[q])' \subseteq InCore(ino[q])
    BY <1>1 DEF InCore
  <2>1. LooksRight(q)
    BY LooksAll DEF IInv
  <2>2. (Looking(q)' <=> Looking(q)) /\ (Taken(q)' <=> Taken(q))
    BY <2>0 DEF Looking, Taken
  <2>3. ASSUME Looking(q)
        PROVE  dirlock' = q /\ nm'[q] \in Names /\ "negative" \notin Range(nc'[nm'[q]])
    BY <2>0, <2>1, <2>3 DEF LooksRight
  <2>4. pc'[q] = "enoent" => dir'[nm'[q]] = NoFile
    BY <2>0, <2>1 DEF LooksRight
  <2>5. pc'[q] = "cached" => /\ dirlock' = q /\ nm'[q] \in Names
                             /\ ino'[q] # NoFile => /\ dir'[nm'[q]] = ino'[q]
                                                    /\ i_number'[vp'[q]] = ino'[q]
    BY <2>0, <2>1 DEF LooksRight
  <2>6. pc'[q] = "enter" => nm'[q] \in Names /\ dir'[nm'[q]] = ino'[q] /\ ino'[q] # NoFile
    BY <2>0, <2>1 DEF LooksRight
  <2>7. Taken(q)' \/ pc'[q] = "malloc" => InCore(ino[q])' = {}
    BY <2>0, <2>1, <2>2 DEF LooksRight
  <2> QED
    BY <2>2, <2>3, <2>4, <2>5, <2>6, <2>7 DEF LooksRight, InCore
<1> QED
  BY <1>1, LooksAll DEF Lookups, LooksRight

\* A step that touches no vnode leaves the lookups of others right.
LEMMA QuietLookups ==
  ASSUME IInv, NEW p \in Procs, Quiet(p), LooksRight(p)',
         \A q \in Procs \ {p} : dirlock = q => dirlock' = q,
         \A n \in Names : "negative" \in Range(nc'[n]) =>
                             "negative" \in Range(nc[n]) \/ dirlock = p
  PROVE  Lookups'
<1>1. \A q \in Procs \ {p} : /\ pc'[q] = pc[q] /\ nm'[q] = nm[q] /\ ino'[q] = ino[q]
                             /\ vp'[q] = vp[q] /\ gone'[q] = gone[q]
                             /\ dirlock = q => dirlock' = q
  BY DEF Quiet
<1>2. dir' = dir /\ i_number' = i_number /\ ihash' = ihash
  BY DEF Quiet
<1>3. \A q \in Procs \ {p} : InCore(ino[q])' \subseteq InCore(ino[q])
  BY <1>1, <1>2 DEF InCore
<1> QED
  BY <1>1, <1>2, <1>3, LookupsKept

\* Outside of the calls of lookup there is nothing to be right.
LEMMA NotLooking ==
  ASSUME NEW p \in Procs, pc'[p] \in {"user", "sync", "vflush", "done"}
  PROVE  LooksRight(p)'
BY DEF LooksRight, Looking, Taken

LEMMA Keeps_LookupUncached ==
  ASSUME IInv, NEW p \in Procs, NEW n \in Names, NEW o \in Ops, LookupUncached(p, n, o)
  PROVE  IInv'
<1> USE Constants DEF LookupUncached, Runs, Goes, Call, call, table, inode, disk, wait
<1>n. /\ EntriesSound' /\ nc' \in [Names -> Seq(Vnodes \cup {"negative", "stale"})]
      /\ \A m \in Names : "negative" \in Range(nc'[m]) => "negative" \in Range(nc[m])
      /\ "negative" \notin Range(nc'[n])
  <2>1. TypeOK /\ EntriesSound
    BY DEF IInv
  <2>2. Shrunk(nc') /\ "negative" \notin Range(nc'[n])
    BY <2>1, CacheTypes, DroppedShrunk
  <2> QED
    BY <2>1, <2>2, ShrinkStep
<1>1. TypeOK'
  BY <1>n DEF IInv, TypeOK, Places, Ops, Syncs
<1>2. Quiet(p) /\ \A f \in inodes : f \in inodes' \/ InCore(f) = {}
  BY DEF IInv, TypeOK, Quiet, Outside, NoPanic, InCore
<1>3. Lookups'
  <2>1. pc'[p] = "scan" /\ dirlock' = p /\ nm'[p] = n
    BY DEF IInv, TypeOK
  <2>2. LooksRight(p)'
    BY <1>n, <2>1 DEF LooksRight, Looking, Taken
  <2>3. \A q \in Procs \ {p} : dirlock = q => dirlock' = q
    OBVIOUS
  <2> QED
    BY <1>n, <1>2, <2>2, <2>3, QuietLookups
<1>4. Inodes'
  BY <1>2, QuietInodes DEF IInv, TypeOK
<1> QED
  BY <1>1, <1>2, <1>3, <1>4, <1>n, QuietStep DEF IInv, VnodesSound

LEMMA Keeps_ScanFinds ==
  ASSUME IInv, NEW p \in Procs, ScanFinds(p)
  PROVE  IInv'
<1> USE Constants DEF ScanFinds, Runs, Goes, call, table, inode, disk, cache, wait
<1>1. TypeOK'
  BY DEF IInv, TypeOK, Places, Ops, Syncs, Lookups, Looking
<1>2. Quiet(p) /\ \A f \in inodes : f \in inodes' \/ InCore(f) = {}
  BY DEF IInv, TypeOK, Quiet, Outside, NoPanic, InCore
<1>3. Lookups'
  <2>1. LooksRight(p)
    BY LooksAll DEF IInv
  <2>2. pc'[p] = "ihash"
    BY DEF IInv, TypeOK
  <2>3. LooksRight(p)'
    BY <2>1, <2>2 DEF LooksRight, Looking, Taken
  <2> QED
    BY <1>2, <2>3, QuietLookups
<1>4. Inodes'
  BY DEF IInv, TypeOK, Inodes, New, Resolved, Looking, InCore, Linked, Lookups
<1>5. EntriesSound'
  BY DEF IInv, EntriesSound
<1> QED
  BY <1>1, <1>2, <1>3, <1>4, <1>5, QuietStep DEF IInv, VnodesSound

LEMMA Keeps_ScanFails ==
  ASSUME IInv, NEW p \in Procs, ScanFails(p)
  PROVE  IInv'
<1> USE Constants DEF ScanFails, Runs, Goes, Returns, call, table, inode, disk, cache, wait
<1>l. /\ Looking(p) /\ LooksRight(p) /\ dirlock = p /\ nm[p] \in Names
      /\ "negative" \notin Range(nc[nm[p]]) /\ dir[nm[p]] = NoFile
  BY LooksAll DEF IInv, LooksRight, Looking
<1>n. /\ EntriesSound' /\ nc' \in [Names -> Seq(Vnodes \cup {"negative", "stale"})]
      /\ numcache' \in Nat
  <2>1. CASE cache_enter(nm[p], "negative")
    <3>1. "negative" \in Slot /\ "negative" \notin Vnodes /\ UNCHANGED <<dir, ihash>>
      BY NoneFresh DEF Slot
    <3> QED
      BY <1>l, <2>1, <3>1, Enters
  <2>2. CASE UNCHANGED cache
    BY <2>2 DEF IInv, TypeOK, EntriesSound
  <2> QED
    BY <2>1, <2>2
<1>p. /\ pc' \in {[pc EXCEPT ![p] = "enoent"], [pc EXCEPT ![p] = "user"]}
      /\ pc' = [pc EXCEPT ![p] = "enoent"] => UNCHANGED <<op, nm, ino, vp, cache, dirlock>>
      /\ pc' # [pc EXCEPT ![p] = "enoent"] => Returns(p)
  BY DEF IInv, TypeOK
<1>1. TypeOK'
  <2>1. CASE Returns(p)
    BY <1>n, <2>1 DEF IInv, TypeOK, Places, Ops, Syncs
  <2>2. CASE UNCHANGED <<op, nm, ino, vp, cache, dirlock>>
    BY <1>n, <1>p, <2>2 DEF IInv, TypeOK, Places, Ops, Syncs
  <2> QED
    BY <1>p, <2>1, <2>2
<1>2. Quiet(p) /\ \A f \in inodes : f \in inodes' \/ InCore(f) = {}
  BY DEF IInv, TypeOK, Quiet, Outside, NoPanic, InCore
<1>3. Lookups'
  <2>1. pc'[p] \in {"enoent", "user"}
    BY <1>p DEF IInv, TypeOK
  <2>2. LooksRight(p)'
    <3>1. CASE pc'[p] = "enoent"
      <4>1. UNCHANGED <<op, nm, ino, vp, cache, dirlock, dir>>
        BY <1>p, <3>1 DEF IInv, TypeOK
      <4> QED
        BY <1>l, <3>1, <4>1 DEF LooksRight, Looking, Taken
    <3>2. CASE pc'[p] = "user"
      BY <3>2, NotLooking
    <3> QED
      BY <2>1, <3>1, <3>2
  <2>3. \A q \in Procs \ {p} : dirlock = q => dirlock' = q
    BY <1>l
  <2> QED
    BY <1>l, <1>2, <2>2, <2>3, QuietLookups
<1>4. Inodes'
  BY <1>2, <1>p, QuietInodes DEF IInv, TypeOK
<1> QED
  BY <1>1, <1>2, <1>3, <1>4, <1>n, QuietStep DEF IInv, VnodesSound

LEMMA Keeps_EnterNegative ==
  ASSUME IInv, NEW p \in Procs, EnterNegative(p)
  PROVE  IInv'
<1> USE Constants DEF EnterNegative, Runs, Goes, Returns, call, table, inode, disk, wait
<1>l. /\ Looking(p) /\ LooksRight(p) /\ dirlock = p /\ nm[p] \in Names
      /\ "negative" \notin Range(nc[nm[p]]) /\ dir[nm[p]] = NoFile
  BY LooksAll DEF IInv, LooksRight, Looking
<1>n. /\ EntriesSound' /\ nc' \in [Names -> Seq(Vnodes \cup {"negative", "stale"})]
      /\ numcache' \in Nat
  <2>1. "negative" \in Slot /\ "negative" \notin Vnodes /\ UNCHANGED <<dir, ihash>>
    BY NoneFresh DEF Slot
  <2> QED
    BY <1>l, <2>1, Enters
<1>1. TypeOK'
  BY <1>n DEF IInv, TypeOK, Places, Ops, Syncs
<1>2. Quiet(p) /\ \A f \in inodes : f \in inodes' \/ InCore(f) = {}
  BY DEF IInv, TypeOK, Quiet, Outside, NoPanic, InCore
<1>3. Lookups'
  <2>1. pc'[p] = "user"
    BY DEF IInv, TypeOK
  <2>2. LooksRight(p)' /\ \A q \in Procs \ {p} : dirlock = q => dirlock' = q
    BY <1>l, <2>1, NotLooking
  <2> QED
    BY <1>l, <1>2, <2>2, QuietLookups
<1>4. Inodes'
  BY <1>2, QuietInodes DEF IInv, TypeOK
<1> QED
  BY <1>1, <1>2, <1>3, <1>4, <1>n, QuietStep DEF IInv, VnodesSound

LEMMA Keeps_ffs_valloc ==
  ASSUME IInv, NEW p \in Procs, ffs_valloc(p)
  PROVE  IInv'
<1> USE Constants DEF ffs_valloc, Runs, Goes, call, table, inode, disk, cache, wait
<1>1. TypeOK'
  BY DEF IInv, TypeOK, Places, Ops, Syncs
<1>2. Quiet(p) /\ \A f \in inodes : f \in inodes' \/ InCore(f) = {}
  BY DEF IInv, TypeOK, Quiet, Outside, NoPanic, InCore
<1>3. Lookups'
  <2>1. LooksRight(p)
    BY LooksAll DEF IInv
  <2>2. pc'[p] = "ihash"
    BY DEF IInv, TypeOK
  <2>3. LooksRight(p)'
    BY <2>1, <2>2 DEF LooksRight, Looking, Taken
  <2> QED
    BY <1>2, <2>3, QuietLookups
<1>4. Inodes'
  <2>1. PICK f \in Files \ inodes :
          inodes' = inodes \cup {f} /\ ino' = [ino EXCEPT ![p] = f]
    OBVIOUS
  <2>2. ~Linked(f)
    BY DEF IInv, TypeOK, Inodes, Linked, Range
  <2>3. InCore(f) \cap i_mode = {}
    <3> SUFFICES ASSUME NEW v \in InCore(f), v \in i_mode PROVE FALSE
      OBVIOUS
    <3>1. v \in ihash /\ i_number[v] = f
      BY DEF InCore
    <3>2. PICK q \in Procs : pc[q] \in {"bread", "update"} /\ vp[q] = v
      BY <3>1 DEF IInv, Modes
    <3>3. pc[q] # "bread"
      <4>1. Looking(p) /\ pc[p] # "bread"
        BY DEF Looking
      <4> QED
        BY <4>1 DEF IInv, Lookups, Looking
    <3> QED
      BY <2>2, <3>1, <3>2, <3>3 DEF IInv, Inactive
  <2>4. /\ \A q \in Procs : Looking(q) => q = p
        /\ \A q \in Procs : Looking(q)' => q = p
    BY DEF IInv, TypeOK, Lookups, Looking
  <2>5. /\ ino'[p] = f /\ pc'[p] = "ihash" /\ UNCHANGED <<dir, i_mode, di_mode, op, nm>>
        /\ op[p] = "CREATE" /\ dir[nm[p]] = NoFile
    BY <2>1 DEF IInv, TypeOK
  <2>6. InCore(ino[p])' = InCore(f)
    BY <2>5 DEF InCore
  <2>7. \A q \in Procs : (Resolved(q) \/ pc[q] = "bread" \/ New(q))' => q = p
    BY <2>4 DEF Resolved, New, Looking
  <2>8. (Linked(ino[p])' <=> Linked(f)) /\ Resolved(p)' /\ New(p)' /\ ino'[p] \in inodes'
    BY <2>1, <2>5 DEF Linked, New, Resolved, Looking
  <2>9. \A n \in Names : dir'[n] \in inodes' \cup {NoFile}
    BY <2>1, <2>5 DEF IInv, Inodes
  <2> QED
    BY <2>2, <2>3, <2>5, <2>6, <2>7, <2>8, <2>9 DEF Inodes
<1>5. EntriesSound'
  BY DEF IInv, EntriesSound
<1> QED
  BY <1>1, <1>2, <1>3, <1>4, <1>5, QuietStep DEF IInv, VnodesSound

LEMMA Keeps_getnewvnode_fails ==
  ASSUME IInv, NEW p \in Procs, getnewvnode_fails(p)
  PROVE  IInv'
<1> USE Constants DEF getnewvnode_fails, Runs, Goes, Returns, call, table, inode, disk, cache, wait
<1>1. TypeOK'
  BY DEF IInv, TypeOK, Places, Ops, Syncs
<1>2. Quiet(p) /\ \A f \in inodes : f \in inodes' \/ InCore(f) = {}
  BY DEF IInv, TypeOK, Quiet, Outside, NoPanic, InCore
<1>l. Looking(p) /\ dirlock = p /\ \A q \in Procs : Looking(q) => q = p
  BY DEF IInv, Lookups, Looking
<1>3. Lookups'
  <2>1. pc'[p] = "user"
    BY DEF IInv, TypeOK
  <2>2. LooksRight(p)' /\ \A q \in Procs \ {p} : dirlock = q => dirlock' = q
    BY <1>l, <2>1, NotLooking
  <2> QED
    BY <1>2, <2>2, QuietLookups
<1>4. Inodes'
  <2>1. \A q \in Procs : ~Resolved(q)' /\ ~New(q)'
    BY <1>l DEF IInv, TypeOK, New, Resolved, Looking
  <2>2. \A n \in Names : dir[n] \in inodes' \cup {NoFile}
    <3>1. dir[nm[p]] = NoFile => New(p)
      BY DEF New, Resolved, Looking
    <3>2. New(p) => \A n \in Names : dir[n] # ino[p]
      BY DEF IInv, TypeOK, Inodes, Linked, Range
    <3> QED
      BY <3>1, <3>2 DEF IInv, Inodes
  <2>3. \A q \in Procs : pc'[q] # "bread"
    BY <2>1 DEF Resolved, Looking
  <2> QED
    BY <2>1, <2>2, <2>3 DEF Inodes
<1>5. EntriesSound'
  BY DEF IInv, EntriesSound
<1> QED
  BY <1>1, <1>2, <1>3, <1>4, <1>5, QuietStep DEF IInv, VnodesSound

LEMMA Keeps_Done ==
  ASSUME IInv, NEW p \in Procs, Done(p)
  PROVE  IInv'
<1> USE Constants DEF Done, Runs, Goes, Returns, call, table, inode, disk, cache, wait
<1>1. TypeOK'
  BY DEF IInv, TypeOK, Places, Ops, Syncs
<1>2. Quiet(p) /\ \A f \in inodes : f \in inodes' \/ InCore(f) = {}
  BY DEF IInv, TypeOK, Quiet, Outside, NoPanic, InCore
<1>3. Lookups'
  <2>1. pc'[p] = "user"
    BY DEF IInv, TypeOK
  <2>2. LooksRight(p)' /\ \A q \in Procs \ {p} : dirlock = q => dirlock' = q
    BY <2>1, NotLooking
  <2> QED
    BY <1>2, <2>2, QuietLookups
<1>4. Inodes'
  BY <1>2, QuietInodes DEF IInv, TypeOK
<1>5. EntriesSound'
  BY DEF IInv, EntriesSound
<1> QED
  BY <1>1, <1>2, <1>3, <1>4, <1>5, QuietStep DEF IInv, VnodesSound

LEMMA Keeps_StartSync ==
  ASSUME IInv, NEW p \in Procs, NEW o \in Syncs, StartSync(p, o)
  PROVE  IInv'
<1> USE Constants DEF StartSync, Runs, Goes, call, table, inode, disk, wait
<1>n. /\ EntriesSound' /\ nc' \in [Names -> Seq(Vnodes \cup {"negative", "stale"})]
      /\ \A m \in Names : "negative" \in Range(nc'[m]) => "negative" \in Range(nc[m])
  <2>1. TypeOK /\ EntriesSound
    BY DEF IInv
  <2>2. Shrunk(nc')
    BY <2>1, CacheTypes, EmptyShrunk
  <2>3. UNCHANGED <<dir, ihash>>
    OBVIOUS
  <2> QED
    BY <2>1, <2>2, <2>3, ShrinkStep
<1>1. TypeOK'
  BY <1>n DEF IInv, TypeOK, Places, Ops, Syncs
<1>2. Quiet(p) /\ \A f \in inodes : f \in inodes' \/ InCore(f) = {}
  BY DEF IInv, TypeOK, Quiet, Outside, NoPanic, InCore
<1>3. Lookups'
  <2>1. pc'[p] = "sync"
    BY DEF IInv, TypeOK
  <2>2. LooksRight(p)' /\ \A q \in Procs \ {p} : dirlock = q => dirlock' = q
    BY <2>1, NotLooking
  <2> QED
    BY <1>n, <1>2, <2>2, QuietLookups
<1>4. Inodes'
  BY <1>2, QuietInodes DEF IInv, TypeOK
<1> QED
  BY <1>1, <1>2, <1>3, <1>4, <1>n, QuietStep DEF IInv, VnodesSound

LEMMA Keeps_ffs_sync_next ==
  ASSUME IInv, NEW p \in Procs, ffs_sync_next(p)
  PROVE  IInv'
<1> USE Constants DEF ffs_sync_next, Runs, Goes, call, table, inode, disk, cache, wait
<1>1. TypeOK'
  BY DEF IInv, TypeOK, Places, Ops, Syncs
<1>2. Quiet(p) /\ \A f \in inodes : f \in inodes' \/ InCore(f) = {}
  BY DEF IInv, TypeOK, Quiet, Outside, NoPanic, InCore
<1>3. Lookups'
  <2>1. pc'[p] = "sync"
    BY DEF IInv, TypeOK
  <2>2. LooksRight(p)' /\ \A q \in Procs \ {p} : dirlock = q => dirlock' = q
    BY <2>1, NotLooking
  <2> QED
    BY <1>2, <2>2, QuietLookups
<1>4. Inodes'
  BY <1>2, QuietInodes DEF IInv, TypeOK
<1>5. EntriesSound'
  BY DEF IInv, EntriesSound
<1> QED
  BY <1>1, <1>2, <1>3, <1>4, <1>5, QuietStep DEF IInv, VnodesSound

LEMMA Keeps_ffs_sync_end ==
  ASSUME IInv, NEW p \in Procs, ffs_sync_end(p)
  PROVE  IInv'
<1> USE Constants DEF ffs_sync_end, Runs, Goes, Returns, call, table, inode, disk, cache, wait
<1>1. TypeOK'
  <2>1. CASE op[p] = "SYNC" /\ Returns(p)
    BY <2>1 DEF IInv, TypeOK, Places, Ops, Syncs
  <2>2. CASE op[p] = "UNMOUNT" /\ Goes(p, "vflush") /\ UNCHANGED <<dirlock, op, nm, ino, vp>>
    BY <2>2 DEF IInv, TypeOK, Places
  <2> QED
    BY <2>1, <2>2
<1>2. Quiet(p) /\ \A f \in inodes : f \in inodes' \/ InCore(f) = {}
  BY DEF IInv, TypeOK, Quiet, Outside, NoPanic, InCore
<1>3. Lookups'
  <2>1. pc'[p] \in {"user", "vflush"}
    BY DEF IInv, TypeOK
  <2>2. LooksRight(p)' /\ \A q \in Procs \ {p} : dirlock = q => dirlock' = q
    BY <2>1, NotLooking
  <2> QED
    BY <1>2, <2>2, QuietLookups
<1>4. Inodes'
  <2>1. pc'[p] # "ihash"
    BY DEF IInv, TypeOK
  <2> QED
    BY <1>2, <2>1, QuietInodes
<1>5. EntriesSound'
  BY DEF IInv, EntriesSound
<1> QED
  BY <1>1, <1>2, <1>3, <1>4, <1>5, QuietStep DEF IInv, VnodesSound

LEMMA Keeps_EndFlush ==
  ASSUME IInv, NEW p \in Procs, EndFlush(p)
  PROVE  IInv'
<1> USE Constants DEF EndFlush, Runs, Goes, Returns, call, table, inode, disk, cache, wait
<1>1. TypeOK'
  BY DEF IInv, TypeOK, Places, Ops, Syncs
<1>2. Quiet(p) /\ \A f \in inodes : f \in inodes' \/ InCore(f) = {}
  BY DEF IInv, TypeOK, Quiet, Outside, NoPanic, InCore
<1>3. Lookups'
  <2>1. pc'[p] = "user"
    BY DEF IInv, TypeOK
  <2>2. LooksRight(p)' /\ \A q \in Procs \ {p} : dirlock = q => dirlock' = q
    BY <2>1, NotLooking
  <2> QED
    BY <1>2, <2>2, QuietLookups
<1>4. Inodes'
  BY <1>2, QuietInodes DEF IInv, TypeOK
<1>5. EntriesSound'
  BY DEF IInv, EntriesSound
<1> QED
  BY <1>1, <1>2, <1>3, <1>4, <1>5, QuietStep DEF IInv, VnodesSound

-----------------------------------------------------------------------------
(* ufs_ilock.                                                                *)

\* Only vnodes that have been allocated are on the free list.
LEMMA FreeAllocated ==
  ASSUME IInv, NEW w, Free(w)
  PROVE  w \in allocated
<1>1. vfree \in Seq(allocated)
  BY DEF IInv, TypeOK
<1> QED
  BY <1>1, RangeOf, ElementOfSeq DEF Free

\* A process that works on an inode has it locked, or waits for its lock.
LEMMA Holders ==
  ASSUME IInv, NEW q \in Procs, pc[q] \in Locking
  PROVE  /\ vp[q] \in ihash /\ vp[q] \in Vnodes
         /\ q \in ilocking \/ ILOCKED[vp[q]] = q
         /\ pc[q] \in {"inactive", "update"} => q \notin ilocking
<1>1. ihash \subseteq Vnodes
  BY DEF IInv, TypeOK
<1> QED
  BY <1>1 DEF IInv, Locks

\* What a process sleeps for is a vnode or an inode.
LEMMA SleepTypes ==
  ASSUME IInv, NEW p \in Procs, NEW v \in Vnodes, NEW c \in {"vnode", "inode"}
  PROVE  [wchan EXCEPT ![p] = <<c, v>>] \in [Procs -> {NoChan} \cup ({"vnode", "inode"} \X Vnodes)]
<1>1. <<c, v>> \in {"vnode", "inode"} \X Vnodes
  OBVIOUS
<1> QED
  BY <1>1 DEF IInv, TypeOK

LEMMA LockTypes ==
  ASSUME IInv, NEW p \in Procs, NEW v \in Vnodes, NEW place, ufs_ilock(p, v, place)
  PROVE  /\ wchan' \in [Procs -> {NoChan} \cup ({"vnode", "inode"} \X Vnodes)]
         /\ ilocking' \subseteq Procs /\ IWANT' \subseteq Vnodes
         /\ ILOCKED' \in [Vnodes -> Procs \cup {NoProc}]
<1>t. VnodeTypes
  BY DEF IInv, TypeOK, VnodeTypes
<1>1. CASE ILOCKED[v] = NoProc
  <2>1. /\ ILOCKED' = [ILOCKED EXCEPT ![v] = p] /\ ilocking' = ilocking \ {p}
        /\ UNCHANGED <<IWANT, wchan>>
    BY <1>1 DEF ufs_ilock
  <2> QED
    BY <1>t, <2>1 DEF VnodeTypes
<1>2. CASE ILOCKED[v] # NoProc
  <2>1. [wchan EXCEPT ![p] = <<"inode", v>>]
          \in [Procs -> {NoChan} \cup ({"vnode", "inode"} \X Vnodes)]
    BY SleepTypes
  <2> QED
    BY <1>t, <1>2, <2>1 DEF ufs_ilock, VnodeTypes
<1> QED
  BY <1>1, <1>2

\* p, which has no inode locked, gets the lock of v or waits for it.
LEMMA LockStep ==
  ASSUME IInv, NEW p \in Procs, NEW v \in ihash, NEW place \in Locking,
         ufs_ilock(p, v, place), vp'[p] = v, UNCHANGED ihash,
         \A q \in Procs \ {p} : vp'[q] = vp[q],
         ILOCKED[v] = NoProc \/ place \in {"cached", "cleaning"},
         pc[p] \in Locking => p \in ilocking
  PROVE  Locks'
<1>v. v \in Vnodes
  BY DEF IInv, TypeOK
<1>t. VnodeTypes
  BY DEF IInv, TypeOK, VnodeTypes
<1> USE Constants DEF VnodeTypes
<1>1. \A q \in Procs : pc'[q] = IF q = p THEN place ELSE pc[q]
  BY <1>t DEF ufs_ilock, Goes
<1>2. \A w \in Vnodes : ILOCKED[w] # NoProc =>
        /\ ILOCKED[w] # p /\ ILOCKED[w] \in Procs /\ vp[ILOCKED[w]] = w
        /\ ILOCKED[w] \notin ilocking /\ pc[ILOCKED[w]] \in Locking
  BY <1>t DEF IInv, Locks
<1>3. \A q \in Procs : pc[q] \in Locking => /\ vp[q] \in ihash /\ vp[q] \in Vnodes
                                            /\ q \in ilocking \/ ILOCKED[vp[q]] = q
  BY DEF IInv, TypeOK, Locks
<1>4. /\ \A w \in Vnodes : ILOCKED'[w] = IF w = v /\ ILOCKED[v] = NoProc THEN p ELSE ILOCKED[w]
      /\ ilocking' = IF ILOCKED[v] = NoProc THEN ilocking \ {p} ELSE ilocking \cup {p}
  BY <1>t DEF ufs_ilock
<1>5. \A w \in Vnodes : ILOCKED'[w] # NoProc =>
        /\ vp'[ILOCKED'[w]] = w /\ ILOCKED'[w] \notin ilocking'
        /\ pc'[ILOCKED'[w]] \in Locking
  BY <1>v, <1>1, <1>2, <1>4
<1>6. \A q \in Procs : pc'[q] \in Locking =>
        vp'[q] \in ihash' /\ (q \in ilocking' \/ ILOCKED'[vp'[q]] = q)
  BY <1>v, <1>1, <1>3, <1>4
<1>7. \A q \in ilocking' : pc'[q] \in {"cached", "cleaning"}
  BY <1>t, <1>1, <1>4 DEF IInv, Locks
<1> QED
  BY <1>5, <1>6, <1>7 DEF Locks
-----------------------------------------------------------------------------
(* vget.                                                                     *)

LEMMA Links ==
  ASSUME TypeOK
  PROVE  \A f : Linked(f) <=> \E n \in Names : dir[n] = f
<1>1. DOMAIN dir = Names
  BY DEF TypeOK
<1> QED
  BY <1>1 DEF Linked, Range

\* A vnode in core without users is on the free list, unless it is being emptied.
LEMMA UnusedIsFree ==
  ASSUME IInv, NEW v \in ihash, v \notin VXLOCK, v_usecount[v] = 0
  PROVE  Free(v)
BY DEF IInv, FreeList, Taken, Contents, Cleaned

\* p gets v, or waits for its lock.
Gets(p, v, place, failed) ==
  /\ v \notin VXLOCK /\ vget(p, v, place, failed)
  /\ vp' = [vp EXCEPT ![p] = v]
  /\ UNCHANGED <<fd, opened, gone, allocated, VXLOCK, VBAD, v_mount, i_number, ihash,
                 i_mode, disk>>
  /\ \A q \in Procs \ {p} : op'[q] = op[q] /\ nm'[q] = nm[q] /\ ino'[q] = ino[q]

LEMMA VgetStep ==
  ASSUME IInv, NEW p \in Procs, NEW v \in ihash, pc[p] \in Outside, p \notin ilocking,
         NEW place \in {"found", "cached", "fsync"}, NEW failed, Gets(p, v, place, failed),
         system = "runs", ILOCKED[v] = NoProc \/ place = "cached",
         place = "fsync" => ino'[p] = i_number[v],
         place # "fsync" => Is(v, ino'[p])
  PROVE  VnodesSound' /\ VnodeTypes' /\ system' = system
<1>v. v \in Vnodes /\ v \in allocated /\ v_usecount[v] \in Nat
  BY DEF IInv, TypeOK, Contents
<1>f. v_usecount[v] = 0 => Free(v)
  BY UnusedIsFree DEF Gets
<1>t. VnodeTypes
  BY DEF IInv, TypeOK, VnodeTypes
<1> USE DEF VnodeTypes
<1>s. /\ pc' = [pc EXCEPT ![p] = place] /\ vp' = [vp EXCEPT ![p] = v]
      /\ v_usecount' = [v_usecount EXCEPT ![v] = @ + 1]
      /\ vfree' = IF v_usecount[v] = 0 THEN RemoveFirst(vfree, v) ELSE vfree
      /\ system' = system /\ VXWANT' = VXWANT
      /\ UNCHANGED <<fd, opened, gone, allocated, VXLOCK, VBAD, v_mount, i_number, ihash,
                     i_mode, dir, inodes, di_mode>>
      /\ \A q \in Procs \ {p} : op'[q] = op[q] /\ nm'[q] = nm[q] /\ ino'[q] = ino[q]
  BY <1>f DEF Gets, vget, ufs_ilock, Goes, disk
<1>l. \/ /\ ILOCKED[v] = NoProc /\ ILOCKED' = [ILOCKED EXCEPT ![v] = p]
         /\ ilocking' = ilocking /\ UNCHANGED <<IWANT, wchan>>
      \/ /\ ILOCKED[v] # NoProc /\ ILOCKED' = ILOCKED /\ ilocking' = ilocking \cup {p}
         /\ IWANT' = IWANT \cup {v} /\ wchan' = [wchan EXCEPT ![p] = <<"inode", v>>]
  BY DEF Gets, vget, ufs_ilock
<1>1. /\ pc' \in [Procs -> Places] /\ vp' \in [Procs -> Vnodes \cup {NoVnode}]
      /\ system' = system /\ VXWANT' \subseteq Vnodes
  BY <1>v, <1>t, <1>s DEF Places
<1>2. /\ wchan' \in [Procs -> {NoChan} \cup ({"vnode", "inode"} \X Vnodes)]
      /\ ilocking' \subseteq Procs /\ IWANT' \subseteq Vnodes
      /\ ILOCKED' \in [Vnodes -> Procs \cup {NoProc}]
  BY <1>v, LockTypes DEF Gets, vget
<1>n. NoPanic'
  BY <1>1 DEF IInv, NoPanic
<1>3. /\ \A w \in Vnodes : Opens(w)' = Opens(w)
      /\ \A w \in Vnodes : w # v => Uses(w)' = Uses(w)
      /\ Uses(v)' = Uses(v) \cup {p} /\ p \notin Uses(v)
  BY <1>v, <1>t, <1>s DEF Opens, Uses, Using, Outside
<1>4. Counted' /\ v_usecount' \in [Vnodes -> Nat]
  BY <1>v, <1>t, <1>s, <1>3, OneMore DEF IInv
<1>5. /\ vfree' \in Seq(allocated') /\ Once(vfree')
      /\ \A w : Free(w)' <=> Free(w) /\ w # v
  <2>0. Once(vfree)
    BY DEF IInv, FreeList, Once
  <2>1. CASE v_usecount[v] = 0
    <3>1. /\ RemoveFirst(vfree, v) \in Seq(allocated) /\ Once(RemoveFirst(vfree, v))
          /\ Range(RemoveFirst(vfree, v)) = Range(vfree) \ {v}
      BY <1>t, <1>f, <2>0, <2>1, RemoveOnce DEF Free
    <3> QED
      BY <1>s, <2>1, <3>1 DEF Free
  <2>2. CASE v_usecount[v] # 0
    BY <1>v, <1>t, <1>s, <2>0, <2>2 DEF IInv, FreeList, Free
  <2> QED
    BY <2>1, <2>2
<1>6. \A q \in Procs : Taken(q)' <=> Taken(q) /\ q # p
  BY <1>t, <1>s DEF Taken, Outside
<1>7. FreeList'
  <2>1. \A q \in Procs : Taken(q) => vp[q] # v
    BY <1>v DEF IInv, FreeList, Contents, Cleaned, Taken, Gets
  <2>2. \A w \in allocated' : Free(w)' => v_usecount'[w] = 0
    BY <1>v, <1>t, <1>s, <1>5 DEF IInv, TypeOK, FreeList
  <2>3. ASSUME NEW w \in allocated', v_usecount'[w] = 0
        PROVE  Free(w)' \/ \E q \in Procs : Taken(q)' /\ vp'[q] = w
    <3>1. w \in allocated /\ w # v /\ v_usecount[w] = 0
      BY <1>v, <1>t, <1>s, <2>3 DEF IInv, TypeOK
    <3>2. Free(w) \/ \E q \in Procs : Taken(q) /\ q # p /\ vp[q] = w
      BY <3>1 DEF IInv, FreeList, Taken, Outside
    <3> QED
      BY <1>t, <1>s, <1>5, <1>6, <3>1, <3>2
  <2>4. \A q \in Procs : Taken(q)' => /\ vp'[q] \in allocated' /\ ~Free(vp[q])'
                                      /\ v_usecount'[vp'[q]] = 0
    BY <1>v, <1>t, <1>s, <1>5, <1>6, <2>1 DEF IInv, TypeOK, FreeList
  <2> QED
    BY <1>5, <2>2, <2>3, <2>4 DEF FreeList, Once
<1>8. Contents'
  BY <1>v, <1>t, <1>s, <1>l DEF IInv, Contents, Outside
<1>9. Cleaned'
  BY <1>v, <1>t, <1>s DEF IInv, Cleaned, Outside, Gets
<1>10. Locks'
  <2>1. ufs_ilock(p, v, place) /\ vp'[p] = v /\ \A q \in Procs \ {p} : vp'[q] = vp[q]
    BY <1>t, <1>s DEF Gets, vget
  <2> QED
    BY <1>s, <2>1, LockStep DEF Locking, Outside
<1>11. Inactive'
  <2>1. \A q \in Procs : pc'[q] \in {"inactive", "update"} =>
          /\ pc'[q] = pc[q] /\ vp'[q] = vp[q] /\ vp[q] \in Vnodes
          /\ vp[q] = v => p \in ilocking'
    <3>1. \A q \in Procs : pc'[q] \in {"inactive", "update"} =>
            q # p /\ pc'[q] = pc[q] /\ vp'[q] = vp[q]
      BY <1>t, <1>s
    <3>2. \A q \in Procs : pc[q] \in {"inactive", "update"} => ILOCKED[vp[q]] = q
      BY DEF IInv, Locks, Locking
    <3> QED
      BY <1>v, <1>l, <3>1, <3>2, Constants DEF IInv, TypeOK, Locks, Locking
  <2>2. ilocking \subseteq ilocking'
    BY <1>l
  <2> QED
    BY <1>s, <1>3, <2>1, <2>2 DEF IInv, Inactive, Linked
<1>12. Modes' /\ Doomed'
  <2>1. \A w : \A q \in Procs : pc[q] \in {"bread", "update", "inactive"} /\ vp[q] = w =>
          pc'[q] = pc[q] /\ vp'[q] = w
    BY <1>t, <1>s DEF Outside
  <2>2. \A w \in Vnodes : v_usecount[w] > 0 => v_usecount'[w] > 0
    BY <1>v, <1>t, <1>s
  <2>3. i_mode \subseteq Vnodes
    BY DEF IInv, TypeOK
  <2>4. Modes'
    <3>1. ASSUME NEW w \in ihash, \E q \in Procs : pc[q] \in {"bread", "update"} /\ vp[q] = w
          PROVE  \E q \in Procs : pc'[q] \in {"bread", "update"} /\ vp'[q] = w
      <4>1. PICK q \in Procs : pc[q] \in {"bread", "update"} /\ vp[q] = w
        BY <3>1
      <4> QED
        BY <2>1, <4>1
    <3> QED
      BY <1>s, <3>1 DEF IInv, Modes, Linked
  <2>5. Doomed'
    <3>1. ASSUME NEW w \in i_mode, \E q \in Procs : pc[q] = "inactive" /\ vp[q] = w
          PROVE  \E q \in Procs : pc'[q] = "inactive" /\ vp'[q] = w
      BY <2>1, <3>1
    <3> QED
      BY <1>s, <2>2, <2>3, <3>1 DEF IInv, Doomed, InCore, Linked
  <2> QED
    BY <2>4, <2>5
<1>13. OneVnodePerFile'
  BY <1>s DEF IInv, OneVnodePerFile
<1>14. ReferencesSafe'
  <2>1. \A w \in Vnodes : Kept(w) => Kept(w)'
    BY <1>v, <1>t, <1>s, <1>5 DEF Kept
  <2>2. Kept(v)'
    <3>1. v_usecount'[v] > 0
      BY <1>v, <1>t, <1>s
    <3>2. v \notin VBAD /\ v \notin VXLOCK
      BY DEF IInv, Contents, Gets
    <3> QED
      BY <1>s, <1>5, <3>1, <3>2 DEF Kept
  <2>3. \A w, g : Is(w, g) => Is(w, g)'
    BY <1>s DEF Is
  <2>4. /\ pc'[p] = place /\ vp'[p] = v
        /\ \A q \in Procs \ {p} : pc'[q] = pc[q] /\ vp'[q] = vp[q] /\ ino'[q] = ino[q]
    BY <1>t, <1>s
  <2>5. \A w : Kept(w) => w \in Vnodes
    BY DEF Kept, IInv, TypeOK
  <2>6. ASSUME NEW q \in Procs, fd'[q] # NoVnode PROVE Kept(fd[q])' /\ Is(fd[q], opened[q])'
    <3>1. Kept(fd[q]) /\ Is(fd[q], opened[q]) /\ fd'[q] = fd[q] /\ opened'[q] = opened[q]
      BY <1>s, <2>6 DEF IInv, ReferencesSafe
    <3> QED
      BY <1>s, <1>5, <2>1, <2>5, <3>1 DEF Kept, Is
  <2>7. ASSUME NEW q \in Procs, pc'[q] \in {"cached", "found", "enter", "has", "bad"}
        PROVE  Kept(vp[q])' /\ Is(vp[q], ino[q])'
    <3>1. CASE q = p
      BY <1>s, <2>2, <2>4, <2>7, <3>1 DEF Kept, Is
    <3>2. CASE q # p
      <4>1. /\ Kept(vp[q]) /\ Is(vp[q], ino[q]) /\ vp[q] \in Vnodes
            /\ vp'[q] = vp[q] /\ ino'[q] = ino[q]
        BY <2>4, <2>5, <2>7, <3>2 DEF IInv, ReferencesSafe
      <4> QED
        BY <1>s, <1>5, <2>1, <4>1 DEF Kept, Is
    <3> QED
      BY <3>1, <3>2
  <2>8. ASSUME NEW q \in Procs, pc'[q] = "fsync"
        PROVE  Kept(vp[q])' /\ i_number'[vp'[q]] = ino'[q]
    <3>1. CASE q = p
      BY <1>s, <2>2, <2>4, <2>8, <3>1 DEF Kept
    <3>2. CASE q # p
      <4>1. /\ Kept(vp[q]) /\ i_number[vp[q]] = ino[q] /\ vp[q] \in Vnodes
            /\ vp'[q] = vp[q] /\ ino'[q] = ino[q]
        BY <2>4, <2>5, <2>8, <3>2 DEF IInv, ReferencesSafe
      <4> QED
        BY <1>s, <1>5, <2>1, <4>1 DEF Kept
    <3> QED
      BY <3>1, <3>2
  <2> QED
    BY <2>6, <2>7, <2>8 DEF ReferencesSafe
<1> QED
  BY <1>t, <1>s, <1>1, <1>2, <1>n, <1>4, <1>5, <1>7, <1>8, <1>9, <1>10, <1>11, <1>12,
     <1>13, <1>14
     DEF VnodesSound

\* The newest entry, if it is a vnode, is followed by no negative one.
LEMMA HeadIsVnode ==
  ASSUME IInv, NEW n \in Names, nc[n] # <<>>, Head(nc[n]) \in Vnodes
  PROVE  Head(nc[n]) \in ihash /\ "negative" \notin Range(nc[n])
<1>1. nc[n] \in Seq(Slot) /\ NegativeFirst(nc[n])
  BY CacheTypes DEF IInv, Shrunk
<1>2. /\ Len(nc[n]) \in Nat \ {0} /\ Head(nc[n]) = nc[n][1] /\ 1 \in 1 .. Len(nc[n])
      /\ \A i \in 1 .. Len(nc[n]) : i = 1 \/ i \in 2 .. Len(nc[n])
  BY <1>1
<1>3. Head(nc[n]) \in Range(nc[n])
  BY <1>1, <1>2, RangeOf
<1>4. Head(nc[n]) # "negative"
  BY Constants
<1>5. "negative" \notin Range(nc[n])
  BY <1>1, <1>2, <1>4, RangeOf DEF NegativeFirst
<1> QED
  BY <1>3, <1>5 DEF IInv, EntriesSound

LEMMA Keeps_LookupCached ==
  ASSUME IInv, NEW p \in Procs, NEW n \in Names, NEW o \in Ops, LookupCached(p, n, o)
  PROVE  IInv'
<1> DEFINE v == Head(nc[n])
           f == IF i_number[v] = dir[n] THEN dir[n] ELSE NoFile
<1> USE Constants DEF disk, cache
<1>s. /\ system = "runs" /\ pc[p] = "user" /\ p \notin ilocking /\ dirlock = NoProc /\ dirlock' = p
      /\ nm' = [nm EXCEPT ![p] = n] /\ op' = [op EXCEPT ![p] = o]
      /\ ino' = [ino EXCEPT ![p] = f] /\ vp' = [vp EXCEPT ![p] = v]
      /\ vget(p, v, "cached", "scan")
      /\ UNCHANGED <<fd, opened, gone, allocated, VXLOCK, VBAD, v_mount, i_number, ihash,
                     i_mode, nc, numcache, dir, inodes, di_mode, flushed>>
  BY DEF LookupCached, Call, Runs
<1>1. v \in Vnodes /\ v \in ihash /\ "negative" \notin Range(nc[n])
  BY HeadIsVnode DEF LookupCached, Hit, Newest, IInv, TypeOK
<1>f. f \in Files \cup {NoFile} /\ Is(v, f) /\ (f # NoFile => dir[n] = f /\ i_number[v] = f)
  <2>1. dir[n] \in Files \cup {NoFile}
    BY Functions
  <2>2. dir[n] \in inodes \cup {NoFile}
    BY DEF IInv, Inodes
  <2> QED
    BY <2>1, <2>2 DEF Is
<1>a. \A q \in Procs : ~Looking(q) /\ pc[q] # "cached"
  BY <1>s DEF IInv, Lookups
<1>o. /\ \A q \in Procs \ {p} : op'[q] = op[q] /\ nm'[q] = nm[q] /\ ino'[q] = ino[q] /\ vp'[q] = vp[q]
      /\ op'[p] = o /\ nm'[p] = n /\ ino'[p] = f /\ vp'[p] = v
  BY <1>s, Functions
<1>t. /\ op' \in [Procs -> Ops \cup Syncs \cup {"none"}] /\ nm' \in [Procs -> Names \cup {NoName}]
      /\ ino' \in [Procs -> Files \cup {NoFile}] /\ vp' \in [Procs -> Vnodes \cup {NoVnode}]
  <2> HIDE DEF f, v
  <2> QED
    BY <1>s, <1>1, <1>f, Functions
<1> HIDE DEF f, v
<1>5. EntriesSound'
  BY <1>s DEF IInv, EntriesSound
<1>2. CASE v \in VXLOCK
  <2>s. /\ pc' = [pc EXCEPT ![p] = "scan"] /\ VXWANT' = VXWANT \cup {v}
        /\ wchan' = [wchan EXCEPT ![p] = <<"vnode", v>>]
        /\ UNCHANGED <<v_usecount, vfree, system, ilocking, ILOCKED, IWANT>>
    BY <1>s, <1>2 DEF vget, AwaitClean, Goes
  <2>t. wchan' \in [Procs -> {NoChan} \cup ({"vnode", "inode"} \X Vnodes)]
    BY <1>1, <2>s, SleepTypes
  <2>1. TypeOK'
    BY <1>s, <1>1, <1>t, <2>s, <2>t DEF IInv, TypeOK, Places
  <2>o. \A q \in Procs : pc'[q] = IF q = p THEN "scan" ELSE pc[q]
    BY <2>s, Functions
  <2>w. \A q \in Procs \ {p} : wchan'[q] = wchan[q]
    BY <2>s DEF IInv, TypeOK
  <2>2. Quiet(p)
    BY <1>s, <1>o, <2>s, <2>o, <2>w DEF IInv, Quiet, Outside, NoPanic
  <2>3. Lookups'
    <3>1. LooksRight(p)'
      BY <1>s, <1>1, <1>o, <2>o DEF LooksRight, Looking, Taken
    <3>2. \A q \in Procs \ {p} : dirlock = q => dirlock' = q
      BY <1>s
    <3> QED
      BY <1>s, <2>2, <3>1, <3>2, QuietLookups
  <2>4. Inodes'
    BY <1>s, <2>2, <2>o, QuietInodes
  <2> QED
    BY <1>s, <1>5, <2>1, <2>2, <2>3, <2>4, QuietStep DEF IInv, VnodesSound
<1>3. CASE v \notin VXLOCK
  <2>1. Gets(p, v, "cached", "scan") /\ pc[p] \in Outside
    BY <1>s, <1>o, <1>3 DEF Gets, Outside
  <2>2. VnodesSound' /\ VnodeTypes' /\ system' = system
    BY <1>s, <1>1, <1>o, <1>f, <2>1, VgetStep
  <2>3. TypeOK'
    BY <1>s, <1>t, <2>2 DEF IInv, TypeOK, VnodeTypes
  <2>4. \A q \in Procs : pc'[q] = IF q = p THEN "cached" ELSE pc[q]
    <3>1. pc' = [pc EXCEPT ![p] = "cached"]
      BY <1>s, <1>3 DEF vget, ufs_ilock, Goes
    <3> QED
      BY <3>1, Functions
  <2>5. Lookups'
    <3>1. LooksRight(p)'
      BY <1>s, <1>f, <1>o, <2>4 DEF LooksRight, Looking, Taken
    <3>2. \A q \in Procs \ {p} : /\ pc'[q] = pc[q] /\ nm'[q] = nm[q] /\ ino'[q] = ino[q]
                                 /\ vp'[q] = vp[q] /\ gone'[q] = gone[q]
                                 /\ dirlock = q => dirlock' = q
      BY <1>s, <1>o, <2>4
    <3>3. \A q \in Procs : ~Taken(q) /\ pc[q] # "malloc"
      BY <1>a DEF Looking, Taken
    <3> QED
      BY <1>s, <3>1, <3>2, <3>3, LookupsKept
  <2>6. Inodes'
    <3>1. \A q \in Procs : ~Resolved(q)' /\ ~New(q)' /\ pc'[q] # "bread"
      BY <1>a, <1>s, <2>4 DEF New, Resolved, Looking
    <3> QED
      BY <1>s, <3>1 DEF IInv, Inodes
  <2> QED
    BY <1>5, <2>2, <2>3, <2>5, <2>6 DEF IInv, VnodesSound
<1> QED
  BY <1>2, <1>3

LEMMA Keeps_ufs_ihashget ==
  ASSUME IInv, NEW p \in Procs, ufs_ihashget(p)
  PROVE  IInv'
<1> USE Constants DEF disk, cache, Runs, Goes
<1>1. PICK v \in InCore(ino[p]) :
        \/ /\ ILOCKED[v] # NoProc
           /\ IWANT' = IWANT \cup {v}
           /\ wchan' = [wchan EXCEPT ![p] = <<"inode", v>>]
           /\ UNCHANGED <<pc, ilocking, vp, v_usecount, vfree, VXWANT, ILOCKED, system>>
        \/ /\ ILOCKED[v] = NoProc
           /\ vp' = [vp EXCEPT ![p] = v]
           /\ vget(p, v, "found", "ihash")
  BY DEF ufs_ihashget
<1>2. v \in Vnodes /\ v \in ihash /\ i_number[v] = ino[p]
  BY DEF InCore, IInv, TypeOK
<1>s. /\ system = "runs" /\ pc[p] = "ihash" /\ p \notin ilocking
      /\ UNCHANGED <<op, nm, ino, fd, opened, gone, allocated, VXLOCK, VBAD, v_mount,
                     i_number, ihash, i_mode, nc, numcache, dir, inodes, di_mode, dirlock, flushed>>
  BY DEF ufs_ihashget
<1>3. CASE ILOCKED[v] # NoProc \/ v \in VXLOCK
  <2>1. /\ pc' = pc /\ wchan' \in {[wchan EXCEPT ![p] = <<c, v>>] : c \in {"vnode", "inode"}}
        /\ VXWANT' \in {VXWANT, VXWANT \cup {v}} /\ IWANT' \in {IWANT, IWANT \cup {v}}
        /\ vp' \in {vp, [vp EXCEPT ![p] = v]}
        /\ UNCHANGED <<v_usecount, vfree, system, ilocking, ILOCKED>>
    <3>1. [pc EXCEPT ![p] = "ihash"] = pc
      BY <1>s DEF IInv, TypeOK
    <3> QED
      BY <1>1, <1>3, <3>1 DEF vget, AwaitClean
  <2>2. wchan' \in [Procs -> {NoChan} \cup ({"vnode", "inode"} \X Vnodes)]
    <3>1. PICK c \in {"vnode", "inode"} : wchan' = [wchan EXCEPT ![p] = <<c, v>>]
      BY <2>1
    <3> QED
      BY <1>2, <3>1, SleepTypes
  <2>3. TypeOK'
    BY <1>2, <1>s, <2>1, <2>2 DEF IInv, TypeOK
  <2>4. Quiet(p)
    BY <1>s, <2>1 DEF IInv, TypeOK, Quiet, Outside, NoPanic
  <2>5. Lookups' /\ EntriesSound'
    <3>1. LooksRight(p)'
      BY <1>s, <2>1, LooksAll DEF IInv, LooksRight, Looking, Taken
    <3>2. EntriesSound'
      BY <1>s DEF IInv, EntriesSound
    <3> QED
      BY <1>s, <2>4, <3>1, <3>2, QuietLookups
  <2>6. Inodes'
    BY <1>s, <2>1, <2>4, QuietInodes
  <2> QED
    BY <1>s, <2>3, <2>4, <2>5, <2>6, QuietStep DEF IInv, VnodesSound
<1>4. CASE ILOCKED[v] = NoProc /\ v \notin VXLOCK
  <2>1. Is(v, ino[p])
    <3>1. Resolved(p)
      BY <1>s DEF Resolved, Looking
    <3>2. ino[p] \in inodes \cup {NoFile}
      BY <3>1 DEF IInv, Inodes, Lookups, Resolved
    <3> QED
      BY <1>2, <3>2 DEF Is
  <2>2. Gets(p, v, "found", "ihash") /\ pc[p] \in Outside
    BY <1>1, <1>4, <1>s DEF Gets, Outside
  <2>3. VnodesSound' /\ VnodeTypes' /\ system' = system
    BY <1>2, <1>4, <1>s, <2>1, <2>2, VgetStep
  <2>4. TypeOK'
    BY <1>s, <2>3 DEF IInv, TypeOK, VnodeTypes
  <2>5. \A q \in Procs : /\ Looking(q) => q = p
                         /\ pc'[q] = IF q = p THEN "found" ELSE pc[q]
                         /\ q # p => vp'[q] = vp[q]
    <3>1. Looking(p)
      BY <1>s DEF Looking
    <3>2. \A q \in Procs : Looking(q) => q = p
      BY <3>1 DEF IInv, Lookups
    <3>3. pc' = [pc EXCEPT ![p] = "found"]
      BY <1>1, <1>4 DEF vget, ufs_ilock
    <3>4. vp' = [vp EXCEPT ![p] = v]
      BY <2>2 DEF Gets
    <3> QED
      BY <3>2, <3>3, <3>4, Functions
  <2>6. Lookups'
    <3>1. LooksRight(p)
      BY LooksAll DEF IInv
    <3>2. LooksRight(p)'
      BY <1>s, <2>5, <3>1 DEF LooksRight, Looking, Taken
    <3>3. \A q \in Procs \ {p} : InCore(ino[q])' \subseteq InCore(ino[q])
      BY <1>s DEF InCore
    <3> QED
      BY <1>s, <2>5, <3>2, <3>3, LookupsKept
  <2>7. Inodes'
    <3>1. \A q \in Procs : Resolved(q)' => Resolved(q)
      BY <1>s, <2>5 DEF Resolved, Looking
    <3>2. \A q \in Procs : pc'[q] # "bread"
      BY <1>s, <2>5 DEF Looking
    <3>3. \A q \in Procs : New(q)' =>
            (InCore(ino[q]) \cap i_mode)' \subseteq InCore(ino[q]) \cap i_mode
      BY <1>s DEF InCore
    <3> QED
      BY <1>s, <3>1, <3>2, <3>3, InodesKept
  <2>8. EntriesSound'
    BY <1>s DEF IInv, EntriesSound
  <2> QED
    BY <2>3, <2>4, <2>6, <2>7, <2>8 DEF IInv, VnodesSound
<1> QED
  BY <1>3, <1>4

LEMMA Keeps_ffs_sync ==
  ASSUME IInv, NEW p \in Procs, ffs_sync(p)
  PROVE  IInv'
<1> USE Constants DEF disk, cache, Runs, Goes
<1>1. PICK v \in v_mount :
        \/ /\ i_number[v] = NoFile
           /\ system' = "v_data is null"
           /\ UNCHANGED <<pc, ino, vp, v_usecount, vfree, VXWANT, wchan, ilocking, ILOCKED, IWANT>>
        \/ /\ i_number[v] # NoFile /\ ILOCKED[v] = NoProc
           /\ vp' = [vp EXCEPT ![p] = v] /\ ino' = [ino EXCEPT ![p] = i_number[v]]
           /\ vget(p, v, "fsync", "sync")
  BY DEF ffs_sync
<1>2. v \in Vnodes /\ (i_number[v] # NoFile => v \in ihash)
  BY DEF IInv, TypeOK, Contents
<1>s. /\ system = "runs" /\ pc[p] = "sync" /\ p \notin ilocking
      /\ UNCHANGED <<op, nm, fd, opened, gone, allocated, VXLOCK, VBAD, v_mount,
                     i_number, ihash, i_mode, nc, numcache, dir, inodes, di_mode, dirlock, flushed>>
  BY DEF ffs_sync
<1>3. CASE i_number[v] = NoFile \/ v \in VXLOCK
  <2>1. /\ pc' = pc /\ wchan' \in {wchan, [wchan EXCEPT ![p] = <<"vnode", v>>]}
        /\ VXWANT' \in {VXWANT, VXWANT \cup {v}}
        /\ vp' \in {vp, [vp EXCEPT ![p] = v]} /\ ino' \in {ino, [ino EXCEPT ![p] = i_number[v]]}
        /\ system' \in {system, "v_data is null"}
        /\ UNCHANGED <<v_usecount, vfree, ilocking, ILOCKED, IWANT>>
    <3>1. [pc EXCEPT ![p] = "sync"] = pc
      BY <1>s DEF IInv, TypeOK
    <3> QED
      BY <1>1, <1>3, <3>1 DEF vget, AwaitClean
  <2>2. wchan' \in [Procs -> {NoChan} \cup ({"vnode", "inode"} \X Vnodes)]
    <3>1. /\ wchan \in [Procs -> {NoChan} \cup ({"vnode", "inode"} \X Vnodes)]
          /\ [wchan EXCEPT ![p] = <<"vnode", v>>]
               \in [Procs -> {NoChan} \cup ({"vnode", "inode"} \X Vnodes)]
      BY <1>2, SleepTypes DEF IInv, TypeOK
    <3> QED
      BY <2>1, <3>1
  <2>3. TypeOK'
    <3>1. ino' \in [Procs -> Files \cup {NoFile}] /\ vp' \in [Procs -> Vnodes \cup {NoVnode}]
      <4>1. /\ i_number[v] \in Files \cup {NoFile} /\ ino \in [Procs -> Files \cup {NoFile}]
            /\ vp \in [Procs -> Vnodes \cup {NoVnode}]
        BY <1>2 DEF IInv, TypeOK
      <4>2. [ino EXCEPT ![p] = i_number[v]] \in [Procs -> Files \cup {NoFile}]
        BY <4>1
      <4>3. [vp EXCEPT ![p] = v] \in [Procs -> Vnodes \cup {NoVnode}]
        BY <1>2, <4>1
      <4> QED
        BY <2>1, <4>1, <4>2, <4>3
    <3> QED
      BY <1>2, <1>s, <2>1, <2>2, <3>1 DEF IInv, TypeOK
  <2>4. Quiet(p)
    <3>1. wchan \in [Procs -> {NoChan} \cup ({"vnode", "inode"} \X Vnodes)]
      BY DEF IInv, TypeOK
    <3>2. \A q \in Procs \ {p} : wchan'[q] = wchan[q]
      BY <2>1, <3>1
    <3>3. \A q \in Procs \ {p} : vp'[q] = vp[q] /\ ino'[q] = ino[q]
      BY <2>1, Functions
    <3>4. system' \notin Panics
      BY <1>s, <2>1 DEF Panics
    <3> QED
      BY <1>s, <2>1, <3>2, <3>3, <3>4 DEF Quiet, Outside
  <2>5. Lookups' /\ EntriesSound'
    <3>1. LooksRight(p)'
      BY <1>s, <2>1 DEF LooksRight, Looking, Taken
    <3>2. EntriesSound'
      BY <1>s DEF IInv, EntriesSound
    <3> QED
      BY <1>s, <2>4, <3>1, <3>2, QuietLookups
  <2>6. Inodes'
    BY <1>s, <2>1, <2>4, QuietInodes
  <2> QED
    BY <1>s, <2>3, <2>4, <2>5, <2>6, QuietStep DEF IInv, VnodesSound
<1>4. CASE i_number[v] # NoFile /\ v \notin VXLOCK
  <2>2. Gets(p, v, "fsync", "sync") /\ pc[p] \in Outside
    BY <1>1, <1>4, <1>s DEF Gets, Outside, IInv, TypeOK
  <2>3. VnodesSound' /\ VnodeTypes' /\ system' = system
    BY <1>1, <1>2, <1>4, <1>s, <2>2, VgetStep DEF IInv, TypeOK
  <2>4. TypeOK'
    BY <1>1, <1>2, <1>4, <1>s, <2>3 DEF IInv, TypeOK, VnodeTypes
  <2>5. \A q \in Procs : /\ pc'[q] = IF q = p THEN "fsync" ELSE pc[q]
                         /\ q # p => ino'[q] = ino[q] /\ vp'[q] = vp[q]
    <3>1. pc' = [pc EXCEPT ![p] = "fsync"]
      BY <1>1, <1>4 DEF vget, ufs_ilock
    <3> QED
      BY <1>1, <1>4, <3>1 DEF IInv, TypeOK
  <2>6. Lookups' /\ EntriesSound'
    <3>1. LooksRight(p)'
      BY <2>5 DEF LooksRight, Looking, Taken
    <3>2. EntriesSound'
      BY <1>s DEF IInv, EntriesSound
    <3>3. \A q \in Procs \ {p} : InCore(ino[q])' \subseteq InCore(ino[q])
      BY <1>s, <2>5 DEF InCore
    <3> QED
      BY <1>s, <2>5, <3>1, <3>2, <3>3, LookupsKept
  <2>7. Inodes'
    <3>1. \A q \in Procs : Resolved(q)' => q # p /\ Resolved(q) /\ ino'[q] = ino[q]
      BY <1>s, <2>5 DEF Resolved, Looking
    <3>2. \A q \in Procs : New(q)' => q # p /\ New(q) /\ ino'[q] = ino[q]
      BY <1>s, <3>1 DEF New
    <3>3. \A q \in Procs : (pc[q] = "bread" => i_number[vp[q]] = ino[q])'
      BY <1>s, <2>5 DEF IInv, Inodes
    <3>4. \A q \in Procs : New(q)' => (pc[q] = "bread" => ino[q] \notin di_mode)'
      BY <1>s, <2>5, <3>2 DEF IInv, Inodes
    <3>5. \A q \in Procs : New(q)' =>
            (InCore(ino[q]) \cap i_mode)' \subseteq InCore(ino[q]) \cap i_mode
      BY <1>s, <3>2 DEF InCore
    <3> QED
      BY <1>s, <3>1, <3>3, <3>4, <3>5, InodesKept
  <2> QED
    BY <2>3, <2>4, <2>6, <2>7 DEF IInv, VnodesSound
<1> QED
  BY <1>3, <1>4


-----------------------------------------------------------------------------
(* Steps that keep the inodes in core.                                       *)

\* What is known of i_mode stays so when no inode changes, and ffs_vget, ffs_inactive
\* and those who use a vnode go on.
LEMMA ModesKept ==
  ASSUME IInv, UNCHANGED <<ihash, i_number, i_mode, dir, inodes, di_mode>>,
         \A q \in Procs : pc[q] \in {"bread", "update", "inactive"} =>
                            pc'[q] = pc[q] /\ vp'[q] = vp[q],
         \A w \in Vnodes : v_usecount[w] > 0 => v_usecount'[w] > 0
  PROVE  Modes' /\ Doomed'
<1>1. Modes'
  <2>1. ASSUME NEW w \in ihash, \E q \in Procs : pc[q] \in {"bread", "update"} /\ vp[q] = w
        PROVE  \E q \in Procs : pc'[q] \in {"bread", "update"} /\ vp'[q] = w
    <3>1. PICK q \in Procs : pc[q] \in {"bread", "update"} /\ vp[q] = w
      BY <2>1
    <3>2. pc'[q] \in {"bread", "update"} /\ vp'[q] = w
      BY <3>1
    <3> QED
      BY <3>2
  <2> QED
    BY <2>1 DEF IInv, Modes, Linked
<1>2. Doomed'
  <2>1. i_mode \subseteq Vnodes
    BY DEF IInv, TypeOK
  <2>2. ASSUME NEW w \in i_mode, \E q \in Procs : pc[q] = "inactive" /\ vp[q] = w
        PROVE  \E q \in Procs : pc'[q] = "inactive" /\ vp'[q] = w
    <3>1. PICK q \in Procs : pc[q] = "inactive" /\ vp[q] = w
      BY <2>2
    <3>2. pc'[q] = "inactive" /\ vp'[q] = w
      BY <3>1
    <3> QED
      BY <3>2
  <2> QED
    BY <2>1, <2>2 DEF IInv, Doomed, InCore, Linked
<1> QED
  BY <1>1, <1>2

\* References stay safe when nobody gets a new one, and no vnode that is kept or
\* that is a file's loses that.
LEMMA ReferencesStay ==
  ASSUME IInv,
         \A w \in Vnodes : Kept(w) => Kept(w)',
         \A f : \A w \in Vnodes : Kept(w) /\ Is(w, f) => Is(w, f)',
         \A w \in Vnodes : Kept(w) => i_number'[w] = i_number[w],
         \A q \in Procs : fd'[q] # NoVnode => fd'[q] = fd[q] /\ opened'[q] = opened[q],
         \A q \in Procs : pc'[q] \in {"cached", "found", "enter", "has", "bad"} =>
           /\ pc[q] \in {"cached", "found", "enter", "has", "bad"}
           /\ vp'[q] = vp[q] /\ ino'[q] = ino[q],
         \A q \in Procs : pc'[q] = "fsync" =>
           pc[q] = "fsync" /\ vp'[q] = vp[q] /\ ino'[q] = ino[q]
  PROVE  ReferencesSafe'
<1>1. \A w : Kept(w) => w \in Vnodes
  BY DEF Kept, IInv, TypeOK
<1>2. ASSUME NEW q \in Procs, fd'[q] # NoVnode
      PROVE  Kept(fd[q])' /\ Is(fd[q], opened[q])'
  <2>1. PICK w, f : w = fd[q] /\ f = opened[q]
    OBVIOUS
  <2>2. Kept(w) /\ Is(w, f) /\ fd'[q] = w /\ opened'[q] = f
    BY <1>2, <2>1 DEF IInv, ReferencesSafe
  <2>3. Kept(w)' /\ Is(w, f)'
    BY <1>1, <2>2
  <2> QED
    BY <2>2, <2>3 DEF Kept, Is, Free
<1>3. ASSUME NEW q \in Procs, pc'[q] \in {"cached", "found", "enter", "has", "bad"}
      PROVE  Kept(vp[q])' /\ Is(vp[q], ino[q])'
  <2>1. PICK w, f : w = vp[q] /\ f = ino[q]
    OBVIOUS
  <2>2. Kept(w) /\ Is(w, f) /\ vp'[q] = w /\ ino'[q] = f
    BY <1>3, <2>1 DEF IInv, ReferencesSafe
  <2>3. Kept(w)' /\ Is(w, f)'
    BY <1>1, <2>2
  <2> QED
    BY <2>2, <2>3 DEF Kept, Is, Free
<1>4. ASSUME NEW q \in Procs, pc'[q] = "fsync"
      PROVE  Kept(vp[q])' /\ i_number'[vp'[q]] = ino'[q]
  <2>1. PICK w : w = vp[q]
    OBVIOUS
  <2>2. Kept(w) /\ i_number[w] = ino[q] /\ vp'[q] = w /\ ino'[q] = ino[q]
    BY <1>4, <2>1 DEF IInv, ReferencesSafe
  <2>3. Kept(w)' /\ i_number'[w] = i_number[w]
    BY <1>1, <2>2
  <2> QED
    BY <2>2, <2>3 DEF Kept, Free
<1> QED
  BY <1>2, <1>3, <1>4 DEF ReferencesSafe
-----------------------------------------------------------------------------
(* The begin of vgone.                                                       *)

\* p begins to empty v, which nobody uses, and goes on at place then.
Empties(p, v, place) ==
  /\ VXLOCK' = VXLOCK \cup {v} /\ gone' = [gone EXCEPT ![p] = place]
  /\ ufs_ilock(p, v, "cleaning") /\ vp' = [vp EXCEPT ![p] = v]
  /\ \/ place = "fresh" /\ vfree # <<>> /\ v = Head(vfree) /\ vfree' = Tail(vfree)
     \/ place = "vflush" /\ UNCHANGED vfree
  /\ UNCHANGED <<op, nm, ino, fd, opened, allocated, v_usecount, VXWANT, VBAD, v_mount,
                 i_number, ihash, i_mode, nc, numcache, disk, dirlock, system>>

LEMMA EmptiesStep ==
  ASSUME IInv, NEW p \in Procs, NEW v \in ihash, v \notin VXLOCK, v_usecount[v] = 0,
         NEW place \in {"fresh", "vflush"}, pc[p] \in Outside, p \notin ilocking,
         Empties(p, v, place)
  PROVE  VnodesSound' /\ VnodeTypes'
<1>v. v \in Vnodes /\ v \in allocated
  BY DEF IInv, TypeOK, Contents
<1>t. VnodeTypes
  BY DEF IInv, TypeOK, VnodeTypes
<1> USE Constants DEF VnodeTypes
<1>s. /\ pc' = [pc EXCEPT ![p] = "cleaning"] /\ vp' = [vp EXCEPT ![p] = v]
      /\ VXLOCK' = VXLOCK \cup {v} /\ gone' = [gone EXCEPT ![p] = place]
      /\ UNCHANGED <<op, nm, ino, fd, opened, allocated, v_usecount, VXWANT, VBAD, v_mount,
                     i_number, ihash, i_mode, nc, numcache, dir, inodes, di_mode, dirlock, system>>
  BY DEF Empties, ufs_ilock, Goes, disk
<1>l. \/ /\ ILOCKED[v] = NoProc /\ ILOCKED' = [ILOCKED EXCEPT ![v] = p]
         /\ ilocking' = ilocking /\ UNCHANGED <<IWANT, wchan>>
      \/ /\ ILOCKED[v] # NoProc /\ ILOCKED' = ILOCKED /\ ilocking' = ilocking \cup {p}
         /\ IWANT' = IWANT \cup {v} /\ wchan' = [wchan EXCEPT ![p] = <<"inode", v>>]
  BY DEF Empties, ufs_ilock
<1>o. \A q \in Procs : q # p => /\ pc'[q] = pc[q] /\ vp'[q] = vp[q] /\ gone'[q] = gone[q]
                                /\ wchan'[q] = wchan[q]
  BY <1>t, <1>s, <1>l
<1>p. pc'[p] = "cleaning" /\ vp'[p] = v /\ gone'[p] = place
  BY <1>t, <1>s
<1>1. NoPanic'
  BY <1>s DEF IInv, NoPanic
<1>2. /\ \A w \in Vnodes : Opens(w)' = Opens(w) /\ Uses(w)' = Uses(w)
      /\ Opens(v) = {} /\ Uses(v) = {}
  BY <1>v, <1>s, <1>o, <1>p, NoUsers DEF IInv, Opens, Uses, Using, Outside
<1>3. Counted'
  BY <1>s, <1>2, SameUsers DEF IInv
<1>4. /\ vfree' \in Seq(allocated') /\ Once(vfree')
      /\ \A w : Free(w)' <=> Free(w) /\ (place = "fresh" => w # v)
  <2>0. Once(vfree) /\ vfree \in Seq(allocated)
    BY <1>t DEF IInv, FreeList, Once
  <2>1. CASE place = "fresh"
    <3>1. vfree # <<>> /\ v = Head(vfree) /\ vfree' = Tail(vfree)
      BY <2>1 DEF Empties
    <3>2. /\ Tail(vfree) \in Seq(allocated) /\ Once(Tail(vfree))
          /\ Range(Tail(vfree)) = Range(vfree) \ {v}
      BY <2>0, <3>1, TailOnce
    <3> QED
      BY <1>s, <2>1, <3>1, <3>2 DEF Free
  <2>2. CASE place = "vflush"
    BY <1>s, <2>0, <2>2 DEF Empties, Free
  <2> QED
    BY <2>1, <2>2
<1>5. \A q \in Procs : /\ q # p => (Taken(q)' <=> Taken(q)) /\ (Taken(q) => vp[q] # v)
                       /\ ~Taken(p) /\ (Taken(p)' <=> place = "fresh")
  BY <1>o, <1>p DEF Taken, Outside, IInv, Contents, Cleaned
<1>6. FreeList'
  <2>1. \A w \in allocated' : Free(w)' => v_usecount'[w] = 0
    BY <1>s, <1>4 DEF IInv, FreeList
  <2>2. \A q \in Procs : Taken(q)' => /\ vp'[q] \in allocated' /\ ~Free(vp[q])'
                                      /\ v_usecount'[vp'[q]] = 0
    BY <1>v, <1>s, <1>o, <1>p, <1>4, <1>5 DEF IInv, FreeList
  <2>3. ASSUME NEW w \in allocated', v_usecount'[w] = 0
        PROVE  Free(w)' \/ \E q \in Procs : Taken(q)' /\ vp'[q] = w
    <3>1. Free(w) \/ \E q \in Procs : Taken(q) /\ vp[q] = w
      BY <1>s, <2>3 DEF IInv, FreeList
    <3> QED
      BY <1>o, <1>p, <1>4, <1>5, <3>1
  <2> QED
    BY <1>4, <2>1, <2>2, <2>3 DEF FreeList, Once
<1>7. Contents'
  BY <1>s, <1>o, <1>p DEF IInv, Contents, Outside
<1>8. Cleaned'
  BY <1>v, <1>s, <1>o, <1>p DEF IInv, Cleaned
<1>9. Locks'
  BY <1>s, <1>o, <1>p, LockStep DEF Empties, Locking, Outside
<1>10. Inactive'
  <2>1. \A q \in Procs : pc'[q] \in {"inactive", "update"} =>
          q # p /\ pc'[q] = pc[q] /\ vp'[q] = vp[q] /\ vp[q] \in Vnodes
    BY <1>o, <1>p, Holders DEF Locking
  <2>2. ilocking \subseteq ilocking'
    BY <1>l
  <2> QED
    BY <1>s, <1>2, <2>1, <2>2 DEF IInv, Inactive, Linked
<1>11. Modes' /\ Doomed'
  <2>1. \A q \in Procs : pc[q] \in {"bread", "update", "inactive"} =>
                            pc'[q] = pc[q] /\ vp'[q] = vp[q]
    BY <1>o DEF Outside
  <2> QED
    BY <1>s, <2>1, ModesKept
<1>12. OneVnodePerFile'
  BY <1>s DEF IInv, OneVnodePerFile
<1>13. ReferencesSafe'
  <2>1. \A w \in Vnodes : Kept(w) => Kept(w)'
    BY <1>v, <1>s, <1>4 DEF Kept
  <2>2. \A f : \A w \in Vnodes : Is(w, f) => Is(w, f)'
    BY <1>s DEF Is
  <2> QED
    BY <1>s, <1>o, <1>p, <2>1, <2>2, ReferencesStay
<1>14. VnodeTypes'
  <2>1. /\ wchan' \in [Procs -> {NoChan} \cup ({"vnode", "inode"} \X Vnodes)]
        /\ ilocking' \subseteq Procs /\ IWANT' \subseteq Vnodes
        /\ ILOCKED' \in [Vnodes -> Procs \cup {NoProc}]
    BY <1>v, LockTypes DEF Empties
  <2> QED
    BY <1>v, <1>t, <1>s, <1>4, <2>1 DEF Places
<1> QED
  BY <1>1, <1>3, <1>6, <1>7, <1>8, <1>9, <1>10, <1>11, <1>12, <1>13, <1>14 DEF VnodesSound

LEMMA Keeps_vflush ==
  ASSUME IInv, NEW p \in Procs, vflush(p)
  PROVE  IInv'
<1> USE Constants DEF Goes
<1>1. PICK v \in v_mount \ flushed :
        /\ flushed' = flushed \cup {v}
        /\ \/ /\ Unused(v)
              /\ vp' = [vp EXCEPT ![p] = v]
              /\ vgone(p, v, "vflush")
           \/ ~Unused(v) /\ UNCHANGED <<pc, vp, VXLOCK, VXWANT, wait, ILOCKED, IWANT>>
  BY DEF vflush
<1>s. /\ system = "runs" /\ pc[p] = "vflush" /\ p \notin ilocking
      /\ UNCHANGED <<op, nm, ino, fd, opened, allocated, vfree, v_usecount, VBAD, v_mount,
                     i_number, ihash, i_mode, nc, numcache, dir, inodes, di_mode, dirlock, system>>
  BY DEF vflush, Runs, disk, cache
<1>2. v \in Vnodes /\ flushed' \subseteq Vnodes
  <2>1. v \in Vnodes /\ flushed \subseteq Vnodes
    BY DEF IInv, TypeOK
  <2> QED
    BY <1>1, <2>1
<1>3. CASE ~Unused(v) \/ v \in VXLOCK
  <2>1. /\ pc' = pc /\ wchan' \in {wchan, [wchan EXCEPT ![p] = <<"vnode", v>>]}
        /\ VXWANT' \in {VXWANT, VXWANT \cup {v}} /\ vp' \in {vp, [vp EXCEPT ![p] = v]}
        /\ UNCHANGED <<VXLOCK, gone, ilocking, ILOCKED, IWANT>>
    <3>1. [pc EXCEPT ![p] = "vflush"] = pc
      BY <1>s DEF IInv, TypeOK
    <3> QED
      BY <1>1, <1>3, <3>1 DEF vgone, AwaitClean, wait
  <2>2. wchan' \in [Procs -> {NoChan} \cup ({"vnode", "inode"} \X Vnodes)]
    <3>1. [wchan EXCEPT ![p] = <<"vnode", v>>]
            \in [Procs -> {NoChan} \cup ({"vnode", "inode"} \X Vnodes)]
      BY <1>2, SleepTypes
    <3> QED
      BY <2>1, <3>1 DEF IInv, TypeOK
  <2>3. TypeOK'
    <3>1. vp' \in [Procs -> Vnodes \cup {NoVnode}] /\ VXWANT' \subseteq Vnodes
      <4>1. [vp EXCEPT ![p] = v] \in [Procs -> Vnodes \cup {NoVnode}]
        BY <1>2 DEF IInv, TypeOK
      <4>2. vp \in [Procs -> Vnodes \cup {NoVnode}] /\ VXWANT \subseteq Vnodes
        BY DEF IInv, TypeOK
      <4> QED
        BY <1>2, <2>1, <4>1, <4>2
    <3> QED
      BY <1>2, <1>s, <2>1, <2>2, <3>1 DEF IInv, TypeOK
  <2>4. Quiet(p)
    BY <1>s, <2>1 DEF IInv, TypeOK, Quiet, Outside, NoPanic
  <2>5. Lookups' /\ EntriesSound'
    <3>1. LooksRight(p)'
      BY <1>s, <2>1, NotLooking
    <3>2. EntriesSound'
      BY <1>s DEF IInv, EntriesSound
    <3> QED
      BY <1>s, <2>4, <3>1, <3>2, QuietLookups
  <2>6. Inodes'
    BY <1>s, <2>1, <2>4, QuietInodes
  <2> QED
    BY <1>s, <2>3, <2>4, <2>5, <2>6, QuietStep DEF IInv, VnodesSound
<1>4. CASE Unused(v) /\ v \notin VXLOCK
  <2>1. v_usecount[v] = 0 /\ Opens(v) = {} /\ Uses(v) = {}
    BY <1>2, <1>4, NoUsers DEF IInv, Unused
  <2>2. v \in ihash
    BY <1>1, <2>1 DEF IInv, Contents, Uses, Using
  <2>3. Empties(p, v, "vflush")
    BY <1>1, <1>4, <1>s DEF Empties, vgone, vclean, disk, cache
  <2>4. VnodesSound' /\ VnodeTypes'
    BY <1>4, <1>s, <2>1, <2>2, <2>3, EmptiesStep DEF Outside
  <2>5. TypeOK'
    BY <1>2, <1>s, <2>4 DEF IInv, TypeOK, VnodeTypes
  <2>6. \A q \in Procs : /\ pc'[q] = IF q = p THEN "cleaning" ELSE pc[q]
                         /\ gone'[q] = IF q = p THEN "vflush" ELSE gone[q]
                         /\ vp'[q] = IF q = p THEN v ELSE vp[q]
    <3>1. /\ pc' = [pc EXCEPT ![p] = "cleaning"] /\ gone' = [gone EXCEPT ![p] = "vflush"]
          /\ vp' = [vp EXCEPT ![p] = v]
      BY <2>3 DEF Empties, ufs_ilock
    <3> QED
      BY <3>1, Functions
  <2>7. Lookups' /\ EntriesSound'
    <3>1. LooksRight(p)'
      BY <2>6 DEF LooksRight, Looking, Taken
    <3>2. EntriesSound'
      BY <1>s DEF IInv, EntriesSound
    <3>3. \A q \in Procs \ {p} : InCore(ino[q])' \subseteq InCore(ino[q])
      BY <1>s DEF InCore
    <3> QED
      BY <1>s, <2>6, <3>1, <3>2, <3>3, LookupsKept
  <2>8. Inodes'
    <3>1. \A q \in Procs : /\ Resolved(q)' => q # p /\ Resolved(q)
                           /\ New(q)' => q # p /\ New(q)
      BY <1>s, <2>6 DEF New, Resolved, Looking
    <3>2. \A q \in Procs : (pc[q] = "bread" => i_number[vp[q]] = ino[q])'
      BY <1>s, <2>6 DEF IInv, Inodes
    <3>3. \A q \in Procs : New(q)' => (pc[q] = "bread" => ino[q] \notin di_mode)'
      BY <1>s, <2>6, <3>1 DEF IInv, Inodes
    <3>4. \A q \in Procs : New(q)' =>
            (InCore(ino[q]) \cap i_mode)' \subseteq InCore(ino[q]) \cap i_mode
      BY <1>s DEF InCore
    <3> QED
      BY <1>s, <3>1, <3>2, <3>3, <3>4, InodesKept
  <2> QED
    BY <2>4, <2>5, <2>7, <2>8 DEF IInv, VnodesSound
<1> QED
  BY <1>3, <1>4

\* The vnode that getnewvnode takes is not in use.
LEMMA FirstUnused ==
  ASSUME IInv, vfree # <<>>
  PROVE  LET v == Head(vfree)
         IN  /\ v \in Vnodes /\ v \in allocated /\ Free(v) /\ v_usecount[v] = 0
             /\ Opens(v) = {} /\ Uses(v) = {}
             /\ v \in VBAD \/ v \in ihash
             /\ Tail(vfree) \in Seq(allocated) /\ Once(Tail(vfree))
             /\ \A w : w \in Range(Tail(vfree)) <=> Free(w) /\ w # v
             /\ \A q \in Procs : Taken(q) => vp[q] # v
<1> DEFINE v == Head(vfree)
<1>1. vfree \in Seq(allocated) /\ Once(vfree) /\ allocated \subseteq Vnodes
  BY DEF IInv, TypeOK, FreeList, Once
<1>2. /\ v \in Range(vfree) /\ v \in allocated /\ Tail(vfree) \in Seq(allocated)
      /\ Once(Tail(vfree)) /\ Range(Tail(vfree)) = Range(vfree) \ {v}
  BY <1>1, TailOnce
<1>3. v_usecount[v] = 0 /\ \A q \in Procs : Taken(q) => vp[q] # v
  BY <1>2 DEF IInv, FreeList, Free
<1>4. Opens(v) = {} /\ Uses(v) = {}
  BY <1>1, <1>2, <1>3, NoUsers DEF IInv
<1>5. v \in VBAD \/ v \in ihash
  BY <1>2, <1>4 DEF IInv, Contents, Uses, Using
<1> QED
  BY <1>1, <1>2, <1>3, <1>4, <1>5 DEF Free

\* p has taken v off the free list: v is bad, or being emptied by another.
LEMMA TakesStep ==
  ASSUME IInv, NEW p \in Procs, pc[p] = "ihash", p \notin ilocking, vfree # <<>>,
         NEW v, v = Head(vfree), vfree' = Tail(vfree),
         v \in VBAD \/ (v \in VXLOCK /\ wchan'[p] = <<"vnode", v>>),
         pc' = [pc EXCEPT ![p] = "fresh"], vp' = [vp EXCEPT ![p] = v],
         \A q \in Procs \ {p} : wchan'[q] = wchan[q],
         UNCHANGED <<op, nm, ino, fd, opened, ilocking, gone, allocated, v_usecount, VXLOCK,
                     VBAD, v_mount, i_number, ihash, ILOCKED, i_mode, dir, inodes, di_mode, system>>
  PROVE  VnodesSound'
<1>v. /\ v \in Vnodes /\ v \in allocated /\ Free(v) /\ v_usecount[v] = 0
      /\ Opens(v) = {} /\ Uses(v) = {} /\ Once(vfree')
      /\ \A w : Free(w)' <=> Free(w) /\ w # v
      /\ \A q \in Procs : Taken(q) => vp[q] # v
  BY FirstUnused DEF Free
<1>o. \A q \in Procs : /\ pc'[q] = IF q = p THEN "fresh" ELSE pc[q]
                       /\ vp'[q] = IF q = p THEN v ELSE vp[q]
  BY DEF IInv, TypeOK
<1>1. NoPanic'
  BY DEF IInv, NoPanic
<1>2. \A w \in Vnodes : Opens(w)' = Opens(w) /\ Uses(w)' = Uses(w)
  BY <1>o DEF Opens, Uses, Using
<1>3. Counted'
  BY <1>2, SameUsers DEF IInv
<1>4. \A q \in Procs : Taken(q)' <=> Taken(q) \/ q = p
  BY <1>o DEF Taken
<1>5. FreeList'
  <2>1. \A w \in allocated' : Free(w)' => v_usecount'[w] = 0
    BY <1>v DEF IInv, FreeList
  <2>2. \A q \in Procs : Taken(q)' => /\ vp'[q] \in allocated' /\ ~Free(vp[q])'
                                      /\ v_usecount'[vp'[q]] = 0
    BY <1>v, <1>o, <1>4 DEF IInv, FreeList
  <2>3. ASSUME NEW w \in allocated', v_usecount'[w] = 0
        PROVE  Free(w)' \/ \E q \in Procs : Taken(q)' /\ vp'[q] = w
    <3>1. Free(w) \/ \E q \in Procs : Taken(q) /\ vp[q] = w
      BY <2>3 DEF IInv, FreeList
    <3>2. ~Taken(p)
      BY DEF Taken
    <3> QED
      BY <1>v, <1>o, <1>4, <3>1, <3>2
  <2> QED
    BY <1>v, <2>1, <2>2, <2>3 DEF FreeList, Once
<1>6. Contents'
  BY <1>v, <1>o DEF IInv, Contents
<1>7. Cleaned'
  BY <1>o DEF IInv, Cleaned
<1>8. Locks'
  <2>1. ilocking \subseteq Procs /\ \A w \in Vnodes : ILOCKED[w] # NoProc => ILOCKED[w] \in Procs
    BY DEF IInv, TypeOK
  <2> QED
    BY <1>o, <2>1 DEF IInv, Locks, Locking
<1>9. Inactive'
  <2>1. \A q \in Procs : pc'[q] \in {"inactive", "update"} =>
          q # p /\ pc'[q] = pc[q] /\ vp'[q] = vp[q] /\ vp[q] \in Vnodes
    BY <1>o, Holders DEF Locking
  <2> QED
    BY <1>2, <2>1 DEF IInv, Inactive, Linked
<1>10. Modes' /\ Doomed'
  <2>1. \A q \in Procs : pc[q] \in {"bread", "update", "inactive"} =>
                            pc'[q] = pc[q] /\ vp'[q] = vp[q]
    BY <1>o
  <2> QED
    BY <2>1, ModesKept
<1>11. OneVnodePerFile'
  BY DEF IInv, OneVnodePerFile
<1>12. ReferencesSafe'
  <2>1. \A w \in Vnodes : Kept(w) => Kept(w)'
    BY <1>v DEF Kept
  <2>2. \A f : \A w \in Vnodes : Is(w, f) => Is(w, f)'
    BY DEF Is
  <2> QED
    BY <1>o, <2>1, <2>2, ReferencesStay
<1> QED
  BY <1>1, <1>3, <1>5, <1>6, <1>7, <1>8, <1>9, <1>10, <1>11, <1>12 DEF VnodesSound

LEMMA Keeps_getnewvnode ==
  ASSUME IInv, NEW p \in Procs, getnewvnode(p)
  PROVE  IInv'
<1> DEFINE v == Head(vfree)
<1> USE Constants DEF Goes
<1>v. /\ v \in Vnodes /\ v \in allocated /\ v_usecount[v] = 0 /\ vfree # <<>>
      /\ Opens(v) = {} /\ Uses(v) = {}
      /\ v \in VBAD \/ v \in ihash
      /\ Tail(vfree) \in Seq(allocated)
  BY FirstUnused DEF getnewvnode
<1>s. /\ system = "runs" /\ pc[p] = "ihash" /\ p \notin ilocking /\ wchan[p] = NoChan
      /\ InCore(ino[p]) = {} /\ vfree' = Tail(vfree) /\ vp' = [vp EXCEPT ![p] = v]
      /\ UNCHANGED <<op, nm, ino, fd, opened, allocated, v_usecount, VBAD, v_mount, i_number,
                     ihash, i_mode, nc, numcache, dir, inodes, di_mode, dirlock, flushed, system>>
  BY <1>v DEF getnewvnode, Runs, disk, cache
<1>c. \/ v \in VBAD /\ Goes(p, "fresh") /\ UNCHANGED <<VXLOCK, VXWANT, wait, ILOCKED, IWANT>>
      \/ v \notin VBAD /\ vgone(p, v, "fresh")
  BY DEF getnewvnode
<1>1. VnodesSound' /\ VnodeTypes'
  <2>1. CASE v \in VBAD \/ v \in VXLOCK
    <3>1. /\ pc' = [pc EXCEPT ![p] = "fresh"] /\ VXWANT' \in {VXWANT, VXWANT \cup {v}}
          /\ \/ v \in VBAD /\ wchan' = wchan
             \/ v \in VXLOCK /\ wchan' = [wchan EXCEPT ![p] = <<"vnode", v>>]
          /\ UNCHANGED <<VXLOCK, gone, ilocking, ILOCKED, IWANT>>
      BY <1>c, <2>1 DEF vgone, AwaitClean, wait
    <3>2. /\ \A q \in Procs \ {p} : wchan'[q] = wchan[q]
          /\ v \in VBAD \/ (v \in VXLOCK /\ wchan'[p] = <<"vnode", v>>)
      <4>1. wchan \in [Procs -> {NoChan} \cup ({"vnode", "inode"} \X Vnodes)]
        BY DEF IInv, TypeOK
      <4>2. NoChan # <<"vnode", v>>
        BY <1>v
      <4> QED
        BY <3>1, <4>1, <4>2
    <3>3. VnodesSound'
      BY <1>v, <1>s, <3>1, <3>2, TakesStep
    <3>4. wchan' \in [Procs -> {NoChan} \cup ({"vnode", "inode"} \X Vnodes)]
      <4>1. /\ wchan \in [Procs -> {NoChan} \cup ({"vnode", "inode"} \X Vnodes)]
            /\ [wchan EXCEPT ![p] = <<"vnode", v>>]
                 \in [Procs -> {NoChan} \cup ({"vnode", "inode"} \X Vnodes)]
        BY <1>v, SleepTypes DEF IInv, TypeOK
      <4> QED
        BY <3>1, <4>1
    <3> QED
      BY <1>v, <1>s, <3>1, <3>3, <3>4 DEF IInv, TypeOK, VnodeTypes, Places
  <2>2. CASE v \notin VBAD /\ v \notin VXLOCK
    <3>1. Empties(p, v, "fresh") /\ v \in ihash
      BY <1>v, <1>s, <1>c, <2>2 DEF Empties, vgone, vclean, disk, cache
    <3> QED
      BY <1>v, <1>s, <2>2, <3>1, EmptiesStep DEF Outside
  <2> QED
    BY <2>1, <2>2
<1>2. TypeOK'
  BY <1>s, <1>1 DEF IInv, TypeOK, VnodeTypes
<1>3. /\ \A q \in Procs : q # p => pc'[q] = pc[q] /\ gone'[q] = gone[q] /\ vp'[q] = vp[q]
      /\ pc'[p] = "fresh" \/ (pc'[p] = "cleaning" /\ gone'[p] = "fresh")
      /\ \A q \in Procs : q # p /\ q \notin ilocking => q \notin ilocking'
  BY <1>s, <1>c DEF vgone, vclean, AwaitClean, ufs_ilock, wait, IInv, TypeOK
<1>4. \A q \in Procs : Looking(q)' => Looking(q) /\ q = p
  BY <1>s, <1>3 DEF IInv, Lookups, Looking
<1>5. Lookups' /\ EntriesSound'
  <2>1. LooksRight(p)
    BY LooksAll DEF IInv
  <2>2. LooksRight(p)'
    BY <1>s, <1>3, <2>1 DEF LooksRight, Looking, Taken, InCore
  <2>3. EntriesSound'
    BY <1>s DEF IInv, EntriesSound
  <2>4. \A q \in Procs \ {p} : InCore(ino[q])' \subseteq InCore(ino[q])
    BY <1>s DEF InCore
  <2> QED
    BY <1>s, <1>3, <2>2, <2>3, <2>4, LookupsKept
<1>6. Inodes'
  <2>1. \A q \in Procs : Resolved(q)' => Resolved(q) /\ q = p
    BY <1>s, <1>3, <1>4 DEF Resolved, Looking
  <2>2. \A q \in Procs : New(q)' => q = p
    BY <2>1 DEF New
  <2>3. \A q \in Procs : (pc[q] = "bread" => i_number[vp[q]] = ino[q])'
    BY <1>s, <1>3 DEF IInv, Inodes
  <2>4. \A q \in Procs : New(q)' =>
          (InCore(ino[q]) \cap i_mode)' \subseteq InCore(ino[q]) \cap i_mode
    BY <1>s DEF InCore
  <2>5. pc'[p] # "bread"
    BY <1>3
  <2> QED
    BY <1>s, <2>1, <2>2, <2>3, <2>4, <2>5, InodesKept
<1> QED
  BY <1>1, <1>2, <1>5, <1>6 DEF IInv, VnodesSound

-----------------------------------------------------------------------------
(* The rest of getnewvnode and ffs_vget.                                     *)

\* p has a new vnode v, which nobody knows of.
LEMMA NewVnodeStep ==
  ASSUME IInv, NEW p \in Procs, NEW v \in Vnodes, NewVnode(p, v),
         p \notin ilocking, pc[p] \in {"ihash", "fresh"}, wchan[p] = NoChan,
         InCore(ino[p]) = {}, pc[p] = "fresh" => vp[p] = v,
         \/ v \notin allocated /\ allocated' = allocated \cup {v} /\ pc[p] = "ihash"
         \/ v \in VBAD /\ Taken(p) /\ vp[p] = v /\ UNCHANGED allocated,
         system' = "runs",
         UNCHANGED <<op, nm, ino, fd, opened, wait, vfree, inode, disk, dirlock, flushed>>
  PROVE  IInv'
<1> USE Constants DEF NewVnode, Goes, wait, inode, disk
<1>t. VnodeTypes
  BY DEF IInv, TypeOK, VnodeTypes
<1>v. /\ v \notin ihash /\ v \notin VXLOCK /\ i_number[v] = NoFile /\ ~Free(v)
      /\ v_usecount[v] = 0 /\ Opens(v) = {} /\ Uses(v) = {}
  <2>1. v \notin ihash /\ v \notin VXLOCK /\ i_number[v] = NoFile
    BY DEF IInv, Contents, Cleaned
  <2>2. Opens(v) = {}
    BY <2>1 DEF Opens, IInv, ReferencesSafe, Kept
  <2>3. Uses(v) = {}
    BY <2>1 DEF Uses, Using, IInv, ReferencesSafe, Kept, Contents, Locks, Locking
  <2>4. ~Free(v)
    BY FreeAllocated DEF IInv, FreeList
  <2> QED
    BY <2>1, <2>2, <2>3, <2>4, NoUsers DEF IInv
<1>o. \A q \in Procs : /\ pc'[q] = IF q = p THEN "malloc" ELSE pc[q]
                       /\ vp'[q] = IF q = p THEN v ELSE vp[q]
  BY <1>t DEF VnodeTypes
<1>1. /\ \A w \in Vnodes : Opens(w)' = Opens(w)
      /\ \A w \in Vnodes : w # v => Uses(w)' = Uses(w)
      /\ Uses(v)' = Uses(v) \cup {p} /\ p \notin Uses(v)
  BY <1>v, <1>o DEF Opens, Uses, Using
<1>2. Counted' /\ v_usecount' \in [Vnodes -> Nat]
  BY <1>t, <1>1, OneMore DEF IInv, VnodeTypes
<1>3. vfree' \in Seq(allocated')
  BY <1>t, SeqMonotonic DEF VnodeTypes
<1>4. \A q \in Procs : Taken(q)' <=> Taken(q) /\ q # p
  BY <1>o DEF Taken
<1>n. NoPanic'
  BY DEF NoPanic, Panics
<1>5. /\ nc' \in [Names -> Seq(Vnodes \cup {"negative", "stale"})] /\ EntriesSound'
      /\ \A n \in Names : "negative" \in Range(nc'[n]) => "negative" \in Range(nc[n])
  <2>1. TypeOK /\ EntriesSound
    BY DEF IInv
  <2>2. Shrunk(nc')
    BY <2>1, CacheTypes, PurgedShrunk
  <2> QED
    BY <2>1, <2>2, ShrinkStep
<1>5a. TypeOK'
  <2>1. nc' \in [Names -> Seq(Vnodes \cup {"negative", "stale"})] /\ numcache' \in Nat
    BY <1>5 DEF IInv, TypeOK
  <2>2. pc' \in [Procs -> Places] /\ vp' \in [Procs -> Vnodes \cup {NoVnode}]
    BY <1>t DEF VnodeTypes, Places
  <2> QED
    BY <1>2, <1>3, <2>1, <2>2 DEF IInv, TypeOK
<1>6. FreeList'
  <2>0. /\ \A w \in Vnodes : v_usecount'[w] = IF w = v THEN 1 ELSE v_usecount[w]
        /\ \A w : Free(w)' <=> Free(w)
    BY <1>t, <1>v DEF VnodeTypes, Free
  <2>1. \A w \in allocated' : Free(w)' => w \in allocated /\ w # v /\ v_usecount'[w] = 0
    BY <1>v, <1>t, <2>0, FreeAllocated DEF IInv, FreeList, VnodeTypes
  <2>2. \A q \in Procs : Taken(q)' => /\ vp'[q] \in allocated' /\ ~Free(vp[q])'
                                      /\ v_usecount'[vp'[q]] = 0
    <3>1. ASSUME NEW q \in Procs, Taken(q)'
          PROVE  /\ q # p /\ vp'[q] = vp[q] /\ vp[q] \in allocated /\ ~Free(vp[q])
                 /\ v_usecount[vp[q]] = 0 /\ vp[q] # v
      BY <1>o, <1>4, <3>1 DEF IInv, FreeList, Lookups, Looking, Taken
    <3> QED
      BY <1>t, <2>0, <3>1 DEF VnodeTypes
  <2>3. ASSUME NEW w \in allocated', v_usecount'[w] = 0
        PROVE  Free(w)' \/ \E q \in Procs : Taken(q)' /\ vp'[q] = w
    <3>1. w \in allocated /\ w # v /\ v_usecount[w] = 0
      BY <1>t, <2>0, <2>3 DEF VnodeTypes
    <3>2. Free(w) \/ \E q \in Procs : Taken(q) /\ vp[q] = w
      BY <3>1 DEF IInv, FreeList
    <3>3. Taken(p) => vp[p] = v
      BY DEF Taken
    <3> QED
      BY <1>o, <1>4, <2>0, <3>1, <3>2, <3>3
  <2> QED
    BY <2>1, <2>2, <2>3 DEF IInv, FreeList
<1>7. Contents'
  <2>1. \A w \in allocated' \cup v_mount' :
          \/ w \in ihash'
          \/ w \in VBAD' /\ w \notin v_mount'
          \/ \E q \in Procs : pc'[q] = "malloc" /\ vp'[q] = w
    BY <1>v, <1>o DEF IInv, Contents
  <2>2. \A q \in Procs : /\ pc'[q] = "malloc" => vp'[q] \in allocated' \ (ihash' \cup VBAD')
                         /\ pc'[q] = "fresh" =>
                              \/ vp'[q] \in VBAD'
                              \/ vp'[q] \in VXLOCK' /\ wchan'[q] = <<"vnode", vp'[q]>>
    <3>1. \A q \in Procs : pc'[q] = "malloc" => q = p
      BY <1>o DEF IInv, Lookups, Looking
    <3>2. \A q \in Procs : pc'[q] # "fresh"
      BY <1>o DEF IInv, Lookups, Looking
    <3> QED
      BY <1>v, <1>o, <3>1, <3>2 DEF IInv, Contents
  <2> QED
    BY <1>v, <2>1, <2>2 DEF IInv, Contents
<1>8. Cleaned'
  BY <1>v, <1>t, <1>o DEF IInv, Cleaned, VnodeTypes
<1>9. Locks'
  BY <1>t, <1>o DEF IInv, Locks, Locking, VnodeTypes
<1>10. Inactive'
  <2>1. \A q \in Procs : pc'[q] \in {"inactive", "update"} =>
          /\ q # p /\ pc'[q] = pc[q] /\ vp'[q] = vp[q] /\ vp[q] \in Vnodes /\ vp[q] # v
    BY <1>o, <1>v, Holders DEF Locking
  <2> QED
    BY <1>1, <2>1 DEF IInv, Inactive, Linked
<1>11. Modes' /\ Doomed'
  <2>1. \A q \in Procs : pc[q] \in {"bread", "update", "inactive"} =>
                            pc'[q] = pc[q] /\ vp'[q] = vp[q]
    BY <1>o
  <2>2. \A w \in Vnodes : v_usecount[w] > 0 => v_usecount'[w] > 0
    BY <1>t DEF VnodeTypes
  <2> QED
    BY <2>1, <2>2, ModesKept
<1>12. OneVnodePerFile' /\ ReferencesSafe'
  <2>1. \A w \in Vnodes : Kept(w) => Kept(w)'
    BY <1>v, <1>t DEF Kept, Free, VnodeTypes
  <2>2. \A f : \A w \in Vnodes : Is(w, f) => Is(w, f)'
    BY DEF Is
  <2>3. ReferencesSafe'
    BY <1>o, <2>1, <2>2, ReferencesStay
  <2> QED
    BY <2>3 DEF IInv, OneVnodePerFile
<1>14. \A q \in Procs : Looking(q)' => Looking(q) /\ q = p
  BY <1>o DEF IInv, Lookups, Looking
<1>15. Lookups'
  <2>1. Looking(p) /\ LooksRight(p)
    BY LooksAll DEF Looking, IInv
  <2>2. LooksRight(p)'
    BY <1>5, <1>o, <2>1 DEF LooksRight, Looking, Taken, InCore
  <2>3. \A q \in Procs \ {p} : InCore(ino[q])' \subseteq InCore(ino[q])
    BY DEF InCore
  <2> QED
    BY <1>5, <1>o, <2>2, <2>3, LookupsKept
<1>16. Inodes'
  <2>1. \A q \in Procs : Resolved(q)' => Resolved(q) /\ q = p
    BY <1>o, <1>14 DEF Resolved, Looking
  <2>2. \A q \in Procs : New(q)' => q = p
    BY <2>1 DEF New
  <2>3. \A q \in Procs : (pc[q] = "bread" => i_number[vp[q]] = ino[q])'
    BY <1>o DEF IInv, Inodes
  <2>4. \A q \in Procs : New(q)' =>
          (InCore(ino[q]) \cap i_mode)' \subseteq InCore(ino[q]) \cap i_mode
    BY DEF InCore
  <2> QED
    BY <1>o, <2>1, <2>2, <2>3, <2>4, InodesKept
<1> QED
  BY <1>n, <1>2, <1>5, <1>5a, <1>6, <1>7, <1>8, <1>9, <1>10, <1>11, <1>12, <1>15, <1>16
     DEF IInv

LEMMA Keeps_getnewvnode_malloc ==
  ASSUME IInv, NEW p \in Procs, getnewvnode_malloc(p)
  PROVE  IInv'
<1>1. PICK v \in Vnodes \ allocated : NewVnode(p, v) /\ allocated' = allocated \cup {v}
  BY DEF getnewvnode_malloc
<1> QED
  BY <1>1, NewVnodeStep DEF getnewvnode_malloc, Runs, Panics

LEMMA Keeps_getnewvnode_end ==
  ASSUME IInv, NEW p \in Procs, getnewvnode_end(p)
  PROVE  IInv'
<1>1. Runs(p, "fresh") /\ NewVnode(p, vp[p])
  BY DEF getnewvnode_end
<1>2. Taken(p) /\ vp[p] \in VBAD /\ vp[p] \in Vnodes /\ InCore(ino[p]) = {}
  <2>1. Taken(p) /\ InCore(ino[p]) = {}
    BY <1>1 DEF Runs, Taken, IInv, Lookups, Looking
  <2>2. vp[p] \in Vnodes
    BY <2>1 DEF IInv, TypeOK, FreeList
  <2> QED
    BY <1>1, <2>1, <2>2, Constants DEF Runs, IInv, Contents
<1>3. system' = "runs"
  BY <1>1, <1>2 DEF getnewvnode_end, Runs, IInv, Contents
<1> QED
  BY <1>1, <1>2, <1>3, NewVnodeStep DEF getnewvnode_end, Runs, Panics

\* The inode of v gets onto its hash chain: no other inode of the file is there.
LEMMA Keeps_ufs_ihashins ==
  ASSUME IInv, NEW p \in Procs, ufs_ihashins(p)
  PROVE  IInv'
<1> DEFINE v == vp[p]
           f == ino[p]
<1> USE Constants
<1>t. VnodeTypes /\ ihash \subseteq Vnodes /\ i_number \in [Vnodes -> Files \cup {NoFile}]
  BY DEF IInv, TypeOK, VnodeTypes
<1>s. /\ system = "runs" /\ pc[p] = "malloc" /\ p \notin ilocking
      /\ i_number' = [i_number EXCEPT ![v] = f] /\ ihash' = ihash \cup {v}
      /\ ILOCKED' = [ILOCKED EXCEPT ![v] = p] /\ i_mode' = i_mode \ {v}
      /\ pc' = [pc EXCEPT ![p] = "bread"]
      /\ UNCHANGED <<op, nm, ino, vp, fd, opened, ilocking, gone, wchan, allocated, vfree,
                     v_usecount, VXLOCK, VXWANT, VBAD, v_mount, IWANT, nc, numcache, dir,
                     inodes, di_mode, dirlock, flushed, system>>
  BY DEF ufs_ihashins, Runs, Goes, call, wait, table, cache, disk
<1>o. \A q \in Procs : pc'[q] = IF q = p THEN "bread" ELSE pc[q]
  BY <1>t, <1>s DEF VnodeTypes
<1>l. /\ Looking(p) /\ Resolved(p) /\ dirlock = p /\ nm[p] \in Names /\ InCore(f) = {}
      /\ \A q \in Procs : Looking(q) => q = p
  BY <1>s DEF IInv, Lookups, Looking, Resolved
<1>v. /\ v \in Vnodes /\ v \in allocated /\ v \notin ihash /\ v \notin VBAD
      /\ v \notin VXLOCK /\ ILOCKED[v] = NoProc
  <2>1. v \in allocated /\ v \notin ihash /\ v \notin VBAD /\ v \notin VXLOCK
    BY <1>s DEF IInv, Contents, Cleaned
  <2>2. v \in Vnodes
    BY <1>t, <2>1 DEF VnodeTypes
  <2> QED
    BY <1>t, <2>1, <2>2 DEF IInv, Locks, VnodeTypes
<1>f. f \in Files /\ f \in inodes
  BY <1>l DEF IInv, TypeOK, Inodes, New
<1>i. \A w \in Vnodes : i_number'[w] = IF w = v THEN f ELSE i_number[w]
  BY <1>t, <1>s
<1>u. /\ Opens(v) = {} /\ Uses(v) = {p}
      /\ \A q \in Procs : pc[q] \in Locking => vp[q] # v
  <2>1. \A q \in Procs : pc[q] \in Locking => vp[q] # v
    BY <1>v DEF IInv, Locks
  <2>2. Opens(v) = {}
    BY <1>v DEF Opens, IInv, ReferencesSafe, Kept
  <2> QED
    BY <1>s, <1>l, <2>1, <2>2 DEF Uses, Using, Looking, Locking
<1>1. \A w \in Vnodes : Opens(w)' = Opens(w) /\ Uses(w)' = Uses(w)
  BY <1>s, <1>o DEF Opens, Uses, Using
<1>2. TypeOK' /\ NoPanic'
  BY <1>v, <1>f, <1>s DEF IInv, TypeOK, NoPanic, Places
<1>3. Counted'
  BY <1>s, <1>1, SameUsers DEF IInv
<1>4. FreeList'
  BY <1>s, <1>o DEF IInv, FreeList, Taken, Free
<1>5. Contents'
  <2>1. /\ ihash' \subseteq allocated' /\ VBAD' \subseteq allocated' /\ ihash' \cap VBAD' = {}
        /\ \A w \in Vnodes : w \in ihash' <=> i_number'[w] # NoFile
    BY <1>s, <1>v, <1>f, <1>i DEF IInv, Contents
  <2>2. \A w \in allocated' \cup v_mount' :
          \/ w \in ihash'
          \/ w \in VBAD' /\ w \notin v_mount'
          \/ \E q \in Procs : pc'[q] = "malloc" /\ vp'[q] = w
    BY <1>s, <1>o DEF IInv, Contents
  <2>3. \A q \in Procs : pc'[q] # "malloc" /\ pc'[q] # "fresh"
    BY <1>o, <1>l, <1>s DEF Looking
  <2> QED
    BY <2>1, <2>2, <2>3 DEF Contents
<1>6. Cleaned'
  BY <1>s, <1>o DEF IInv, Cleaned
<1>7. Locks'
  <2>1. \A w \in Vnodes : ILOCKED'[w] = IF w = v THEN p ELSE ILOCKED[w]
    BY <1>t, <1>s DEF VnodeTypes
  <2>2. \A w \in Vnodes : ILOCKED[w] \in Procs \cup {NoProc} /\ ILOCKED[w] # p
    <3>1. ASSUME NEW w \in Vnodes, ILOCKED[w] = p PROVE FALSE
      BY <1>s, <3>1 DEF IInv, Locks, Locking
    <3> QED
      BY <1>t, <3>1 DEF VnodeTypes
  <2>3. \A w \in Vnodes : ILOCKED'[w] # NoProc =>
          /\ vp'[ILOCKED'[w]] = w /\ ILOCKED'[w] \notin ilocking'
          /\ pc'[ILOCKED'[w]] \in Locking
    BY <1>s, <1>o, <2>1, <2>2 DEF IInv, Locks, Locking
  <2>4. \A q \in Procs : pc'[q] \in Locking =>
          vp'[q] \in ihash' /\ (q \in ilocking' \/ ILOCKED'[vp'[q]] = q)
    BY <1>t, <1>v, <1>s, <1>o, <1>u, <2>1 DEF IInv, Locks
  <2>5. \A q \in ilocking' : pc'[q] \in {"cached", "cleaning"}
    BY <1>t, <1>s, <1>o DEF IInv, Locks, VnodeTypes
  <2> QED
    BY <2>3, <2>4, <2>5 DEF Locks
<1>8. Inactive'
  <2>1. \A q \in Procs : pc'[q] \in {"inactive", "update"} =>
          /\ pc'[q] = pc[q] /\ vp'[q] = vp[q] /\ vp[q] \in Vnodes /\ vp[q] # v
    BY <1>s, <1>o, <1>u, Holders DEF Locking
  <2> QED
    BY <1>s, <1>i, <1>1, <2>1 DEF IInv, Inactive, Linked
<1>9. Modes' /\ Doomed'
  <2>1. \A q \in Procs : pc[q] \in {"bread", "update", "inactive"} =>
          pc'[q] = pc[q] /\ vp'[q] = vp[q]
    BY <1>s, <1>o
  <2>2. ASSUME NEW w \in ihash'
        PROVE  \/ w \in i_mode' /\ i_number'[w] \in inodes'
               \/ w \notin i_mode' /\ i_number'[w] \notin di_mode' /\ ~Linked(i_number[w])'
               \/ \E q \in Procs : pc'[q] \in {"bread", "update"} /\ vp'[q] = w
    <3>1. CASE w = v
      BY <1>s, <1>o, <3>1
    <3>2. CASE w # v
      <4>1. w \in ihash /\ w \in Vnodes /\ i_number'[w] = i_number[w]
            /\ (w \in i_mode' <=> w \in i_mode)
        BY <1>t, <1>s, <1>i, <2>2, <3>2
      <4>2. CASE \E q \in Procs : pc[q] \in {"bread", "update"} /\ vp[q] = w
        BY <2>1, <4>2
      <4>3. CASE ~\E q \in Procs : pc[q] \in {"bread", "update"} /\ vp[q] = w
        BY <1>s, <4>1, <4>3 DEF IInv, Modes, Linked
      <4> QED
        BY <4>2, <4>3
    <3> QED
      BY <3>1, <3>2
  <2>3. Modes'
    BY <1>s, <2>2 DEF IInv, Modes
  <2>4. \A g : InCore(g) \subseteq InCore(g)'
    BY <1>t, <1>v, <1>s, <1>i DEF InCore
  <2>5. ASSUME NEW w \in ihash' \cap i_mode'
        PROVE  \/ Linked(i_number[w])' \/ v_usecount'[w] > 0
               \/ \E q \in Procs : pc'[q] = "inactive" /\ vp'[q] = w
    <3>1. w \in i_mode /\ w \in ihash /\ i_number'[w] = i_number[w]
      BY <1>s, <1>i, <2>5 DEF IInv, TypeOK
    <3>2. CASE \E q \in Procs : pc[q] = "inactive" /\ vp[q] = w
      BY <2>1, <3>2
    <3>3. CASE ~\E q \in Procs : pc[q] = "inactive" /\ vp[q] = w
      BY <1>s, <3>1, <3>3 DEF IInv, Doomed, Linked
    <3> QED
      BY <3>2, <3>3
  <2>6. Doomed'
    BY <1>s, <2>4, <2>5 DEF IInv, Doomed, Linked
  <2> QED
    BY <2>3, <2>6
<1>10. OneVnodePerFile'
  <2>1. \A w \in ihash : w \in Vnodes /\ w # v /\ i_number[w] # f
    BY <1>t, <1>v, <1>l DEF InCore
  <2>2. \A w \in ihash' : w = v \/ w \in ihash
    BY <1>s
  <2> QED
    BY <1>v, <1>i, <2>1, <2>2 DEF IInv, OneVnodePerFile
<1>11. EntriesSound'
  BY <1>s DEF IInv, EntriesSound
<1>12. ReferencesSafe'
  <2>1. \A w \in Vnodes : Kept(w) => Kept(w)' /\ w # v /\ i_number'[w] = i_number[w]
    BY <1>v, <1>s, <1>i DEF Kept, Free
  <2>2. \A g : \A w \in Vnodes : Kept(w) /\ Is(w, g) => Is(w, g)'
    BY <1>s, <2>1 DEF Is
  <2> QED
    BY <1>s, <1>o, <2>1, <2>2, ReferencesStay
<1>13. \A q \in Procs : Looking(q)' => Looking(q) /\ q = p
  BY <1>s, <1>o, <1>l DEF Looking
<1>14. Lookups'
  <2>1. LooksRight(p)
    BY LooksAll DEF IInv
  <2>2. LooksRight(p)'
    BY <1>s, <1>o, <2>1 DEF LooksRight, Looking, Taken
  <2>3. \A q \in Procs \ {p} : ~Taken(q) /\ pc[q] # "malloc"
    BY <1>l DEF Looking, Taken
  <2>4. \A q \in Procs : pc[q] = "cached" => i_number'[vp[q]] = i_number[vp[q]]
    BY <1>i, <1>u, Holders DEF Locking
  <2> QED
    BY <1>s, <1>o, <2>2, <2>3, <2>4, LookupsKept
<1>15. Inodes'
  <2>1. \A q \in Procs : Resolved(q)' => q = p
    BY <1>13 DEF Resolved
  <2>2. Resolved(p)' /\ (New(p)' <=> New(p))
    BY <1>s, <1>o, <1>l DEF Resolved, Looking, New
  <2>3. \A q \in Procs : pc'[q] = "bread" => q = p
    BY <1>13 DEF Looking
  <2>4. i_number'[v] = f /\ \A w \in InCore(f)' : w = v
    BY <1>t, <1>v, <1>s, <1>i, <1>l DEF InCore
  <2>5. New(p) => f \notin di_mode
    BY <1>l DEF IInv, Inodes, Doomed
  <2>8. New(p)' =>
          (/\ op[p] = "CREATE" /\ ino[p] \in inodes /\ ~Linked(ino[p])
           /\ InCore(ino[p]) \cap i_mode = {}
           /\ pc[p] = "bread" => ino[p] \notin di_mode)'
    <3>1. New(p) => op[p] = "CREATE" /\ f \in inodes /\ ~Linked(f)
      BY DEF IInv, Inodes
    <3>2. InCore(ino[p])' = InCore(f)'
      BY <1>s DEF InCore
    <3> QED
      BY <1>s, <2>2, <2>4, <2>5, <3>1, <3>2 DEF Linked
  <2>9. \A q \in Procs : Resolved(q)' /\ ~New(q)' => ino'[q] = dir'[nm'[q]]
    BY <1>s, <1>l, <2>1, <2>2 DEF IInv, Inodes
  <2>10. \A n \in Names : dir'[n] \in inodes' \cup {NoFile}
    BY <1>s DEF IInv, Inodes
  <2>11. \A q \in Procs : New(q)' => q = p
    BY <2>1 DEF New
  <2> QED
    BY <1>s, <2>3, <2>4, <2>8, <2>9, <2>10, <2>11 DEF Inodes
<1> QED
  BY <1>2, <1>3, <1>4, <1>5, <1>6, <1>7, <1>8, <1>9, <1>10, <1>11, <1>12, <1>14,
     <1>15 DEF IInv

\* A process that waited for the lock of an inode gets it, or waits again.
LEMMA Keeps_ufs_ilock_again ==
  ASSUME IInv, NEW p \in Procs, ufs_ilock_again(p)
  PROVE  IInv'
<1> DEFINE v == vp[p]
<1> USE Constants
<1>t. VnodeTypes
  BY DEF IInv, TypeOK, VnodeTypes
<1>s. /\ p \in ilocking /\ ufs_ilock(p, v, pc[p])
      /\ UNCHANGED <<op, nm, ino, vp, fd, opened, gone, allocated, vfree, v_usecount, VXLOCK,
                     VXWANT, VBAD, v_mount, i_number, ihash, i_mode, nc, numcache, dir, inodes, di_mode,
                     dirlock, flushed, system>>
  BY DEF ufs_ilock_again, call, table, cache, disk
<1>p. pc[p] \in {"cached", "cleaning"} /\ pc' = pc
  BY <1>t, <1>s DEF IInv, Locks, ufs_ilock, Goes, VnodeTypes
<1>v. v \in ihash /\ v \in Vnodes
  BY <1>p, Holders DEF Locking
<1>l. /\ ilocking' \subseteq ilocking
      /\ \A q \in ilocking : q # p \/ ILOCKED[v] # NoProc => q \in ilocking'
      /\ \A q \in Procs : q # p => wchan'[q] = wchan[q]
  BY <1>t, <1>s DEF ufs_ilock, VnodeTypes
<1>1. TypeOK'
  <2>1. /\ wchan' \in [Procs -> {NoChan} \cup ({"vnode", "inode"} \X Vnodes)]
        /\ ilocking' \subseteq Procs /\ IWANT' \subseteq Vnodes
        /\ ILOCKED' \in [Vnodes -> Procs \cup {NoProc}]
    BY <1>v, <1>s, LockTypes
  <2> QED
    BY <1>s, <1>p, <2>1 DEF IInv, TypeOK
<1>2. \A w \in Vnodes : Opens(w)' = Opens(w) /\ Uses(w)' = Uses(w)
  BY <1>s, <1>p DEF Opens, Uses
<1>3. NoPanic' /\ Counted'
  BY <1>s, <1>2, SameUsers DEF IInv, NoPanic
<1>4. FreeList' /\ Cleaned'
  BY <1>s, <1>p DEF IInv, FreeList, Taken, Free, Cleaned
<1>5. Contents'
  BY <1>s, <1>p, <1>l DEF IInv, Contents
<1>6. Locks'
  BY <1>v, <1>s, <1>p, LockStep DEF Locking
<1>7. Inactive'
  <2>1. \A q \in Procs : pc[q] \in {"inactive", "update"} =>
          vp[q] \in Vnodes /\ (vp[q] = v => ILOCKED[v] # NoProc)
    BY Holders DEF Locking
  <2>2. \A q \in Procs : pc[q] \in {"inactive", "update"} =>
          Uses(vp[q]) \subseteq ilocking /\ (p \in Uses(vp[q]) => vp[q] = v)
    BY DEF IInv, Inactive, Uses
  <2>3. \A q \in Procs : pc[q] \in {"inactive", "update"} => Uses(vp[q]) \subseteq ilocking'
    BY <1>l, <2>1, <2>2
  <2> QED
    BY <1>s, <1>p, <1>2, <2>1, <2>3 DEF IInv, Inactive, Linked, Opens, Uses
<1>8. Lookups'
  BY <1>s, <1>p DEF IInv, Lookups, Looking, Taken, InCore
<1>9. Inodes'
  BY <1>s, <1>p DEF IInv, Inodes, New, Resolved, Looking, InCore, Linked
<1>10. Modes' /\ Doomed'
  BY <1>s, <1>p, ModesKept
<1>11. OneVnodePerFile' /\ EntriesSound'
  BY <1>s DEF IInv, OneVnodePerFile, EntriesSound
<1>12. ReferencesSafe'
  BY <1>s, <1>p DEF IInv, ReferencesSafe, Kept, Is, Free
<1> QED
  BY <1>1, <1>3, <1>4, <1>5, <1>6, <1>7, <1>8, <1>9, <1>10, <1>11, <1>12 DEF IInv

-----------------------------------------------------------------------------
(* A lookup that has its vnode.                                              *)

\* The process that has an inode locked is alone with it.
LEMMA Alone ==
  ASSUME IInv, NEW p \in Procs, pc[p] \in Locking, p \notin ilocking
  PROVE  /\ vp[p] \in ihash /\ vp[p] \in Vnodes /\ ILOCKED[vp[p]] = p
         /\ \A q \in Procs : q # p /\ pc[q] \in {"inactive", "update"} => vp[q] # vp[p]
         /\ \A w \in Vnodes : w # vp[p] => ILOCKED[w] # p
<1>1. vp[p] \in ihash /\ vp[p] \in Vnodes /\ ILOCKED[vp[p]] = p
  BY Holders
<1>2. \A q \in Procs : q # p /\ pc[q] \in {"inactive", "update"} => vp[q] # vp[p]
  BY <1>1, Holders DEF Locking
<1>3. \A w \in Vnodes : w # vp[p] => ILOCKED[w] # p
  BY Constants DEF IInv, Locks
<1> QED
  BY <1>1, <1>2, <1>3

\* A vnode on a hash chain has a file.
LEMMA InCoreFiles ==
  ASSUME IInv
  PROVE  \A w \in ihash : i_number[w] \in Files
<1>1. \A w \in Vnodes : w \in ihash => i_number[w] # NoFile
  BY DEF IInv, Contents
<1> QED
  BY <1>1, Functions

\* A lookup in process p goes on with its vnode, which is kept for it.
LEMMA ProceedStep ==
  ASSUME IInv, NEW p \in Procs, pc[p] \in {"cached", "bread", "found", "enter"},
         p \notin ilocking,
         NEW place \in {"found", "enter", "has", "bad"}, pc' = [pc EXCEPT ![p] = place],
         Kept(vp[p]), Is(vp[p], ino[p]), system' = system, Modes',
         i_mode' \in {i_mode, i_mode \cup {vp[p]}},
         di_mode' \in {di_mode, di_mode \cup {i_number[vp[p]]}},
         \A f \in Files : Linked(f) => Linked(f)',
         \A f \in Files : Linked(f)' => Linked(f) \/ f = i_number[vp[p]],
         UNCHANGED <<ino, vp, fd, opened, wait, allocated, vfree, v_usecount, VXLOCK, VXWANT,
                     VBAD, v_mount, i_number, ihash, ILOCKED, IWANT, inodes>>
  PROVE  VnodesSound'
<1> DEFINE v == vp[p]
<1> USE Constants DEF wait
<1>t. VnodeTypes /\ ihash \subseteq Vnodes /\ di_mode \subseteq Files /\ i_mode \subseteq Vnodes
  BY DEF IInv, TypeOK, VnodeTypes
<1>o. \A q \in Procs : pc'[q] = IF q = p THEN place ELSE pc[q]
  BY <1>t DEF VnodeTypes
<1>a. /\ v \in ihash /\ v \in Vnodes /\ ILOCKED[v] = p
      /\ \A q \in Procs : q # p /\ pc[q] \in {"inactive", "update"} => vp[q] # v
  BY Alone DEF Locking
<1>n. \A w \in ihash : i_number[w] \in Files /\ (w # v => i_number[w] # i_number[v])
  BY <1>a, InCoreFiles DEF IInv, OneVnodePerFile
<1>1. \A w \in Vnodes : Opens(w)' = Opens(w) /\ Uses(w)' = Uses(w)
  BY <1>o DEF Opens, Uses, Using
<1>2. NoPanic' /\ Counted'
  BY <1>1, SameUsers DEF IInv, NoPanic
<1>3. FreeList'
  BY <1>o DEF IInv, FreeList, Taken, Free
<1>4. Contents' /\ Cleaned'
  BY <1>o DEF IInv, Contents, Cleaned
<1>5. Locks'
  <2>1. \A q \in ilocking : q \in Procs /\ q # p /\ pc[q] \in {"cached", "cleaning"}
    BY <1>t DEF IInv, Locks, VnodeTypes
  <2>2. \A q \in Procs : pc'[q] \in Locking <=> pc[q] \in Locking
    BY <1>o DEF Locking
  <2>3. \A w \in Vnodes : ILOCKED[w] # NoProc => ILOCKED[w] \in Procs
    BY <1>t DEF VnodeTypes
  <2> QED
    BY <1>o, <2>1, <2>2, <2>3 DEF IInv, Locks
<1>6. Inactive'
  <2>1. \A q \in Procs : pc'[q] \in {"inactive", "update"} =>
          /\ pc'[q] = pc[q] /\ vp'[q] = vp[q] /\ vp[q] # v
          /\ vp[q] \in ihash /\ vp[q] \in Vnodes
    BY <1>o, <1>a, Holders DEF Locking
  <2>2. \A q \in Procs : pc'[q] \in {"inactive", "update"} =>
          /\ Linked(i_number[vp[q]])' <=> Linked(i_number[vp[q]])
          /\ vp[q] \in i_mode' <=> vp[q] \in i_mode
    BY <1>n, <2>1 DEF Linked
  <2> QED
    BY <1>1, <2>1, <2>2 DEF IInv, Inactive, Opens, Uses
<1>7. Doomed'
  <2>1. ASSUME NEW w \in ihash, w \in i_mode'
        PROVE  \/ Linked(i_number[w])' \/ v_usecount'[w] > 0
               \/ \E q \in Procs : pc'[q] = "inactive" /\ vp'[q] = w
    <3>1. CASE w = v
      BY <3>1 DEF Kept
    <3>2. CASE w # v
      <4>1. w \in i_mode /\ w \in Vnodes
        BY <1>t, <2>1, <3>2
      <4>2. CASE Linked(i_number[w])
        <5>1. i_number[w] \in Files
          BY InCoreFiles
        <5> QED
          BY <4>2, <5>1 DEF Linked
      <4>3. CASE v_usecount[w] > 0
        BY <4>3
      <4>4. CASE \E q \in Procs : pc[q] = "inactive" /\ vp[q] = w
        <5>1. PICK q \in Procs : pc[q] = "inactive" /\ vp[q] = w
          BY <4>4
        <5>2. pc'[q] = "inactive" /\ vp'[q] = w
          BY <1>o, <5>1
        <5> QED
          BY <5>2
      <4> QED
        BY <4>1, <4>2, <4>3, <4>4 DEF IInv, Doomed
    <3> QED
      BY <3>1, <3>2
  <2>2. \A f : InCore(f)' = InCore(f) /\ v \in InCore(i_number[v])
    BY <1>a DEF InCore
  <2>3. \A f \in di_mode' : Linked(f)' \/ InCore(f)' # {}
    BY <1>t, <2>2 DEF IInv, Doomed
  <2> QED
    BY <2>1, <2>3 DEF Doomed, Linked, InCore
<1>8. OneVnodePerFile'
  BY DEF IInv, OneVnodePerFile
<1>9. ReferencesSafe'
  <2>1. \A w : Kept(w)' <=> Kept(w)
    BY DEF Kept, Free
  <2>2. \A w, g : Is(w, g)' <=> Is(w, g)
    BY DEF Is
  <2>3. \A q \in Procs : fd[q] # NoVnode => Kept(fd[q])' /\ Is(fd[q], opened[q])'
    BY <2>1, <2>2 DEF IInv, ReferencesSafe, Kept, Is, Free
  <2>4. ASSUME NEW q \in Procs, pc'[q] \in {"cached", "found", "enter", "has", "bad"}
        PROVE  Kept(vp[q])' /\ Is(vp[q], ino[q])'
    <3>1. Kept(vp[q]) /\ Is(vp[q], ino[q])
      BY <1>o, <2>4 DEF IInv, ReferencesSafe
    <3> QED
      BY <3>1 DEF Kept, Is, Free
  <2>5. ASSUME NEW q \in Procs, pc'[q] = "fsync"
        PROVE  Kept(vp[q])' /\ i_number'[vp'[q]] = ino'[q]
    <3>1. pc[q] = "fsync"
      BY <1>o, <2>5
    <3> QED
      BY <3>1 DEF IInv, ReferencesSafe, Kept, Free
  <2> QED
    BY <2>3, <2>4, <2>5 DEF ReferencesSafe
<1> QED
  BY <1>2, <1>3, <1>4, <1>5, <1>6, <1>7, <1>8, <1>9 DEF VnodesSound

LEMMA Keeps_ffs_vget_end ==
  ASSUME IInv, NEW p \in Procs, ffs_vget_end(p)
  PROVE  IInv'
<1> DEFINE v == vp[p]
<1> USE Constants
<1>s. /\ system = "runs" /\ pc[p] = "bread" /\ p \notin ilocking
      /\ pc' = [pc EXCEPT ![p] = "found"]
      /\ i_mode' = IF ino[p] \in di_mode THEN i_mode \cup {v} ELSE i_mode
      /\ UNCHANGED <<op, nm, ino, vp, fd, opened, ilocking, gone, wchan, allocated, vfree,
                     v_usecount, VXLOCK, VXWANT, VBAD, v_mount, i_number, ihash, ILOCKED,
                     IWANT, nc, numcache, dir, inodes, di_mode, dirlock, flushed, system>>
  BY DEF ffs_vget_end, Runs, Goes, call, wait, table, cache, disk
<1>o. \A q \in Procs : pc'[q] = IF q = p THEN "found" ELSE pc[q]
  BY <1>s DEF IInv, TypeOK
<1>l. /\ Looking(p) /\ Resolved(p) /\ nm[p] \in Names
      /\ \A q \in Procs : Looking(q) => q = p
  BY <1>s DEF IInv, Lookups, Looking, Resolved
<1>v. v \in ihash /\ v \in Vnodes
  BY <1>s, Alone DEF Locking
<1>f. /\ i_number[v] # NoFile /\ i_number[v] = ino[p] /\ ino[p] \in inodes
      /\ ~New(p) => ino[p] = dir[nm[p]]
  <2>1. i_number[v] # NoFile /\ i_number[v] = ino[p]
    BY <1>v, <1>s DEF IInv, Contents, Inodes
  <2> QED
    BY <1>l, <2>1 DEF IInv, Inodes
<1>1. Kept(v) /\ Is(v, ino[p])
  <2>1. v_usecount[v] > 0
    BY <1>v, <1>s, NoUsers DEF IInv, Uses, Using
  <2>2. ~Free(v) /\ v \notin VXLOCK /\ v \notin VBAD
    BY <1>v, <2>1 DEF IInv, FreeList, Cleaned, Contents
  <2> QED
    BY <1>v, <1>f, <2>1, <2>2 DEF Kept, Is
<1>m. Modes'
  <2>1. ASSUME NEW w \in ihash
        PROVE  \/ w \in i_mode' /\ i_number'[w] \in inodes'
               \/ w \notin i_mode' /\ i_number'[w] \notin di_mode' /\ ~Linked(i_number[w])'
               \/ \E q \in Procs : pc'[q] \in {"bread", "update"} /\ vp'[q] = w
    <3>1. CASE w = v /\ ino[p] \in di_mode
      BY <1>s, <1>f, <3>1
    <3>2. CASE w = v /\ ino[p] \notin di_mode
      <4>1. New(p)
        BY <1>l, <1>f, <3>2 DEF IInv, Modes
      <4>2. ~Linked(ino[p]) /\ v \notin i_mode
        BY <1>v, <1>f, <4>1 DEF IInv, Inodes, InCore
      <4> QED
        BY <1>s, <1>f, <3>2, <4>2 DEF Linked
    <3>3. CASE w # v
      <4>1. CASE \E q \in Procs : pc[q] \in {"bread", "update"} /\ vp[q] = w
        <5>1. PICK q \in Procs : pc[q] \in {"bread", "update"} /\ vp[q] = w
          BY <4>1
        <5>2. pc'[q] \in {"bread", "update"} /\ vp'[q] = w
          BY <1>s, <1>o, <3>3, <5>1
        <5> QED
          BY <5>2
      <4>2. CASE ~\E q \in Procs : pc[q] \in {"bread", "update"} /\ vp[q] = w
        <5>1. w \in i_mode' <=> w \in i_mode
          BY <1>s, <3>3
        <5> QED
          BY <1>s, <4>2, <5>1 DEF IInv, Modes, Linked
      <4> QED
        BY <4>1, <4>2
    <3> QED
      BY <3>1, <3>2, <3>3
  <2> QED
    BY <1>s, <2>1 DEF IInv, Modes
<1>2. VnodesSound'
  <2>1. /\ i_mode' \in {i_mode, i_mode \cup {v}}
        /\ di_mode' \in {di_mode, di_mode \cup {i_number[v]}}
    BY <1>s
  <2>2. \A f : Linked(f)' <=> Linked(f)
    BY <1>s DEF Linked
  <2> QED
    BY <1>1, <1>m, <1>s, <2>1, <2>2, ProceedStep DEF wait
<1>3. TypeOK'
  BY <1>v, <1>s DEF IInv, TypeOK, Places
<1>4. EntriesSound'
  BY <1>s DEF IInv, EntriesSound
<1>6. Lookups'
  <2>1. LooksRight(p)
    BY LooksAll DEF IInv
  <2>2. LooksRight(p)'
    BY <1>s, <1>o, <2>1 DEF LooksRight, Looking, Taken
  <2>3. \A q \in Procs \ {p} : InCore(ino[q])' \subseteq InCore(ino[q])
    BY <1>s DEF InCore
  <2> QED
    BY <1>s, <1>o, <2>2, <2>3, LookupsKept
<1>7. Inodes'
  <2>1. \A q \in Procs : Resolved(q)' => Resolved(q) /\ q = p
    BY <1>s, <1>o, <1>l DEF Looking, Resolved
  <2>2. \A q \in Procs : New(q)' => New(q) /\ q = p
    BY <1>s, <2>1 DEF New
  <2>3. \A q \in Procs : pc'[q] # "bread"
    BY <1>o, <1>l DEF Looking
  <2>4. New(p) => i_mode' = i_mode
    BY <1>s DEF IInv, Inodes
  <2>5. \A q \in Procs : New(q)' =>
          (InCore(ino[q]) \cap i_mode)' \subseteq InCore(ino[q]) \cap i_mode
    BY <1>s, <2>2, <2>4 DEF InCore
  <2> QED
    BY <1>s, <2>1, <2>3, <2>5, InodesKept
<1> QED
  BY <1>2, <1>3, <1>4, <1>6, <1>7 DEF IInv, VnodesSound

\* The end of a lookup changes nothing of what others know of inodes.
LEMMA LookedUp ==
  ASSUME IInv, NEW p \in Procs, NEW place \in {"enter", "has"},
         pc' = [pc EXCEPT ![p] = place],
         UNCHANGED <<op, nm, ino, vp, gone, i_number, ihash, i_mode, dir, inodes, di_mode>>
  PROVE  Inodes'
<1>1. \A q \in Procs : pc'[q] = IF q = p THEN place ELSE pc[q]
  BY Functions
<1>2. \A q \in Procs : Resolved(q)' => Resolved(q) /\ q # p
  BY <1>1 DEF Resolved, Looking
<1>3. \A q \in Procs : New(q)' => New(q) /\ q # p
  BY <1>2 DEF New
<1>4. \A q \in Procs : (pc[q] = "bread" => i_number[vp[q]] = ino[q])'
  BY <1>1 DEF IInv, Inodes
<1>5. \A q \in Procs : New(q)' => (pc[q] = "bread" => ino[q] \notin di_mode)'
  BY <1>1, <1>3 DEF IInv, Inodes
<1>6. \A q \in Procs : New(q)' =>
        (InCore(ino[q]) \cap i_mode)' \subseteq InCore(ino[q]) \cap i_mode
  BY DEF InCore
<1> QED
  BY <1>2, <1>4, <1>5, <1>6, InodesKept

\* It may go on to an entry in the name cache.
LEMMA EndsLookup ==
  ASSUME IInv, NEW p \in Procs, pc[p] \in {"cached", "found", "enter"}, p \notin ilocking,
         NEW place \in {"enter", "has"}, pc' = [pc EXCEPT ![p] = place],
         dirlock' = dirlock \/ dirlock' = NoProc, dirlock' = dirlock \/ dirlock = p,
         place = "enter" => /\ nm[p] \in Names /\ dir[nm[p]] = ino[p] /\ ino[p] # NoFile,
         nc' \in [Names -> Seq(Vnodes \cup {"negative", "stale"})], numcache' \in Nat,
         EntriesSound',
         \A n \in Names : "negative" \in Range(nc'[n]) => "negative" \in Range(nc[n]),
         UNCHANGED <<call, wait, table, inode, disk, flushed, system>>
  PROVE  IInv'
<1> DEFINE v == vp[p]
<1> USE Constants DEF call, wait, table, inode, disk
<1>o. \A q \in Procs : pc'[q] = IF q = p THEN place ELSE pc[q]
  BY Functions
<1>v. Kept(v) /\ Is(v, ino[p])
  BY DEF IInv, ReferencesSafe
<1>1. Modes'
  <2>1. \A q \in Procs : pc[q] \in {"bread", "update", "inactive"} =>
          pc'[q] = pc[q] /\ vp'[q] = vp[q]
    BY <1>o
  <2> QED
    BY <2>1, ModesKept
<1>2. VnodesSound'
  <2>1. \A f : Linked(f)' <=> Linked(f)
    BY DEF Linked
  <2>2. /\ i_mode' \in {i_mode, i_mode \cup {v}}
        /\ di_mode' \in {di_mode, di_mode \cup {i_number[v]}}
    OBVIOUS
  <2> QED
    BY <1>v, <1>1, <2>1, <2>2, ProceedStep
<1>3. TypeOK'
  <2>1. pc' \in [Procs -> Places]
    BY Functions DEF Places
  <2>2. dirlock' \in Procs \cup {NoProc}
    BY DEF IInv, TypeOK
  <2> QED
    BY <2>1, <2>2 DEF IInv, TypeOK
<1>4. Lookups'
  <2>1. LooksRight(p)'
    BY <1>o DEF LooksRight, Looking, Taken
  <2>2. \A q \in Procs \ {p} : InCore(ino[q])' \subseteq InCore(ino[q])
    BY DEF InCore
  <2> QED
    BY <1>o, <2>1, <2>2, LookupsKept
<1>5. Inodes'
  BY LookedUp
<1> QED
  BY <1>2, <1>3, <1>4, <1>5 DEF IInv, VnodesSound

LEMMA Keeps_FoundCached ==
  ASSUME IInv, NEW p \in Procs, FoundCached(p)
  PROVE  IInv'
<1>1. /\ pc[p] = "cached" /\ p \notin ilocking /\ pc' = [pc EXCEPT ![p] = "has"]
      /\ dirlock' = NoProc /\ nc' = nc /\ numcache' = numcache
      /\ UNCHANGED <<call, wait, table, inode, disk, flushed, system>>
  BY DEF FoundCached, Runs, Goes, cache
<1>2. dirlock = p
  BY <1>1 DEF IInv, Lookups
<1>3. EntriesSound'
  BY <1>1 DEF IInv, EntriesSound, inode, disk
<1>4. nc' \in [Names -> Seq(Vnodes \cup {"negative", "stale"})] /\ numcache' \in Nat
  BY <1>1 DEF IInv, TypeOK
<1> QED
  BY <1>1, <1>2, <1>3, <1>4, EndsLookup

\* The entry of a lookup that has found its vnode: the name is in the directory, or
\* has been since the lookup searched it, so that no negative entry is there.
LEMMA Keeps_Found ==
  ASSUME IInv, NEW p \in Procs, Found(p)
  PROVE  IInv'
<1> DEFINE v == vp[p]
           n == nm[p]
<1> USE Constants
<1>s. /\ pc[p] = "found" /\ p \notin ilocking /\ dir[n] # NoFile
      /\ UNCHANGED <<call, wait, table, inode, disk, flushed, system>>
  BY DEF Found, Runs
<1>l. Looking(p) /\ Resolved(p) /\ ~New(p)
  BY <1>s DEF Looking, Resolved, New
<1>v. /\ dirlock = p /\ n \in Names /\ ino[p] = dir[n] /\ "negative" \notin Range(nc[n])
      /\ v \in ihash /\ v \in Vnodes
  BY <1>l, <1>s, Alone DEF IInv, Lookups, Inodes, Locking
<1>1. CASE numcache < desiredvnodes /\ Goes(p, "enter") /\ UNCHANGED cache
           /\ dirlock' = (IF op[p] = "LOOKUP" THEN NoProc ELSE dirlock)
  <2>1. pc' = [pc EXCEPT ![p] = "enter"] /\ nc' = nc /\ numcache' = numcache
    BY <1>1 DEF Goes, cache
  <2>2. EntriesSound'
    BY <1>s, <2>1 DEF IInv, EntriesSound, inode, disk
  <2>3. nc' \in [Names -> Seq(Vnodes \cup {"negative", "stale"})] /\ numcache' \in Nat
    BY <2>1 DEF IInv, TypeOK
  <2> QED
    BY <1>s, <1>v, <1>1, <2>1, <2>2, <2>3, EndsLookup
<1>2. CASE cache_enter(n, v) /\ dirlock' = NoProc /\ Goes(p, "has")
  <2>1. pc' = [pc EXCEPT ![p] = "has"] /\ v \in Slot
    BY <1>v, <1>2 DEF Goes, Slot
  <2>2. UNCHANGED <<dir, ihash>> /\ v # "negative"
    BY <1>s, <1>v DEF disk, inode
  <2>3. /\ EntriesSound' /\ nc' \in [Names -> Seq(Vnodes \cup {"negative", "stale"})]
        /\ numcache' \in Nat
        /\ \A m \in Names : "negative" \in Range(nc'[m]) => "negative" \in Range(nc[m])
    BY <1>v, <1>2, <2>1, <2>2, Enters
  <2> QED
    BY <1>s, <1>v, <1>2, <2>1, <2>3, EndsLookup
<1> QED
  BY <1>1, <1>2 DEF Found

LEMMA Keeps_EnterFound ==
  ASSUME IInv, NEW p \in Procs, EnterFound(p)
  PROVE  IInv'
<1> DEFINE v == vp[p]
           n == nm[p]
<1> USE Constants
<1>s. /\ pc[p] = "enter" /\ p \notin ilocking /\ cache_enter_malloc(n, v)
      /\ pc' = [pc EXCEPT ![p] = "has"]
      /\ dirlock' = (IF dirlock = p THEN NoProc ELSE dirlock)
      /\ UNCHANGED <<call, wait, table, inode, disk, flushed, system>>
  BY DEF EnterFound, Runs, Goes
<1>v. n \in Names /\ dir[n] # NoFile /\ v \in ihash /\ v \in Vnodes
  BY <1>s, Alone DEF IInv, Lookups, Locking
<1>1. "negative" \notin Range(nc[n]) /\ v \in Slot /\ v # "negative"
  BY <1>v DEF IInv, EntriesSound, Slot
<1>2. UNCHANGED <<dir, ihash>>
  BY <1>s DEF disk, inode
<1>3. /\ EntriesSound' /\ nc' \in [Names -> Seq(Vnodes \cup {"negative", "stale"})]
      /\ numcache' \in Nat
      /\ \A m \in Names : "negative" \in Range(nc'[m]) => "negative" \in Range(nc[m])
  BY <1>s, <1>v, <1>1, <1>2, Enters
<1> QED
  BY <1>s, <1>3, EndsLookup

\* No inode that has been taken in the bitmap is still in use.
LEMMA Keeps_ufs_makeinode ==
  ASSUME IInv, NEW p \in Procs, ufs_makeinode(p)
  PROVE  IInv'
<1> DEFINE v == vp[p]
           n == nm[p]
           f == ino[p]
<1> USE Constants
<1>p. system = "runs" /\ pc[p] = "found" /\ p \notin ilocking /\ dir[n] = NoFile
  BY DEF ufs_makeinode, Runs
<1>n. /\ New(p) /\ Looking(p) /\ dirlock = p /\ n \in Names /\ "negative" \notin Range(nc[n])
      /\ f \in inodes /\ f \in Files /\ f # NoFile /\ InCore(f) \cap i_mode = {} /\ ~Linked(f)
      /\ \A q \in Procs : Looking(q) => q = p
  <2>1. New(p) /\ Looking(p)
    BY <1>p DEF New, Resolved, Looking
  <2>2. inodes \subseteq Files
    BY DEF IInv, TypeOK
  <2> QED
    BY <2>1, <2>2 DEF IInv, Lookups, Inodes
<1>v. /\ Kept(v) /\ Is(v, f) /\ v \in Vnodes /\ v \in ihash /\ i_number[v] = f /\ v \notin i_mode
  <2>1. Kept(v) /\ Is(v, f) /\ v \in Vnodes /\ v \in ihash
    BY <1>p, Alone DEF Locking, IInv, ReferencesSafe
  <2> QED
    BY <1>n, <2>1 DEF Is, InCore
<1>s. /\ pc' \in {[pc EXCEPT ![p] = "has"], [pc EXCEPT ![p] = "bad"]} /\ dirlock' = NoProc
      /\ i_mode' = i_mode \cup {v} /\ di_mode' = di_mode \cup {f}
      /\ dir' \in {dir, [dir EXCEPT ![n] = f]}
      /\ UNCHANGED <<op, nm, ino, vp, fd, opened, ilocking, gone, wchan, allocated, vfree,
                     v_usecount, VXLOCK, VXWANT, VBAD, v_mount, i_number, ihash, ILOCKED,
                     IWANT, nc, numcache, inodes, flushed, system>>
  BY <1>v DEF ufs_makeinode, Goes, call, wait, table, cache
<1>o. \A q \in Procs : /\ q # p => pc'[q] = pc[q]
                       /\ pc'[p] \in {"has", "bad"}
  BY <1>s, Functions
<1>d. \A m \in Names : dir'[m] = dir[m] \/ (m = n /\ dir'[m] = f)
  BY <1>s, Functions
<1>1. TypeOK'
  <2>1. pc' \in [Procs -> Places]
    <3>1. /\ [pc EXCEPT ![p] = "has"] \in [Procs -> Places]
          /\ [pc EXCEPT ![p] = "bad"] \in [Procs -> Places]
      BY Functions DEF Places
    <3> QED
      BY <1>s, <3>1
  <2>2. dir' \in [Names -> Files \cup {NoFile}]
    BY <1>n, <1>s, Functions
  <2>3. di_mode' \subseteq Files /\ i_mode' \subseteq Vnodes
    BY <1>n, <1>v, <1>s DEF IInv, TypeOK
  <2> QED
    BY <1>s, <2>1, <2>2, <2>3 DEF IInv, TypeOK
<1>k. \A g \in Files : /\ Linked(g) => Linked(g)'
                       /\ Linked(g)' => Linked(g) \/ g = f
  <2>1. \A g : Linked(g)' <=> \E m \in Names : dir'[m] = g
    <3>1. DOMAIN dir' = Names
      BY <1>1 DEF TypeOK
    <3> QED
      BY <3>1 DEF Linked, Range
  <2> QED
    BY <1>p, <1>d, <2>1, Links DEF IInv
<1>m. Modes'
  <2>1. ASSUME NEW w \in ihash
        PROVE  \/ w \in i_mode' /\ i_number'[w] \in inodes'
               \/ w \notin i_mode' /\ i_number'[w] \notin di_mode' /\ ~Linked(i_number[w])'
               \/ \E q \in Procs : pc'[q] \in {"bread", "update"} /\ vp'[q] = w
    <3>1. CASE w = v
      BY <1>s, <1>n, <1>v, <3>1
    <3>2. CASE w # v
      <4>1. i_number[w] # f /\ i_number[w] \in Files
        BY <1>v, <3>2, InCoreFiles DEF IInv, OneVnodePerFile
      <4>2. CASE \E q \in Procs : pc[q] \in {"bread", "update"} /\ vp[q] = w
        <5>1. PICK q \in Procs : pc[q] \in {"bread", "update"} /\ vp[q] = w
          BY <4>2
        <5>2. pc'[q] \in {"bread", "update"} /\ vp'[q] = w
          BY <1>s, <1>o, <1>p, <5>1
        <5> QED
          BY <5>2
      <4>3. CASE ~\E q \in Procs : pc[q] \in {"bread", "update"} /\ vp[q] = w
        <5>1. /\ w \in i_mode' <=> w \in i_mode
              /\ i_number[w] \in di_mode' <=> i_number[w] \in di_mode
          BY <1>s, <3>2, <4>1
        <5>2. Linked(i_number[w])' => Linked(i_number[w])
          BY <1>s, <1>k, <4>1 DEF Linked
        <5> QED
          BY <1>s, <4>3, <5>1, <5>2 DEF IInv, Modes
      <4> QED
        BY <4>2, <4>3
    <3> QED
      BY <3>1, <3>2
  <2>2. \A m \in Names : dir'[m] # NoFile => dir'[m] \in di_mode'
    BY <1>s, <1>d DEF IInv, Modes
  <2> QED
    BY <1>s, <2>1, <2>2 DEF Modes
<1>2. VnodesSound'
  <2>1. /\ i_mode' \in {i_mode, i_mode \cup {v}}
        /\ di_mode' \in {di_mode, di_mode \cup {i_number[v]}}
    BY <1>s, <1>v
  <2>2. CASE pc' = [pc EXCEPT ![p] = "has"]
    BY <1>p, <1>v, <1>s, <1>k, <1>m, <2>1, <2>2, ProceedStep DEF wait
  <2>3. CASE pc' = [pc EXCEPT ![p] = "bad"]
    BY <1>p, <1>v, <1>s, <1>k, <1>m, <2>1, <2>3, ProceedStep DEF wait
  <2> QED
    BY <1>s, <2>2, <2>3
<1>3. Lookups'
  <2>1. LooksRight(p)'
    BY <1>o DEF LooksRight, Looking, Taken
  <2>2. \A q \in Procs \ {p} : /\ pc[q] \notin {"enoent", "cached"} /\ ~Taken(q)
                               /\ pc[q] # "malloc" /\ dirlock # q
    BY <1>n DEF IInv, Lookups, Looking, Taken
  <2>3. \A q \in Procs \ {p} : pc[q] = "enter" => dir'[nm[q]] = dir[nm[q]]
    <3>1. \A q \in Procs \ {p} : pc[q] = "enter" => nm[q] \in Names /\ dir[nm[q]] # NoFile
      BY DEF IInv, Lookups
    <3> QED
      BY <1>p, <1>d, <3>1
  <2> QED
    BY <1>s, <1>o, <2>1, <2>2, <2>3, LookupsKept
<1>4. Inodes'
  <2>1. \A q \in Procs : ~Looking(q)'
    BY <1>s, <1>o, <1>n DEF Looking
  <2>2. \A m \in Names : dir'[m] \in inodes' \cup {NoFile}
    BY <1>n, <1>s, <1>d DEF IInv, Inodes
  <2>3. \A q \in Procs : ~Resolved(q)' /\ ~New(q)' /\ pc'[q] # "bread"
    BY <2>1 DEF Resolved, New, Looking
  <2> QED
    BY <2>2, <2>3 DEF Inodes
<1>5. EntriesSound'
  BY <1>s, <1>n, <1>d DEF IInv, EntriesSound
<1> QED
  BY <1>1, <1>2, <1>3, <1>4, <1>5 DEF IInv, VnodesSound

-----------------------------------------------------------------------------
(* Letting go of a vnode.                                                    *)

\* A wakeup for an inode wakes nobody who waits for a vnode.
LEMMA WakesInode ==
  ASSUME IInv, NEW v, NEW w, w = Woken({<<"inode", v>>})
  PROVE  /\ w \in [Procs -> {NoChan} \cup ({"vnode", "inode"} \X Vnodes)]
         /\ \A q \in Procs : \A x : wchan[q] = <<"vnode", x>> => w[q] = wchan[q]
<1>1. wchan \in [Procs -> {NoChan} \cup ({"vnode", "inode"} \X Vnodes)]
  BY DEF IInv, TypeOK
<1>2. \A x : <<"vnode", x>> # <<"inode", v>>
  OBVIOUS
<1> QED
  BY <1>1, <1>2 DEF Woken

\* p gives up its reference to v; the last reference goes on to ffs_inactive, or to
\* vgone if the inode is free.
Releases(p, v) ==
  /\ v_usecount' = [v_usecount EXCEPT ![v] = @ - 1]
  /\ \/ v_usecount[v] > 1 /\ pc'[p] = "done" /\ UNCHANGED <<vfree, VXLOCK, gone>>
     \/ /\ v_usecount[v] = 1 /\ vfree' = Append(vfree, v)
        /\ \/ v \in i_mode /\ pc'[p] = "inactive" /\ UNCHANGED <<VXLOCK, gone>>
           \/ /\ v \notin i_mode /\ pc'[p] = "cleaning" /\ VXLOCK' = VXLOCK \cup {v}
              /\ gone'[p] = "done"
  /\ \/ pc[p] = "user" /\ fd[p] = v /\ fd'[p] = NoVnode
     \/ pc[p] \in {"found", "has", "bad", "fsync"} /\ vp[p] = v /\ UNCHANGED <<fd, opened>>
  /\ vp'[p] = v /\ UNCHANGED ino
  /\ \A q \in Procs \ {p} : /\ pc'[q] = pc[q] /\ vp'[q] = vp[q] /\ fd'[q] = fd[q]
                            /\ opened'[q] = opened[q] /\ gone'[q] = gone[q]
                            /\ \A x : wchan[q] = <<"vnode", x>> => wchan'[q] = wchan[q]
  /\ UNCHANGED <<ilocking, allocated, VBAD, v_mount, i_number, ihash, i_mode, inodes, di_mode,
                 system>>

LEMMA ReleaseStep ==
  ASSUME IInv, NEW p \in Procs, NEW v \in ihash, Kept(v), Releases(p, v), Locks',
         \A q \in Procs : pc[q] \in {"inactive", "update"} => vp[q] # v,
         \A g \in Files : Linked(g)' => Linked(g),
         \A g \in Files : Linked(g) => Linked(g)' \/ g = i_number[v],
         \A n \in Names : dir'[n] \in {dir[n], NoFile}
  PROVE  VnodesSound' /\ v_usecount' \in [Vnodes -> Nat] /\ vfree' \in Seq(allocated')
<1> USE Constants DEF Releases
<1>t. VnodeTypes /\ ihash \subseteq Vnodes /\ di_mode \subseteq Files
  BY DEF IInv, TypeOK, VnodeTypes
<1>n. \A w \in ihash : i_number[w] \in Files
  BY InCoreFiles
<1>v. v \in Vnodes /\ v \in allocated /\ v_usecount[v] \in Nat /\ ~Free(v) /\ v \notin VXLOCK
  BY <1>t DEF IInv, Contents, Kept, VnodeTypes
<1>1. /\ \A w \in Vnodes : w # v => Opens(w)' = Opens(w) /\ Uses(w)' = Uses(w)
      /\ \/ Opens(v)' = Opens(v) \ {p} /\ p \in Opens(v) /\ Uses(v)' = Uses(v)
         \/ Uses(v)' = Uses(v) \ {p} /\ p \in Uses(v) /\ Opens(v)' = Opens(v)
  <2>1. CASE pc[p] = "user" /\ fd[p] = v /\ fd'[p] = NoVnode
    BY <1>v, <2>1 DEF Opens, Uses, Using
  <2>2. CASE pc[p] \in {"found", "has", "bad", "fsync"} /\ vp[p] = v /\ UNCHANGED <<fd, opened>>
    BY <1>v, <2>2 DEF Opens, Uses, Using
  <2> QED
    BY <2>1, <2>2
<1>2. Counted' /\ v_usecount' \in [Vnodes -> Nat]
  BY <1>t, <1>v, <1>1, OneLess DEF IInv, VnodeTypes
<1>c. \A w \in Vnodes : v_usecount'[w] = IF w = v THEN v_usecount[v] - 1 ELSE v_usecount[w]
  BY <1>t DEF VnodeTypes
<1>e. v_usecount[v] = 1 => Opens(v)' = {} /\ Uses(v)' = {}
  <2>1. CASE Opens(v)' = Opens(v) \ {p} /\ p \in Opens(v) /\ Uses(v)' = Uses(v)
    BY <1>v, <2>1, OnlyOpen DEF IInv
  <2>2. CASE Uses(v)' = Uses(v) \ {p} /\ p \in Uses(v) /\ Opens(v)' = Opens(v)
    BY <1>v, <2>2, OnlyUse DEF IInv
  <2> QED
    BY <1>1, <2>1, <2>2
<1>3. /\ vfree' \in Seq(allocated') /\ Once(vfree')
      /\ \A w : Free(w)' <=> Free(w) \/ (w = v /\ v_usecount[v] = 1)
  <2>0. Once(vfree) /\ vfree \in Seq(allocated)
    BY <1>t DEF IInv, FreeList, Once, VnodeTypes
  <2>1. CASE v_usecount[v] = 1
    <3>1. /\ Append(vfree, v) \in Seq(allocated) /\ Once(Append(vfree, v))
          /\ Range(Append(vfree, v)) = Range(vfree) \cup {v}
      BY <1>v, <2>0, AppendOnce DEF Free
    <3>2. vfree' = Append(vfree, v)
      BY <2>1
    <3> QED
      BY <2>1, <3>1, <3>2 DEF Free
  <2>2. CASE v_usecount[v] # 1
    BY <2>0, <2>2 DEF Free
  <2> QED
    BY <2>1, <2>2
<1>p. /\ pc'[p] \in {"done", "inactive", "cleaning"} /\ vp'[p] = v
      /\ pc'[p] = "cleaning" => /\ gone'[p] = "done" /\ VXLOCK' = VXLOCK \cup {v}
                                /\ v_usecount[v] = 1
      /\ pc'[p] # "cleaning" => VXLOCK' = VXLOCK
      /\ pc'[p] = "inactive" => v \in i_mode /\ v_usecount[v] = 1
      /\ pc[p] \in {"user", "found", "has", "bad", "fsync"}
  OBVIOUS
<1>4. NoPanic'
  BY DEF IInv, NoPanic
<1>5. FreeList'
  <2>1. \A q \in Procs : Taken(q)' <=> Taken(q) /\ q # p
    BY <1>p DEF Taken
  <2>2. \A q \in Procs : Taken(q) => vp[q] # v /\ q # p
    BY <1>p, <1>v DEF IInv, FreeList, Contents, Cleaned, Taken
  <2>3. \A w \in allocated' : Free(w)' => v_usecount'[w] = 0
    BY <1>t, <1>v, <1>c, <1>3 DEF IInv, FreeList, VnodeTypes
  <2>4. ASSUME NEW w \in allocated', v_usecount'[w] = 0
        PROVE  Free(w)' \/ \E q \in Procs : Taken(q)' /\ vp'[q] = w
    <3>1. CASE w = v
      BY <1>v, <1>c, <1>3, <2>4, <3>1
    <3>2. CASE w # v
      <4>1. w \in allocated /\ v_usecount[w] = 0
        BY <1>t, <1>c, <2>4, <3>2 DEF VnodeTypes
      <4>2. Free(w) \/ \E q \in Procs : Taken(q) /\ vp[q] = w
        BY <4>1 DEF IInv, FreeList
      <4> QED
        BY <1>3, <2>1, <2>2, <4>2
    <3> QED
      BY <3>1, <3>2
  <2>5. \A q \in Procs : Taken(q)' => /\ vp'[q] \in allocated' /\ ~Free(vp[q])'
                                      /\ v_usecount'[vp'[q]] = 0
    <3>1. \A q \in Procs : Taken(q)' => /\ vp'[q] = vp[q] /\ vp[q] # v /\ vp[q] \in allocated
                                        /\ ~Free(vp[q]) /\ v_usecount[vp[q]] = 0
      BY <2>1, <2>2 DEF IInv, FreeList
    <3> QED
      BY <1>t, <1>c, <1>3, <3>1 DEF VnodeTypes
  <2> QED
    BY <1>3, <2>3, <2>4, <2>5 DEF FreeList, Once
<1>6. Contents'
  <2>1. \A q \in Procs : pc'[q] \in {"malloc", "fresh"} <=> pc[q] \in {"malloc", "fresh"} /\ q # p
    BY <1>p
  <2>2. \A w \in allocated' \cup v_mount' :
          \/ w \in ihash'
          \/ w \in VBAD' /\ w \notin v_mount'
          \/ \E q \in Procs : pc'[q] = "malloc" /\ vp'[q] = w
    BY <1>p DEF IInv, Contents
  <2>3. \A q \in Procs : /\ pc'[q] = "malloc" => vp'[q] \in allocated' \ (ihash' \cup VBAD')
                         /\ pc'[q] = "fresh" =>
                              \/ vp'[q] \in VBAD'
                              \/ vp'[q] \in VXLOCK' /\ wchan'[q] = <<"vnode", vp'[q]>>
    BY <2>1 DEF IInv, Contents
  <2> QED
    BY <2>2, <2>3 DEF IInv, Contents
<1>7. Cleaned'
  <2>1. \A w \in VXLOCK' : w \in ihash' /\ v_usecount'[w] = 0
    <3>1. \A w \in VXLOCK : w \in Vnodes /\ w \in ihash /\ w # v /\ v_usecount[w] = 0
      BY <1>t, <1>v DEF IInv, Cleaned, VnodeTypes
    <3> QED
      BY <1>v, <1>c, <1>p, <3>1
  <2>2. ASSUME NEW q \in Procs, pc'[q] = "cleaning"
        PROVE  /\ vp'[q] \in VXLOCK' /\ gone'[q] \in {"fresh", "done", "vflush"}
               /\ \A r \in Procs : pc'[r] = "cleaning" /\ vp'[r] = vp'[q] => r = q
    <3>1. \A r \in Procs : pc'[r] = "cleaning" /\ r # p =>
            /\ vp'[r] = vp[r] /\ vp[r] \in VXLOCK /\ vp[r] # v /\ gone'[r] = gone[r]
            /\ pc[r] = "cleaning" /\ gone[r] \in {"fresh", "done", "vflush"}
      BY <1>v DEF IInv, Cleaned
    <3>2. \A r, x \in Procs : pc[r] = "cleaning" /\ pc[x] = "cleaning" /\ vp[r] = vp[x] => r = x
      BY DEF IInv, Cleaned
    <3> QED
      BY <1>p, <2>2, <3>1, <3>2
  <2> QED
    BY <2>1, <2>2 DEF Cleaned
<1>8. \A w, x \in ihash : i_number[w] = i_number[x] => w = x
  BY DEF IInv, OneVnodePerFile
<1>9. Inactive'
  <2> SUFFICES ASSUME NEW q \in Procs, pc'[q] \in {"inactive", "update"}
               PROVE  (/\ Opens(vp[q]) = {} /\ Uses(vp[q]) \subseteq ilocking
                       /\ pc[q] = "inactive" => vp[q] \in i_mode
                       /\ pc[q] = "update" => (vp[q] \in i_mode <=> Linked(i_number[vp[q]])))'
    BY DEF Inactive
  <2>1. CASE q = p
    <3>1. pc'[p] = "inactive" /\ vp'[p] = v /\ v \in i_mode'
      BY <1>p, <2>1
    <3>2. Opens(v)' = {} /\ Uses(v)' = {}
      BY <1>e, <1>p, <3>1
    <3> QED
      BY <2>1, <3>1, <3>2 DEF Opens, Uses
  <2>2. CASE q # p
    <3>1. /\ pc'[q] = pc[q] /\ vp'[q] = vp[q] /\ vp[q] # v /\ vp[q] \in ihash /\ vp[q] \in Vnodes
      BY <2>2, Holders DEF Locking
    <3>2. Opens(vp[q])' = Opens(vp[q]) /\ Uses(vp[q])' = Uses(vp[q])
      BY <1>1, <3>1 DEF Opens, Uses
    <3>3. Linked(i_number[vp[q]])' <=> Linked(i_number[vp[q]])
      BY <1>n, <1>8, <3>1 DEF Linked
    <3> QED
      BY <3>1, <3>2, <3>3 DEF IInv, Inactive
  <2> QED
    BY <2>1, <2>2
<1>10. Modes' /\ Doomed'
  <2>0. \A w \in ihash : w # v => (Linked(i_number[w])' <=> Linked(i_number[w]))
    BY <1>n, <1>8 DEF Linked
  <2>1. \A w \in ihash : Linked(i_number[w])' => Linked(i_number[w])
    BY <1>n DEF Linked
  <2>2. ASSUME NEW w \in ihash, \E q \in Procs : pc[q] \in {"bread", "update"} /\ vp[q] = w
        PROVE  \E q \in Procs : pc'[q] \in {"bread", "update"} /\ vp'[q] = w
    <3>1. PICK q \in Procs : pc[q] \in {"bread", "update"} /\ vp[q] = w
      BY <2>2
    <3>2. pc'[q] \in {"bread", "update"} /\ vp'[q] = w
      BY <1>p, <3>1
    <3> QED
      BY <3>2
  <2>3. Modes'
    <3>1. \A n \in Names : dir'[n] # NoFile => dir'[n] \in di_mode'
      BY DEF IInv, Modes
    <3> QED
      BY <2>1, <2>2, <3>1 DEF IInv, Modes, Linked
  <2>4. ASSUME NEW w \in ihash', w \in i_mode'
        PROVE  \/ Linked(i_number[w])' \/ v_usecount'[w] > 0
               \/ \E q \in Procs : pc'[q] = "inactive" /\ vp'[q] = w
    <3>1. CASE w = v
      <4>1. v_usecount[v] > 1 => v_usecount'[v] > 0
        BY <1>v, <1>c
      <4>2. v_usecount[v] > 1 \/ pc'[p] = "inactive"
        BY <2>4, <3>1
      <4> QED
        BY <1>p, <3>1, <4>1, <4>2
    <3>2. CASE w # v
      <4>1. w \in ihash /\ w \in Vnodes /\ w \in i_mode /\ v_usecount'[w] = v_usecount[w]
        BY <1>t, <1>c, <2>4, <3>2
      <4>2. CASE \E q \in Procs : pc[q] = "inactive" /\ vp[q] = w
        <5>1. PICK q \in Procs : pc[q] = "inactive" /\ vp[q] = w
          BY <4>2
        <5>2. pc'[q] = "inactive" /\ vp'[q] = w
          BY <1>p, <5>1
        <5> QED
          BY <5>2
      <4>3. CASE ~\E q \in Procs : pc[q] = "inactive" /\ vp[q] = w
        <5>1. Linked(i_number[w]) \/ v_usecount[w] > 0
          BY <4>1, <4>3 DEF IInv, Doomed
        <5> QED
          BY <2>0, <3>2, <4>1, <5>1 DEF Linked
      <4> QED
        BY <4>2, <4>3
    <3> QED
      BY <3>1, <3>2
  <2>5. ASSUME NEW g \in di_mode' PROVE Linked(g)' \/ InCore(g)' # {}
    <3>1. g \in Files /\ InCore(g)' = InCore(g)
      BY <1>t, <2>5 DEF InCore
    <3>2. g = i_number[v] => v \in InCore(g)
      BY DEF InCore
    <3> QED
      BY <2>5, <3>1, <3>2 DEF IInv, Doomed
  <2> QED
    BY <2>3, <2>4, <2>5 DEF Doomed, Linked, InCore
<1>11. OneVnodePerFile'
  BY DEF IInv, OneVnodePerFile
<1>12. ReferencesSafe'
  <2>1. ASSUME NEW w, Kept(w), w # v \/ v_usecount[v] # 1 PROVE Kept(w)'
    <3>1. w \in Vnodes /\ w \in ihash /\ w \notin VXLOCK \cup VBAD /\ ~Free(w) /\ v_usecount[w] > 0
      BY <1>t, <2>1 DEF Kept
    <3>2. v_usecount'[w] > 0
      BY <1>v, <1>c, <2>1, <3>1
    <3>3. w \notin VXLOCK'
      BY <1>p, <2>1, <3>1
    <3> QED
      BY <1>3, <2>1, <3>1, <3>2, <3>3 DEF Kept
  <2>2. ASSUME NEW q \in Procs, fd'[q] # NoVnode PROVE Kept(fd[q])' /\ Is(fd[q], opened[q])'
    <3>1. fd'[q] = fd[q] /\ opened'[q] = opened[q]
      BY <2>2
    <3>2. Kept(fd[q]) /\ Is(fd[q], opened[q])
      BY <2>2, <3>1 DEF IInv, ReferencesSafe
    <3>3. fd[q] = v => v_usecount[v] # 1
      BY <1>e, <2>2, <3>1 DEF Opens
    <3>4. PICK w : w = fd[q]
      OBVIOUS
    <3>5. Kept(w)' /\ fd'[q] = w
      BY <2>1, <3>1, <3>2, <3>3, <3>4
    <3> QED
      BY <3>1, <3>2, <3>4, <3>5 DEF Kept, Is, Free
  <2>3. ASSUME NEW q \in Procs, pc'[q] \in {"cached", "found", "enter", "has", "bad", "fsync"}
        PROVE  /\ q # p /\ pc'[q] = pc[q] /\ ino'[q] = ino[q]
               /\ Kept(vp[q]) => Kept(vp[q])' /\ vp'[q] = vp[q]
    <3>1. q # p /\ pc'[q] = pc[q] /\ vp'[q] = vp[q] /\ ino'[q] = ino[q]
      BY <1>p, <2>3
    <3>2. vp[q] = v => v_usecount[v] # 1
      BY <1>e, <2>3, <3>1 DEF Uses, Using
    <3>3. PICK w : w = vp[q]
      OBVIOUS
    <3>4. Kept(w) => Kept(w)'
      BY <2>1, <3>2, <3>3
    <3> QED
      BY <3>1, <3>3, <3>4 DEF Kept, Free
  <2>4. ASSUME NEW q \in Procs, pc'[q] \in {"cached", "found", "enter", "has", "bad"}
        PROVE  Kept(vp[q])' /\ Is(vp[q], ino[q])'
    <3>1. /\ q # p /\ pc'[q] = pc[q] /\ ino'[q] = ino[q]
          /\ Kept(vp[q]) => Kept(vp[q])' /\ vp'[q] = vp[q]
      BY <2>3, <2>4
    <3>2. Kept(vp[q]) /\ Is(vp[q], ino[q])
      BY <2>4, <3>1 DEF IInv, ReferencesSafe
    <3> QED
      BY <3>1, <3>2 DEF Is
  <2>5. ASSUME NEW q \in Procs, pc'[q] = "fsync"
        PROVE  Kept(vp[q])' /\ i_number'[vp'[q]] = ino'[q]
    <3>1. /\ q # p /\ pc'[q] = pc[q] /\ ino'[q] = ino[q]
          /\ Kept(vp[q]) => Kept(vp[q])' /\ vp'[q] = vp[q]
      BY <2>3, <2>5
    <3>2. Kept(vp[q]) /\ i_number[vp[q]] = ino[q]
      BY <2>5, <3>1 DEF IInv, ReferencesSafe
    <3> QED
      BY <3>1, <3>2
  <2> QED
    BY <2>2, <2>4, <2>5 DEF ReferencesSafe
<1> QED
  BY <1>2, <1>3, <1>4, <1>5, <1>6, <1>7, <1>9, <1>10, <1>11, <1>12 DEF VnodesSound

\* ufs_iput: the inode has been locked by p.
LEMMA IputStep ==
  ASSUME IInv, NEW p \in Procs, pc[p] \in {"found", "has", "bad", "fsync"}, p \notin ilocking,
         ufs_iput(p, vp[p]),
         \A g \in Files : Linked(g)' => Linked(g),
         \A g \in Files : Linked(g) => Linked(g)' \/ g = i_number[vp[p]],
         \A n \in Names : dir'[n] \in {dir[n], NoFile},
         UNCHANGED <<call, ilocking, allocated, VXWANT, VBAD, v_mount, i_number, ihash, i_mode,
                     inodes, di_mode, system>>
  PROVE  VnodesSound' /\ VnodeTypes'
<1> DEFINE v == vp[p]
<1> USE Constants
<1>t. VnodeTypes
  BY DEF IInv, TypeOK, VnodeTypes
<1>a. /\ v \in ihash /\ v \in Vnodes /\ ILOCKED[v] = p
      /\ \A q \in Procs : q # p /\ pc[q] \in {"inactive", "update"} => vp[q] # v
      /\ \A w \in Vnodes : w # v => ILOCKED[w] # p
  BY Alone DEF Locking
<1>r. Kept(v)
  BY DEF IInv, ReferencesSafe
<1>u. UNCHANGED <<op, nm, ino, vp, fd, opened, ilocking, allocated, VXWANT, VBAD, v_mount,
                  i_number, ihash, i_mode, inodes, di_mode, system>>
  BY DEF call
<1>s. /\ v_usecount' = [v_usecount EXCEPT ![v] = @ - 1]
      /\ IWANT' = IWANT \ {v} /\ wchan' = Woken({<<"inode", v>>})
      /\ \/ /\ v_usecount[v] > 1 /\ ILOCKED' = [ILOCKED EXCEPT ![v] = NoProc]
            /\ pc' = [pc EXCEPT ![p] = "done"] /\ UNCHANGED <<vfree, VXLOCK, gone>>
         \/ /\ v_usecount[v] = 1 /\ UNCHANGED ILOCKED /\ v \in i_mode
            /\ pc' = [pc EXCEPT ![p] = "inactive"] /\ vfree' = Append(vfree, v)
            /\ UNCHANGED <<VXLOCK, gone>>
         \/ /\ v_usecount[v] = 1 /\ UNCHANGED ILOCKED /\ v \notin i_mode
            /\ pc' = [pc EXCEPT ![p] = "cleaning"] /\ vfree' = Append(vfree, v)
            /\ VXLOCK' = VXLOCK \cup {v} /\ gone' = [gone EXCEPT ![p] = "done"]
  BY DEF ufs_iput, ufs_iunlock, Goes
<1>o. \A q \in Procs : q # p => pc'[q] = pc[q] /\ gone'[q] = gone[q]
  BY <1>t, <1>s DEF VnodeTypes
<1>1. /\ wchan' \in [Procs -> {NoChan} \cup ({"vnode", "inode"} \X Vnodes)]
      /\ \A q \in Procs : \A x : wchan[q] = <<"vnode", x>> => wchan'[q] = wchan[q]
  <2>1. wchan' = Woken({<<"inode", v>>})
    BY <1>s
  <2> QED
    BY <2>1, WakesInode
<1>2. Releases(p, v)
  <2>1. /\ pc' = [pc EXCEPT ![p] = "done"] => pc'[p] = "done"
        /\ pc' = [pc EXCEPT ![p] = "inactive"] => pc'[p] = "inactive"
        /\ pc' = [pc EXCEPT ![p] = "cleaning"] => pc'[p] = "cleaning"
        /\ gone' = [gone EXCEPT ![p] = "done"] => gone'[p] = "done"
    BY <1>t DEF VnodeTypes
  <2> QED
    BY <1>u, <1>s, <1>o, <1>1, <2>1 DEF Releases
<1>3. Locks'
  <2>1. \A w \in Vnodes : w # v => ILOCKED'[w] = ILOCKED[w]
    BY <1>t, <1>s DEF VnodeTypes
  <2>2. \/ ILOCKED'[v] = NoProc /\ pc'[p] = "done"
        \/ ILOCKED'[v] = p /\ pc'[p] \in {"inactive", "cleaning"}
    BY <1>t, <1>a, <1>s DEF VnodeTypes
  <2>3. \A w \in Vnodes : ILOCKED'[w] # NoProc =>
          /\ vp'[ILOCKED'[w]] = w /\ ILOCKED'[w] \notin ilocking'
          /\ pc'[ILOCKED'[w]] \in Locking
    BY <1>t, <1>a, <1>u, <1>o, <2>1, <2>2 DEF IInv, Locks, Locking, VnodeTypes
  <2>4. \A q \in Procs : pc'[q] \in Locking =>
          vp'[q] \in ihash' /\ (q \in ilocking' \/ ILOCKED'[vp'[q]] = q)
    <3>1. \A q \in Procs : q # p /\ pc[q] \in Locking =>
            /\ vp[q] \in ihash /\ vp[q] \in Vnodes
            /\ q \in ilocking \/ (ILOCKED[vp[q]] = q /\ vp[q] # v)
      BY <1>a, Holders
    <3> QED
      BY <1>a, <1>u, <1>o, <2>1, <2>2, <3>1 DEF Locking
  <2>5. \A q \in ilocking' : pc'[q] \in {"cached", "cleaning"}
    <3>1. \A q \in ilocking : q \in Procs /\ pc[q] \in {"cached", "cleaning"}
      BY <1>t DEF IInv, Locks, VnodeTypes
    <3> QED
      BY <1>u, <1>o, <3>1
  <2> QED
    BY <2>3, <2>4, <2>5 DEF Locks
<1>4. \A q \in Procs : pc[q] \in {"inactive", "update"} => vp[q] # v
  BY <1>a
<1>5. VnodesSound' /\ v_usecount' \in [Vnodes -> Nat] /\ vfree' \in Seq(allocated')
  BY <1>a, <1>r, <1>2, <1>3, <1>4, ReleaseStep
<1>6. /\ pc' \in [Procs -> Places] /\ ILOCKED' \in [Vnodes -> Procs \cup {NoProc}]
      /\ gone' \in [Procs -> Places] /\ VXLOCK' \subseteq Vnodes
  <2>1. /\ [pc EXCEPT ![p] = "done"] \in [Procs -> Places]
        /\ [pc EXCEPT ![p] = "inactive"] \in [Procs -> Places]
        /\ [pc EXCEPT ![p] = "cleaning"] \in [Procs -> Places]
        /\ [gone EXCEPT ![p] = "done"] \in [Procs -> Places]
    BY <1>t DEF Places, VnodeTypes
  <2>2. gone \in [Procs -> Places] /\ VXLOCK \subseteq Vnodes
    BY <1>t DEF VnodeTypes
  <2>3. ILOCKED' \in [Vnodes -> Procs \cup {NoProc}]
    BY <1>t, <1>s DEF VnodeTypes
  <2> QED
    BY <1>a, <1>s, <2>1, <2>2, <2>3
<1> QED
  BY <1>t, <1>u, <1>s, <1>1, <1>5, <1>6 DEF VnodeTypes

\* ufs_iput is not a part of a lookup.
LEMMA IputEnds ==
  ASSUME IInv, NEW p \in Procs, NEW v, ufs_iput(p, v)
  PROVE  /\ \A q \in Procs : q # p => pc'[q] = pc[q] /\ gone'[q] = gone[q]
         /\ pc'[p] \in {"done", "inactive", "cleaning"}
         /\ ~Looking(p)' /\ LooksRight(p)'
<1>1. \/ pc' \in {[pc EXCEPT ![p] = "done"], [pc EXCEPT ![p] = "inactive"]} /\ gone' = gone
      \/ pc' = [pc EXCEPT ![p] = "cleaning"] /\ gone' = [gone EXCEPT ![p] = "done"]
  BY DEF ufs_iput, Goes
<1>2. /\ \A q \in Procs : q # p => pc'[q] = pc[q] /\ gone'[q] = gone[q]
      /\ pc'[p] \in {"done", "inactive"} \/ (pc'[p] = "cleaning" /\ gone'[p] = "done")
  BY <1>1, Functions
<1> QED
  BY <1>2 DEF Looking, LooksRight, Taken

LEMMA Keeps_vput ==
  ASSUME IInv, NEW p \in Procs, vput(p) \/ ffs_sync_vput(p)
  PROVE  IInv'
<1> DEFINE v == vp[p]
<1> USE Constants
<1>s. /\ pc[p] \in {"has", "bad", "fsync"} /\ p \notin ilocking /\ ufs_iput(p, v)
      /\ UNCHANGED <<op, nm, ino, vp, fd, opened, ilocking, allocated, VXWANT, VBAD, v_mount,
                     i_number, ihash, i_mode, nc, numcache, dir, inodes, di_mode, dirlock,
                     flushed, system>>
  BY DEF vput, ffs_sync_vput, Runs, call, cache, disk
<1>1. VnodesSound' /\ VnodeTypes'
  <2>1. \A g : Linked(g)' <=> Linked(g)
    BY <1>s DEF Linked
  <2> QED
    BY <1>s, <2>1, IputStep DEF call
<1>2. TypeOK' /\ EntriesSound'
  BY <1>s, <1>1 DEF IInv, TypeOK, VnodeTypes, EntriesSound
<1>o. /\ \A q \in Procs : q # p => pc'[q] = pc[q] /\ gone'[q] = gone[q]
      /\ ~Looking(p)' /\ LooksRight(p)'
  BY <1>s, IputEnds
<1>3. Lookups'
  <2>1. \A q \in Procs \ {p} : InCore(ino[q])' \subseteq InCore(ino[q])
    BY <1>s DEF InCore
  <2> QED
    BY <1>s, <1>o, <2>1, LookupsKept
<1>4. Inodes'
  <2>1. \A q \in Procs : Looking(q)' => q # p
    BY <1>o
  <2>2. \A q \in Procs : Resolved(q)' => Resolved(q) /\ q # p
    BY <1>s, <1>o, <2>1 DEF Resolved, Looking
  <2>3. \A q \in Procs : New(q)' => New(q) /\ q # p
    BY <1>s, <2>2 DEF New
  <2>4. \A q \in Procs : pc'[q] = "bread" => q # p
    BY <2>1 DEF Looking
  <2>5. \A q \in Procs : (pc[q] = "bread" => i_number[vp[q]] = ino[q])'
    BY <1>s, <1>o, <2>4 DEF IInv, Inodes
  <2>6. \A q \in Procs : New(q)' => (pc[q] = "bread" => ino[q] \notin di_mode)'
    BY <1>s, <1>o, <2>3 DEF IInv, Inodes
  <2>7. \A q \in Procs : New(q)' =>
          (InCore(ino[q]) \cap i_mode)' \subseteq InCore(ino[q]) \cap i_mode
    BY <1>s DEF InCore
  <2> QED
    BY <1>s, <2>2, <2>5, <2>6, <2>7, InodesKept
<1> QED
  BY <1>1, <1>2, <1>3, <1>4 DEF IInv, VnodesSound

\* The name goes, and with it the link of the file p has; whoever enters that name in
\* the cache would have the inode locked, as p has.
LEMMA Keeps_ufs_remove ==
  ASSUME IInv, NEW p \in Procs, ufs_remove(p)
  PROVE  IInv'
<1> DEFINE v == vp[p]
           n == nm[p]
<1> USE Constants
<1>s. /\ pc[p] = "found" /\ p \notin ilocking /\ op[p] = "DELETE" /\ ufs_iput(p, v)
      /\ dir' = [dir EXCEPT ![n] = NoFile] \/ dir' = dir
      /\ UNCHANGED <<op, nm, ino, vp, fd, opened, ilocking, allocated, VXWANT, VBAD, v_mount,
                     i_number, ihash, i_mode, nc, numcache, inodes, di_mode, dirlock,
                     flushed, system>>
  BY DEF ufs_remove, Runs, call, cache
<1>l. Looking(p) /\ Resolved(p) /\ dirlock = p /\ n \in Names /\ \A q \in Procs : Looking(q) => q = p
  <2>1. Looking(p) /\ Resolved(p)
    BY <1>s DEF Looking, Resolved
  <2> QED
    BY <2>1 DEF IInv, Lookups
<1>a. v \in ihash /\ v \in Vnodes /\ ILOCKED[v] = p
  BY <1>s, Alone DEF Locking
<1>n. dir[n] = i_number[v] /\ dir[n] # NoFile
  <2>1. ~New(p)
    BY <1>s DEF IInv, Inodes
  <2>2. ino[p] = dir[n] /\ dir[n] # NoFile
    BY <1>l, <2>1 DEF IInv, Inodes, New
  <2>3. Is(v, ino[p])
    BY <1>s DEF IInv, ReferencesSafe
  <2> QED
    BY <2>2, <2>3 DEF Is
<1>d. \A m \in Names : dir'[m] \in {dir[m], NoFile} /\ (m # n => dir'[m] = dir[m])
  BY <1>s, Functions
<1>1. dir' \in [Names -> Files \cup {NoFile}]
  BY <1>s, Functions
<1>2. /\ \A g \in Files : Linked(g)' => Linked(g)
      /\ \A g \in Files : Linked(g) => Linked(g)' \/ g = i_number[v]
  <2>1. \A f : Linked(f)' <=> \E m \in Names : dir'[m] = f
    <3>1. DOMAIN dir' = Names
      BY <1>1
    <3> QED
      BY <3>1 DEF Linked, Range
  <2> QED
    BY <1>n, <1>d, <2>1, Links DEF IInv
<1>3. VnodesSound' /\ VnodeTypes'
  BY <1>s, <1>d, <1>2, IputStep DEF call
<1>4. TypeOK'
  BY <1>s, <1>1, <1>3 DEF IInv, TypeOK, VnodeTypes
<1>5. EntriesSound'
  BY <1>s, <1>d DEF IInv, EntriesSound
<1>o. /\ \A q \in Procs : q # p => pc'[q] = pc[q] /\ gone'[q] = gone[q]
      /\ ~Looking(p)' /\ LooksRight(p)'
  BY <1>s, IputEnds
<1>6. Lookups'
  <2>1. \A q \in Procs \ {p} : InCore(ino[q])' \subseteq InCore(ino[q])
    BY <1>s DEF InCore
  <2>2. ASSUME NEW q \in Procs \ {p}, pc[q] = "enter" PROVE nm[q] # n
    <3>1. vp[q] \in ihash /\ vp[q] \in Vnodes /\ (q \in ilocking \/ ILOCKED[vp[q]] = q)
      BY <2>2, Holders DEF Locking
    <3>2. q \notin ilocking
      BY <2>2 DEF IInv, Locks
    <3>3. vp[q] # v
      BY <1>a, <3>1, <3>2
    <3>4. i_number[vp[q]] # i_number[v]
      BY <1>a, <3>1, <3>3 DEF IInv, OneVnodePerFile
    <3>5. dir[nm[q]] = ino[q] /\ ino[q] # NoFile /\ Is(vp[q], ino[q])
      BY <2>2 DEF IInv, Lookups, ReferencesSafe
    <3> QED
      BY <1>n, <3>4, <3>5 DEF Is
  <2>3. \A q \in Procs \ {p} : pc[q] \notin {"enoent", "cached"}
    BY <1>l DEF IInv, Lookups, Looking
  <2>4. \A q \in Procs \ {p} : pc[q] = "enter" => nm[q] \in Names
    BY DEF IInv, Lookups
  <2> QED
    BY <1>s, <1>o, <1>d, <2>1, <2>2, <2>3, <2>4, LookupsKept
<1>7. Inodes'
  <2>1. \A q \in Procs : ~Looking(q)'
    BY <1>s, <1>o, <1>l DEF Looking
  <2>2. \A q \in Procs : ~Resolved(q)' /\ ~New(q)' /\ pc'[q] # "bread"
    BY <2>1 DEF Resolved, New, Looking
  <2>3. \A m \in Names : dir'[m] \in inodes' \cup {NoFile}
    BY <1>s, <1>d DEF IInv, Inodes
  <2> QED
    BY <2>2, <2>3 DEF Inodes
<1> QED
  BY <1>3, <1>4, <1>5, <1>6, <1>7 DEF IInv, VnodesSound

\* vrele: the last reference gets the lock of the inode at once.
LEMMA Keeps_Close ==
  ASSUME IInv, NEW p \in Procs, Close(p)
  PROVE  IInv'
<1> DEFINE v == fd[p]
<1> USE Constants
<1>t. VnodeTypes
  BY DEF IInv, TypeOK, VnodeTypes
<1>p. /\ pc[p] = "user" /\ p \notin ilocking /\ v # NoVnode
      /\ vp' = [vp EXCEPT ![p] = v]
      /\ fd' = [fd EXCEPT ![p] = NoVnode] /\ opened' = [opened EXCEPT ![p] = NoFile]
      /\ UNCHANGED <<op, nm, ino, allocated, VXWANT, VBAD, v_mount, i_number, ihash, i_mode,
                     nc, numcache, dir, inodes, di_mode, dirlock, flushed, system>>
  BY DEF Close, Runs, cache, disk
<1>r. Kept(v) /\ v \in ihash /\ v \in Vnodes /\ p \in Opens(v)
  BY <1>p, Functions DEF IInv, ReferencesSafe, Kept, Opens
<1>i. \A q \in Procs : pc[q] \in {"inactive", "update"} => vp[q] # v
  BY <1>r DEF IInv, Inactive
<1>f. v_usecount[v] = 1 => ILOCKED[v] = NoProc
  <2> SUFFICES ASSUME v_usecount[v] = 1, ILOCKED[v] # NoProc PROVE FALSE
    OBVIOUS
  <2> DEFINE q == ILOCKED[v]
  <2>1. q \in Procs /\ vp[q] = v /\ pc[q] \in Locking
    BY <1>t, <1>r DEF IInv, Locks, VnodeTypes
  <2>2. Uses(v) = {}
    BY <1>r, OnlyOpen DEF IInv
  <2>3. pc[q] = "cleaning"
    BY <1>i, <2>1, <2>2 DEF Uses, Using, Locking
  <2> QED
    BY <1>r, <2>1, <2>3 DEF IInv, Cleaned, Kept
<1>s. /\ v_usecount' = [v_usecount EXCEPT ![v] = @ - 1]
      /\ ilocking' = ilocking /\ UNCHANGED <<IWANT, wchan>>
      /\ \/ /\ v_usecount[v] > 1 /\ UNCHANGED ILOCKED
            /\ pc' = [pc EXCEPT ![p] = "done"] /\ UNCHANGED <<vfree, VXLOCK, gone>>
         \/ /\ v_usecount[v] = 1 /\ ILOCKED[v] = NoProc /\ ILOCKED' = [ILOCKED EXCEPT ![v] = p]
            /\ vfree' = Append(vfree, v)
            /\ \/ /\ v \in i_mode /\ pc' = [pc EXCEPT ![p] = "inactive"]
                  /\ UNCHANGED <<VXLOCK, gone>> /\ ufs_ilock(p, v, "inactive")
               \/ /\ v \notin i_mode /\ pc' = [pc EXCEPT ![p] = "cleaning"]
                  /\ VXLOCK' = VXLOCK \cup {v} /\ gone' = [gone EXCEPT ![p] = "done"]
                  /\ ufs_ilock(p, v, "cleaning")
  BY <1>p, <1>f DEF Close, vrele, vclean, ufs_ilock, Goes
<1>o. /\ \A q \in Procs : q # p => /\ pc'[q] = pc[q] /\ vp'[q] = vp[q] /\ fd'[q] = fd[q]
                                   /\ opened'[q] = opened[q] /\ gone'[q] = gone[q]
      /\ vp'[p] = v /\ fd'[p] = NoVnode
      /\ pc'[p] \in {"done", "inactive"} \/ (pc'[p] = "cleaning" /\ gone'[p] = "done")
  <2>1. \/ pc' \in {[pc EXCEPT ![p] = "done"], [pc EXCEPT ![p] = "inactive"]} /\ gone' = gone
        \/ pc' = [pc EXCEPT ![p] = "cleaning"] /\ gone' = [gone EXCEPT ![p] = "done"]
    BY <1>s
  <2> QED
    BY <1>p, <2>1, Functions
<1>1. Releases(p, v)
  <2>1. /\ pc' = [pc EXCEPT ![p] = "done"] => pc'[p] = "done"
        /\ pc' = [pc EXCEPT ![p] = "inactive"] => pc'[p] = "inactive"
        /\ pc' = [pc EXCEPT ![p] = "cleaning"] => pc'[p] = "cleaning"
        /\ gone' = [gone EXCEPT ![p] = "done"] => gone'[p] = "done"
    BY Functions
  <2> QED
    BY <1>p, <1>s, <1>o, <2>1 DEF Releases
<1>2. Locks'
  <2>1. CASE v_usecount[v] = 1
    <3>1. CASE v \in i_mode
      <4>1. ufs_ilock(p, v, "inactive") /\ ILOCKED[v] = NoProc
        BY <1>t, <1>s, <2>1, <3>1 DEF VnodeTypes
      <4> QED
        BY <1>p, <1>r, <1>s, <1>o, <4>1, LockStep DEF Locking
    <3>2. CASE v \notin i_mode
      <4>1. ufs_ilock(p, v, "cleaning") /\ ILOCKED[v] = NoProc
        BY <1>t, <1>s, <2>1, <3>2 DEF VnodeTypes
      <4> QED
        BY <1>p, <1>r, <1>s, <1>o, <4>1, LockStep DEF Locking
    <3> QED
      BY <3>1, <3>2
  <2>2. CASE v_usecount[v] > 1
    <3>1. \A w \in Vnodes : ILOCKED[w] # p
      BY <1>p DEF IInv, Locks, Locking
    <3>2. UNCHANGED <<ILOCKED, ilocking, ihash>> /\ pc'[p] = "done"
      BY <1>t, <1>p, <1>s, <2>2 DEF VnodeTypes
    <3>3. \A w \in Vnodes : ILOCKED'[w] # NoProc =>
            /\ vp'[ILOCKED'[w]] = w /\ ILOCKED'[w] \notin ilocking'
            /\ pc'[ILOCKED'[w]] \in Locking
      BY <1>t, <1>o, <3>1, <3>2 DEF IInv, Locks, VnodeTypes
    <3>4. \A q \in Procs : pc'[q] \in Locking =>
            vp'[q] \in ihash' /\ (q \in ilocking' \/ ILOCKED'[vp'[q]] = q)
      BY <1>o, <3>2, Holders DEF Locking
    <3>5. \A q \in ilocking' : pc'[q] \in {"cached", "cleaning"}
      BY <1>t, <1>p, <1>o, <3>2 DEF IInv, Locks, VnodeTypes
    <3> QED
      BY <3>3, <3>4, <3>5 DEF Locks
  <2> QED
    BY <1>s, <2>1, <2>2
<1>3. VnodesSound' /\ v_usecount' \in [Vnodes -> Nat] /\ vfree' \in Seq(allocated')
  <2>1. \A g : Linked(g)' <=> Linked(g)
    BY <1>p DEF Linked
  <2>2. \A n \in Names : dir'[n] \in {dir[n], NoFile}
    BY <1>p
  <2> QED
    BY <1>r, <1>i, <1>1, <1>2, <2>1, <2>2, ReleaseStep
<1>4. TypeOK'
  <2>1. /\ pc' \in [Procs -> Places] /\ gone' \in [Procs -> Places] /\ VXLOCK' \subseteq Vnodes
        /\ ILOCKED' \in [Vnodes -> Procs \cup {NoProc}]
    <3>1. /\ pc' \in {[pc EXCEPT ![p] = "done"], [pc EXCEPT ![p] = "inactive"],
                      [pc EXCEPT ![p] = "cleaning"]}
          /\ ILOCKED' \in {ILOCKED, [ILOCKED EXCEPT ![v] = p]}
          /\ VXLOCK' \in {VXLOCK, VXLOCK \cup {v}}
          /\ gone' \in {gone, [gone EXCEPT ![p] = "done"]}
      BY <1>s
    <3>2. /\ [pc EXCEPT ![p] = "done"] \in [Procs -> Places]
          /\ [pc EXCEPT ![p] = "inactive"] \in [Procs -> Places]
          /\ [pc EXCEPT ![p] = "cleaning"] \in [Procs -> Places]
          /\ [gone EXCEPT ![p] = "done"] \in [Procs -> Places]
      BY Functions DEF Places
    <3>3. /\ [ILOCKED EXCEPT ![v] = p] \in [Vnodes -> Procs \cup {NoProc}]
          /\ ILOCKED \in [Vnodes -> Procs \cup {NoProc}] /\ VXLOCK \subseteq Vnodes
          /\ gone \in [Procs -> Places]
      BY <1>t, <1>r DEF VnodeTypes
    <3> QED
      BY <1>r, <3>1, <3>2, <3>3
  <2>2. /\ vp' \in [Procs -> Vnodes \cup {NoVnode}] /\ fd' \in [Procs -> Vnodes \cup {NoVnode}]
        /\ opened' \in [Procs -> Files \cup {NoFile}]
    BY <1>p, <1>r, Functions
  <2> QED
    BY <1>p, <1>s, <1>3, <2>1, <2>2 DEF IInv, TypeOK
<1>5. EntriesSound'
  BY <1>p DEF IInv, EntriesSound
<1>l. ~Looking(p)' /\ LooksRight(p)'
  BY <1>o DEF Looking, LooksRight, Taken
<1>6. Lookups'
  <2>1. \A q \in Procs \ {p} : InCore(ino[q])' \subseteq InCore(ino[q])
    BY <1>p DEF InCore
  <2> QED
    BY <1>p, <1>o, <1>l, <2>1, LookupsKept
<1>7. Inodes'
  <2>1. \A q \in Procs : Looking(q)' => q # p
    BY <1>l
  <2>2. \A q \in Procs : Resolved(q)' => Resolved(q) /\ q # p
    BY <1>o, <2>1 DEF Resolved, Looking
  <2>3. \A q \in Procs : New(q)' => New(q) /\ q # p
    BY <1>p, <2>2 DEF New
  <2>4. \A q \in Procs : pc'[q] = "bread" => q # p
    BY <2>1 DEF Looking
  <2>5. \A q \in Procs : (pc[q] = "bread" => i_number[vp[q]] = ino[q])'
    BY <1>p, <1>o, <2>4 DEF IInv, Inodes
  <2>6. \A q \in Procs : New(q)' => (pc[q] = "bread" => ino[q] \notin di_mode)'
    BY <1>p, <1>o, <2>3 DEF IInv, Inodes
  <2>7. \A q \in Procs : New(q)' =>
          (InCore(ino[q]) \cap i_mode)' \subseteq InCore(ino[q]) \cap i_mode
    BY <1>p DEF InCore
  <2> QED
    BY <1>p, <2>2, <2>5, <2>6, <2>7, InodesKept
<1> QED
  BY <1>3, <1>4, <1>5, <1>6, <1>7 DEF IInv, VnodesSound

LEMMA Keeps_Keep ==
  ASSUME IInv, NEW p \in Procs, Keep(p)
  PROVE  IInv'
<1> DEFINE v == vp[p]
<1> USE Constants
<1>t. VnodeTypes
  BY DEF IInv, TypeOK, VnodeTypes
<1>s. /\ pc[p] = "has" /\ p \notin ilocking /\ fd[p] = NoVnode
      /\ fd' = [fd EXCEPT ![p] = v] /\ opened' = [opened EXCEPT ![p] = ino[p]]
      /\ ILOCKED' = [ILOCKED EXCEPT ![v] = NoProc] /\ IWANT' = IWANT \ {v}
      /\ wchan' = Woken({<<"inode", v>>})
      /\ pc' = [pc EXCEPT ![p] = "user"]
      /\ dirlock' = IF dirlock = p THEN NoProc ELSE dirlock
      /\ vp' = [vp EXCEPT ![p] = NoVnode] /\ ino' = [ino EXCEPT ![p] = NoFile]
      /\ nm' = [nm EXCEPT ![p] = NoName] /\ op' = [op EXCEPT ![p] = "none"]
      /\ UNCHANGED <<ilocking, gone, allocated, vfree, v_usecount, VXLOCK, VXWANT, VBAD,
                     v_mount, i_number, ihash, i_mode, nc, numcache, dir, inodes, di_mode, flushed, system>>
  BY DEF Keep, Runs, Goes, ufs_iunlock, Returns, table, cache, disk
<1>a. /\ v \in ihash /\ v \in Vnodes /\ ILOCKED[v] = p
      /\ \A q \in Procs : pc[q] \in {"inactive", "update"} => vp[q] # v
      /\ \A w \in Vnodes : w # v => ILOCKED[w] # p
  BY <1>s, Alone DEF Locking
<1>r. Kept(v) /\ Is(v, ino[p]) /\ p \in Uses(v) /\ p \notin Opens(v)
  BY <1>s, <1>a DEF IInv, ReferencesSafe, Uses, Using, Opens
<1>o. /\ \A q \in Procs : q # p => /\ pc'[q] = pc[q] /\ vp'[q] = vp[q] /\ fd'[q] = fd[q]
                                   /\ opened'[q] = opened[q] /\ ino'[q] = ino[q]
                                   /\ nm'[q] = nm[q] /\ op'[q] = op[q]
      /\ pc'[p] = "user" /\ fd'[p] = v /\ opened'[p] = ino[p]
  BY <1>s, Functions
<1>w. /\ wchan' \in [Procs -> {NoChan} \cup ({"vnode", "inode"} \X Vnodes)]
      /\ \A q \in Procs : \A x : wchan[q] = <<"vnode", x>> => wchan'[q] = wchan[q]
  BY <1>s, WakesInode
<1>1. TypeOK'
  <2>1. /\ pc' \in [Procs -> Places] /\ vp' \in [Procs -> Vnodes \cup {NoVnode}]
        /\ fd' \in [Procs -> Vnodes \cup {NoVnode}]
        /\ opened' \in [Procs -> Files \cup {NoFile}]
        /\ ino' \in [Procs -> Files \cup {NoFile}] /\ nm' \in [Procs -> Names \cup {NoName}]
        /\ op' \in [Procs -> Ops \cup Syncs \cup {"none"}]
        /\ ILOCKED' \in [Vnodes -> Procs \cup {NoProc}]
        /\ dirlock' \in Procs \cup {NoProc} /\ IWANT' \subseteq Vnodes
    BY <1>s, <1>a DEF IInv, TypeOK, Places
  <2> QED
    BY <1>s, <1>w, <2>1 DEF IInv, TypeOK
<1>2. /\ \A w \in Vnodes : w # v => Opens(w)' = Opens(w) /\ Uses(w)' = Uses(w)
      /\ {q \in Procs : fd'[q] = v} = Opens(v) \cup {p}
      /\ {q \in Procs : pc'[q] \in Using /\ vp'[q] = v} = Uses(v) \ {p}
  BY <1>s, <1>a, <1>o DEF Opens, Uses, Using
<1>3. Counted'
  <2> SUFFICES ASSUME NEW w \in Vnodes, w = v PROVE Counted'
    BY <1>a
  <2>1. Opens(w)' = Opens(w) \cup {p} /\ Uses(w)' = Uses(w) \ {p}
    BY <1>2 DEF Opens, Uses
  <2> QED
    BY <1>s, <1>r, <1>2, <2>1, KeptOpen DEF IInv
<1>4. NoPanic' /\ FreeList' /\ Cleaned'
  BY <1>s, <1>o DEF IInv, NoPanic, FreeList, Taken, Free, Cleaned
<1>5. Contents'
  <2>1. \A w \in allocated' \cup v_mount' :
          \/ w \in ihash'
          \/ w \in VBAD' /\ w \notin v_mount'
          \/ \E q \in Procs : pc'[q] = "malloc" /\ vp'[q] = w
    BY <1>s, <1>o DEF IInv, Contents
  <2>2. \A q \in Procs : /\ pc'[q] = "malloc" => vp'[q] \in allocated' \ (ihash' \cup VBAD')
                         /\ pc'[q] = "fresh" =>
                              \/ vp'[q] \in VBAD'
                              \/ vp'[q] \in VXLOCK' /\ wchan'[q] = <<"vnode", vp'[q]>>
    <3>1. \A q \in Procs : pc'[q] \in {"malloc", "fresh"} => pc'[q] = pc[q] /\ vp'[q] = vp[q]
      BY <1>o
    <3>2. \A q \in Procs : /\ pc[q] = "malloc" => vp[q] \in allocated \ (ihash \cup VBAD)
                           /\ pc[q] = "fresh" =>
                                \/ vp[q] \in VBAD
                                \/ vp[q] \in VXLOCK /\ wchan[q] = <<"vnode", vp[q]>>
      BY DEF IInv, Contents
    <3>3. UNCHANGED <<allocated, ihash, VBAD, VXLOCK>>
      BY <1>s
    <3> QED
      BY <1>w, <3>1, <3>2, <3>3
  <2> QED
    BY <1>s, <2>1, <2>2 DEF IInv, Contents
<1>6. Locks'
  <2>1. \A w \in Vnodes : ILOCKED'[w] = IF w = v THEN NoProc ELSE ILOCKED[w]
    BY <1>t, <1>s DEF VnodeTypes
  <2>2. \A q \in Procs : q # p /\ pc[q] \in Locking =>
          /\ vp[q] \in ihash /\ vp[q] \in Vnodes
          /\ q \in ilocking \/ (ILOCKED[vp[q]] = q /\ vp[q] # v)
    BY <1>a, Holders
  <2>3. \A w \in Vnodes : ILOCKED'[w] # NoProc =>
          /\ vp'[ILOCKED'[w]] = w /\ ILOCKED'[w] \notin ilocking'
          /\ pc'[ILOCKED'[w]] \in Locking
    BY <1>t, <1>a, <1>s, <1>o, <2>1 DEF IInv, Locks, VnodeTypes
  <2>4. \A q \in Procs : pc'[q] \in Locking =>
          vp'[q] \in ihash' /\ (q \in ilocking' \/ ILOCKED'[vp'[q]] = q)
    BY <1>s, <1>o, <2>1, <2>2 DEF Locking
  <2>5. \A q \in ilocking' : pc'[q] \in {"cached", "cleaning"}
    BY <1>t, <1>s, <1>o DEF IInv, Locks, VnodeTypes
  <2> QED
    BY <2>3, <2>4, <2>5 DEF Locks
<1>7. Inactive'
  <2>1. \A q \in Procs : pc'[q] \in {"inactive", "update"} =>
          pc'[q] = pc[q] /\ vp'[q] = vp[q] /\ vp[q] # v /\ vp[q] \in Vnodes
    BY <1>a, <1>o, Holders DEF Locking
  <2>2. \A q \in Procs : pc'[q] \in {"inactive", "update"} =>
          Opens(vp[q])' = Opens(vp[q]) /\ Uses(vp[q])' = Uses(vp[q])
    BY <1>2, <2>1
  <2>3. \A q \in Procs : pc[q] \in {"inactive", "update"} =>
          /\ Opens(vp[q]) = {} /\ Uses(vp[q]) \subseteq ilocking
          /\ pc[q] = "inactive" => vp[q] \in i_mode
          /\ pc[q] = "update" => (vp[q] \in i_mode <=> Linked(i_number[vp[q]]))
    BY DEF IInv, Inactive
  <2>4. \A g : Linked(g)' <=> Linked(g)
    BY <1>s DEF Linked
  <2>5. UNCHANGED <<ilocking, i_number, inodes, i_mode>>
    BY <1>s
  <2> QED
    BY <2>1, <2>2, <2>3, <2>4, <2>5 DEF Inactive, Linked
<1>8. Modes' /\ Doomed' /\ OneVnodePerFile' /\ EntriesSound'
  <2>1. \A q \in Procs : pc[q] \in {"bread", "update", "inactive"} =>
          pc'[q] = pc[q] /\ vp'[q] = vp[q]
    BY <1>s, <1>o
  <2>2. OneVnodePerFile' /\ EntriesSound'
    BY <1>s DEF IInv, OneVnodePerFile, EntriesSound
  <2> QED
    BY <1>s, <2>1, <2>2, ModesKept
<1>9. ReferencesSafe'
  <2>1. \A w : Kept(w)' <=> Kept(w)
    BY <1>s DEF Kept, Free
  <2>2. \A w, g : Is(w, g)' <=> Is(w, g)
    BY <1>s DEF Is
  <2>3. ASSUME NEW q \in Procs, fd'[q] # NoVnode PROVE Kept(fd[q])' /\ Is(fd[q], opened[q])'
    <3>1. PICK w, g : w = fd'[q] /\ g = opened'[q]
      OBVIOUS
    <3>2. Kept(w) /\ Is(w, g)
      BY <1>r, <1>o, <2>3, <3>1 DEF IInv, ReferencesSafe
    <3> QED
      BY <2>1, <2>2, <3>1, <3>2 DEF Kept, Is, Free
  <2>4. ASSUME NEW q \in Procs, pc'[q] \in {"cached", "found", "enter", "has", "bad"}
        PROVE  Kept(vp[q])' /\ Is(vp[q], ino[q])'
    <3>1. PICK w, g : w = vp'[q] /\ g = ino'[q]
      OBVIOUS
    <3>2. Kept(w) /\ Is(w, g)
      BY <1>o, <2>4, <3>1 DEF IInv, ReferencesSafe
    <3> QED
      BY <2>1, <2>2, <3>1, <3>2 DEF Kept, Is, Free
  <2>5. ASSUME NEW q \in Procs, pc'[q] = "fsync"
        PROVE  Kept(vp[q])' /\ i_number'[vp'[q]] = ino'[q]
    <3>1. PICK w : w = vp'[q]
      OBVIOUS
    <3>2. Kept(w) /\ i_number[w] = ino'[q]
      BY <1>o, <2>5, <3>1 DEF IInv, ReferencesSafe
    <3> QED
      BY <1>s, <2>1, <3>1, <3>2 DEF Kept, Free
  <2> QED
    BY <2>3, <2>4, <2>5 DEF ReferencesSafe
<1>10. Lookups'
  <2>1. LooksRight(p)'
    BY <1>o, NotLooking
  <2>2. \A q \in Procs \ {p} : InCore(ino[q])' \subseteq InCore(ino[q])
    BY <1>s, <1>o DEF InCore
  <2> QED
    BY <1>s, <1>o, <2>1, <2>2, LookupsKept
<1>11. Inodes'
  <2>1. \A q \in Procs : Resolved(q)' => Resolved(q) /\ q # p
    BY <1>s, <1>o DEF Resolved, Looking
  <2>2. \A q \in Procs : New(q)' => New(q) /\ q # p
    BY <1>s, <1>o, <2>1 DEF New
  <2>3. \A q \in Procs : (pc[q] = "bread" => i_number[vp[q]] = ino[q])'
    BY <1>s, <1>o DEF IInv, Inodes
  <2>4. \A q \in Procs : New(q)' => (pc[q] = "bread" => ino[q] \notin di_mode)'
    BY <1>s, <1>o, <2>2 DEF IInv, Inodes
  <2>5. \A q \in Procs : New(q)' =>
          (InCore(ino[q]) \cap i_mode)' \subseteq InCore(ino[q]) \cap i_mode
    BY <1>s, <1>o, <2>2 DEF InCore
  <2> QED
    BY <1>s, <1>o, <2>1, <2>3, <2>4, <2>5, InodesKept
<1> QED
  BY <1>1, <1>3, <1>4, <1>5, <1>6, <1>7, <1>8, <1>9, <1>10, <1>11 DEF IInv

-----------------------------------------------------------------------------
(* The end of a vnode.                                                       *)

\* ffs_inactive gives up an inode that nobody has, or will get by name.
LEMMA Keeps_ffs_inactive ==
  ASSUME IInv, NEW p \in Procs, ffs_inactive(p)
  PROVE  IInv'
<1> DEFINE v == vp[p]
           f == i_number[v]
<1> USE Constants
<1>s. /\ pc[p] = "inactive" /\ p \notin ilocking
      /\ inodes' = IF ~Linked(f) THEN inodes \ {f} ELSE inodes
      /\ i_mode' = IF ~Linked(f) THEN i_mode \ {v} ELSE i_mode
      /\ pc' = [pc EXCEPT ![p] = "update"]
      /\ UNCHANGED <<op, nm, ino, vp, fd, opened, ilocking, gone, wchan, allocated, vfree,
                     v_usecount, VXLOCK, VXWANT, VBAD, v_mount, i_number, ihash, ILOCKED, IWANT,
                     nc, numcache, dir, di_mode, dirlock, flushed, system>>
  BY DEF ffs_inactive, Runs, Goes, Linked, call, wait, table, cache
<1>o. \A q \in Procs : pc'[q] = IF q = p THEN "update" ELSE pc[q]
  BY <1>s DEF IInv, TypeOK
<1>a. /\ v \in ihash /\ v \in Vnodes /\ ILOCKED[v] = p
      /\ \A q \in Procs : q # p /\ pc[q] \in {"inactive", "update"} => vp[q] # v
  BY <1>s, Alone DEF Locking
<1>u. Opens(v) = {} /\ Uses(v) \subseteq ilocking /\ v \in i_mode
  BY <1>s DEF IInv, Inactive
<1>f. \A w \in ihash : i_number[w] = f => w = v
  BY <1>a DEF IInv, OneVnodePerFile
<1>r. \A q \in Procs : pc[q] \in Using /\ vp[q] = v /\ ino[q] # NoFile => Linked(f)
  <2> SUFFICES ASSUME NEW q \in Procs, pc[q] \in Using, vp[q] = v, ino[q] # NoFile
               PROVE  Linked(f)
    OBVIOUS
  <2>1. q \in ilocking
    BY <1>u DEF Uses
  <2>2. pc[q] = "cached"
    BY <2>1 DEF IInv, Locks, Using
  <2>3. nm[q] \in Names /\ dir[nm[q]] = ino[q] /\ ino[q] = f
    BY <2>2 DEF IInv, Lookups
  <2> QED
    BY <2>3, Links DEF IInv
<1>1. TypeOK'
  BY <1>s DEF IInv, TypeOK, Places
<1>2. \A w \in Vnodes : Opens(w)' = Opens(w) /\ Uses(w)' = Uses(w)
  BY <1>s, <1>o DEF Opens, Uses, Using
<1>3. NoPanic' /\ Counted'
  BY <1>s, <1>2, SameUsers DEF IInv, NoPanic
<1>4. FreeList' /\ Contents' /\ Cleaned'
  BY <1>s, <1>o DEF IInv, FreeList, Taken, Free, Contents, Cleaned
<1>5. Locks'
  <2>1. ilocking \subseteq Procs /\ \A w \in Vnodes : ILOCKED[w] \in Procs \cup {NoProc}
    BY DEF IInv, TypeOK
  <2>2. \A q \in Procs : pc'[q] \in Locking <=> pc[q] \in Locking
    BY <1>s, <1>o DEF Locking
  <2>3. \A q \in ilocking' : pc'[q] \in {"cached", "cleaning"}
    BY <1>s, <1>o, <2>1 DEF IInv, Locks
  <2> QED
    BY <1>s, <2>1, <2>2, <2>3 DEF IInv, Locks
<1>6. Inactive'
  <2> SUFFICES ASSUME NEW q \in Procs, pc'[q] \in {"inactive", "update"}
               PROVE  (/\ Opens(vp[q]) = {} /\ Uses(vp[q]) \subseteq ilocking
                       /\ pc[q] = "inactive" => vp[q] \in i_mode
                       /\ pc[q] = "update" => (vp[q] \in i_mode <=> Linked(i_number[vp[q]])))'
    BY DEF Inactive
  <2>1. Opens(vp[q])' = Opens(vp[q]) /\ Uses(vp[q])' = Uses(vp[q])
    BY <1>s, <1>o DEF Opens, Uses, Using
  <2>2. CASE q = p
    BY <1>s, <1>o, <1>u, <2>1, <2>2 DEF Linked
  <2>3. CASE q # p
    <3>1. pc'[q] = pc[q] /\ vp[q] # v /\ vp[q] \in ihash
      BY <1>o, <1>a, <2>3, Holders DEF Locking
    <3>2. i_number[vp[q]] # f
      BY <1>f, <3>1
    <3> QED
      BY <1>s, <2>1, <3>1, <3>2 DEF IInv, Inactive, Linked
  <2> QED
    BY <2>2, <2>3
<1>7. Modes' /\ Doomed'
  <2>1. ASSUME NEW w \in ihash'
        PROVE  (\/ w \in i_mode /\ i_number[w] \in inodes
                \/ w \notin i_mode /\ i_number[w] \notin di_mode /\ ~Linked(i_number[w])
                \/ \E q \in Procs : pc[q] \in {"bread", "update"} /\ vp[q] = w)'
    <3>1. w \in ihash
      BY <1>s, <2>1
    <3>2. CASE w = v
      BY <1>s, <1>o, <3>2
    <3>3. CASE w # v
      <4>1. i_number[w] # f /\ (w \in i_mode' <=> w \in i_mode)
        BY <1>s, <1>f, <3>1, <3>3
      <4>2. i_number[w] \in inodes => i_number[w] \in inodes'
        BY <1>s, <4>1
      <4>3. \A q \in Procs : pc[q] \in {"bread", "update"} => pc'[q] = pc[q]
        BY <1>s, <1>o
      <4> QED
        BY <1>s, <3>1, <4>1, <4>2, <4>3 DEF IInv, Modes, Linked
    <3> QED
      BY <3>2, <3>3
  <2>2. ASSUME NEW w \in ihash' \cap i_mode'
        PROVE  (\/ Linked(i_number[w]) \/ v_usecount[w] > 0
                \/ \E q \in Procs : pc[q] = "inactive" /\ vp[q] = w)'
    <3>1. w \in ihash \cap i_mode /\ (w = v => Linked(f))
      BY <1>s, <2>2
    <3>2. \A q \in Procs : pc[q] = "inactive" /\ vp[q] # v => pc'[q] = "inactive"
      BY <1>o
    <3> QED
      BY <1>s, <3>1, <3>2 DEF IInv, Doomed, Linked
  <2> QED
    BY <1>s, <2>1, <2>2 DEF IInv, Modes, Doomed, InCore, Linked
<1>14. OneVnodePerFile' /\ EntriesSound'
  BY <1>s DEF IInv, OneVnodePerFile, EntriesSound
<1>8. ReferencesSafe'
  <2>1. ASSUME NEW w, NEW g, Kept(w), Is(w, g), w # v \/ g = NoFile \/ Linked(f)
        PROVE  Kept(w)' /\ Is(w, g)'
    <3>1. Kept(w)' /\ w \in ihash /\ i_number'[w] = i_number[w]
      BY <1>s, <2>1 DEF Kept, Free
    <3>2. g # NoFile => g \in inodes'
      BY <1>s, <1>f, <2>1, <3>1 DEF Is
    <3> QED
      BY <2>1, <3>1, <3>2 DEF Is
  <2>2. ASSUME NEW q \in Procs, fd'[q] # NoVnode PROVE Kept(fd[q])' /\ Is(fd[q], opened[q])'
    <3>1. /\ Kept(fd[q]) /\ Is(fd[q], opened[q]) /\ fd[q] # v
          /\ fd'[q] = fd[q] /\ opened'[q] = opened[q]
      BY <1>s, <1>u, <2>2 DEF IInv, ReferencesSafe, Opens
    <3>2. PICK w, g : w = fd[q] /\ g = opened[q]
      OBVIOUS
    <3>3. Kept(w)' /\ Is(w, g)'
      BY <2>1, <3>1, <3>2
    <3> QED
      BY <3>1, <3>2, <3>3 DEF Kept, Is, Free
  <2>3. ASSUME NEW q \in Procs, pc'[q] \in {"cached", "found", "enter", "has", "bad"}
        PROVE  Kept(vp[q])' /\ Is(vp[q], ino[q])'
    <3>1. pc[q] = pc'[q] /\ Kept(vp[q]) /\ Is(vp[q], ino[q])
      BY <1>o, <2>3 DEF IInv, ReferencesSafe
    <3>2. vp[q] # v \/ ino[q] = NoFile \/ Linked(f)
      BY <1>r, <2>3, <3>1 DEF Using
    <3>3. PICK w, g : w = vp[q] /\ g = ino[q]
      OBVIOUS
    <3>4. Kept(w)' /\ Is(w, g)' /\ vp'[q] = w /\ ino'[q] = g
      BY <1>s, <2>1, <3>1, <3>2, <3>3
    <3> QED
      BY <3>4 DEF Kept, Is, Free
  <2>4. ASSUME NEW q \in Procs, pc'[q] = "fsync"
        PROVE  (Kept(vp[q]) /\ i_number[vp[q]] = ino[q])'
    <3>1. pc[q] = "fsync" /\ Kept(vp[q]) /\ i_number[vp[q]] = ino[q]
      BY <1>o, <2>4 DEF IInv, ReferencesSafe
    <3> QED
      BY <1>s, <3>1 DEF Kept, Free
  <2> QED
    BY <2>2, <2>3, <2>4 DEF ReferencesSafe
<1>9. \A q \in Procs : /\ Looking(q)' <=> Looking(q)
                       /\ Resolved(q)' <=> Resolved(q)
                       /\ New(q)' <=> New(q)
  BY <1>s, <1>o DEF Looking, Resolved, New
<1>10. Lookups'
  <2>1. LooksRight(p)'
    BY <1>o DEF LooksRight, Looking, Taken
  <2>2. \A q \in Procs \ {p} : /\ pc'[q] = pc[q] /\ nm'[q] = nm[q] /\ ino'[q] = ino[q]
                               /\ vp'[q] = vp[q] /\ gone'[q] = gone[q]
                               /\ dirlock = q => dirlock' = q
    BY <1>s, <1>o
  <2>3. \A q \in Procs \ {p} : InCore(ino[q])' \subseteq InCore(ino[q])
    BY <1>s DEF InCore
  <2> QED
    BY <1>s, <2>1, <2>2, <2>3, LookupsKept
<1>11. Inodes'
  <2>1. \A n \in Names : dir'[n] \in inodes' \cup {NoFile}
    <3>1. \A n \in Names : Linked(dir[n])
      BY Links DEF IInv
    <3> QED
      BY <1>s, <3>1 DEF IInv, Inodes
  <2>2. ASSUME NEW q \in Procs, New(q)'
        PROVE  (/\ op[q] = "CREATE" /\ ino[q] \in inodes /\ ~Linked(ino[q])
                /\ InCore(ino[q]) \cap i_mode = {}
                /\ pc[q] = "bread" => ino[q] \notin di_mode)'
    <3>1. New(q)
      BY <1>9, <2>2
    <3>2. /\ op[q] = "CREATE" /\ ino[q] \in inodes /\ ~Linked(ino[q])
          /\ InCore(ino[q]) \cap i_mode = {}
          /\ pc[q] = "bread" => ino[q] \notin di_mode
      BY <3>1 DEF IInv, Inodes
    <3>3. ino[q] # f
      BY <1>a, <1>u, <3>2 DEF InCore
    <3>4. InCore(ino[q])' = InCore(ino[q]) /\ i_mode' \subseteq i_mode
      BY <1>s DEF InCore
    <3> QED
      BY <1>s, <1>o, <3>2, <3>3, <3>4 DEF Linked
  <2>3. \A q \in Procs : (pc[q] = "bread" => i_number[vp[q]] = ino[q])'
    BY <1>s, <1>o DEF IInv, Inodes
  <2>4. \A q \in Procs : Resolved(q)' /\ ~New(q)' => ino'[q] = dir'[nm'[q]]
    BY <1>s, <1>9 DEF IInv, Inodes
  <2> QED
    BY <2>1, <2>2, <2>3, <2>4 DEF Inodes
<1> QED
  BY <1>1, <1>3, <1>4, <1>5, <1>6, <1>7, <1>8, <1>10, <1>11, <1>14 DEF IInv

\* An inode without links leaves ffs_inactive to be emptied, free on the disk.
LEMMA Keeps_ffs_inactive_end ==
  ASSUME IInv, NEW p \in Procs, ffs_inactive_end(p)
  PROVE  IInv'
<1> DEFINE v == vp[p]
           f == i_number[v]
<1> USE Constants
<1>t. VnodeTypes /\ ihash \subseteq Vnodes
  BY DEF IInv, TypeOK, VnodeTypes
<1>s. /\ pc[p] = "update" /\ p \notin ilocking
      /\ di_mode' = IF v \in i_mode THEN di_mode ELSE di_mode \ {f}
      /\ IWANT' = IWANT \ {v}
      /\ UNCHANGED <<op, nm, ino, vp, fd, opened, ilocking, allocated, vfree, v_usecount, VBAD,
                     v_mount, i_number, ihash, i_mode, nc, numcache, dir, inodes, dirlock, flushed, system>>
  BY DEF ffs_inactive_end, Runs, call, cache
<1>c. \/ /\ v_usecount[v] = 0 /\ v \notin VXLOCK /\ VXLOCK' = VXLOCK \cup {v}
         /\ gone' = [gone EXCEPT ![p] = "done"] /\ pc' = [pc EXCEPT ![p] = "cleaning"]
         /\ wchan' = Woken({<<"inode", v>>})
         /\ UNCHANGED <<ILOCKED, VXWANT>>
      \/ /\ v \in VXLOCK \/ v_usecount[v] # 0 \/ v \in i_mode
         /\ VXLOCK' = VXLOCK /\ gone' = gone
         /\ pc' = [pc EXCEPT ![p] = "done"] /\ ILOCKED' = [ILOCKED EXCEPT ![v] = NoProc]
         /\ VXWANT' \in {VXWANT, VXWANT \cup {v}}
         /\ \/ wchan' = Woken({<<"inode", v>>})
            \/ wchan' = [Woken({<<"inode", v>>}) EXCEPT ![p] = <<"vnode", v>>]
  BY DEF ffs_inactive_end, Reclaims, Goes
<1>a. /\ v \in ihash /\ v \in Vnodes /\ ILOCKED[v] = p
      /\ \A q \in Procs : q # p /\ pc[q] \in {"inactive", "update"} => vp[q] # v
      /\ \A w \in Vnodes : w # v => ILOCKED[w] # p
  BY <1>s, Alone DEF Locking
<1>i. v \in i_mode <=> Linked(f)
  BY <1>s DEF IInv, Inactive
<1>o. /\ \A q \in Procs : q # p => pc'[q] = pc[q] /\ gone'[q] = gone[q]
      /\ \/ pc'[p] = "cleaning" /\ gone'[p] = "done" /\ ILOCKED'[v] = p
            /\ v_usecount[v] = 0 /\ v \notin VXLOCK /\ VXLOCK' = VXLOCK \cup {v}
         \/ pc'[p] = "done" /\ ILOCKED'[v] = NoProc /\ VXLOCK' = VXLOCK
            /\ (v \in VXLOCK \/ v_usecount[v] # 0 \/ v \in i_mode)
      /\ \A w \in Vnodes : w # v => ILOCKED'[w] = ILOCKED[w]
  BY <1>t, <1>a, <1>c DEF VnodeTypes
<1>w. /\ wchan' \in [Procs -> {NoChan} \cup ({"vnode", "inode"} \X Vnodes)]
      /\ \A q \in Procs : \A x : q # p /\ wchan[q] = <<"vnode", x>> => wchan'[q] = wchan[q]
  <2> DEFINE W == Woken({<<"inode", v>>})
  <2>1. /\ W \in [Procs -> {NoChan} \cup ({"vnode", "inode"} \X Vnodes)]
        /\ \A q \in Procs : \A x : wchan[q] = <<"vnode", x>> => W[q] = wchan[q]
    BY WakesInode
  <2>2. wchan' = W \/ wchan' = [W EXCEPT ![p] = <<"vnode", v>>]
    BY <1>c
  <2>3. <<"vnode", v>> \in {"vnode", "inode"} \X Vnodes
    BY <1>a
  <2> HIDE DEF W
  <2>4. [W EXCEPT ![p] = <<"vnode", v>>] \in [Procs -> {NoChan} \cup ({"vnode", "inode"} \X Vnodes)]
    BY <2>1, <2>3
  <2>5. \A q \in Procs : q # p => wchan'[q] = W[q]
    BY <2>1, <2>2
  <2> QED
    BY <2>1, <2>2, <2>4, <2>5
<1>1. TypeOK'
  <2>1. /\ pc' \in [Procs -> Places] /\ gone' \in [Procs -> Places]
        /\ VXLOCK' \subseteq Vnodes /\ VXWANT' \subseteq Vnodes /\ IWANT' \subseteq Vnodes
        /\ ILOCKED' \in [Vnodes -> Procs \cup {NoProc}]
    <3>1. /\ [pc EXCEPT ![p] = "done"] \in [Procs -> Places]
          /\ [pc EXCEPT ![p] = "cleaning"] \in [Procs -> Places]
          /\ [gone EXCEPT ![p] = "done"] \in [Procs -> Places]
          /\ [ILOCKED EXCEPT ![v] = NoProc] \in [Vnodes -> Procs \cup {NoProc}]
      BY <1>t DEF VnodeTypes, Places
    <3>2. VXLOCK \subseteq Vnodes /\ VXWANT \subseteq Vnodes /\ IWANT \subseteq Vnodes
      BY <1>t DEF VnodeTypes
    <3>3. /\ pc' \in {[pc EXCEPT ![p] = "done"], [pc EXCEPT ![p] = "cleaning"]}
          /\ gone' \in {gone, [gone EXCEPT ![p] = "done"]}
          /\ ILOCKED' \in {ILOCKED, [ILOCKED EXCEPT ![v] = NoProc]}
          /\ VXLOCK' \in {VXLOCK, VXLOCK \cup {v}} /\ VXWANT' \in {VXWANT, VXWANT \cup {v}}
          /\ IWANT' \in {IWANT, IWANT \ {v}}
      BY <1>s, <1>c
    <3>4. gone \in [Procs -> Places] /\ ILOCKED \in [Vnodes -> Procs \cup {NoProc}]
      BY <1>t DEF VnodeTypes
    <3> QED
      BY <1>a, <3>1, <3>2, <3>3, <3>4
  <2>2. di_mode' \subseteq Files
    BY <1>s DEF IInv, TypeOK
  <2> QED
    BY <1>s, <1>w, <2>1, <2>2 DEF IInv, TypeOK
<1>2. \A w \in Vnodes : Opens(w)' = Opens(w) /\ Uses(w)' = Uses(w)
  BY <1>s, <1>o DEF Opens, Uses, Using
<1>3. NoPanic' /\ Counted'
  BY <1>s, <1>2, SameUsers DEF IInv, NoPanic
<1>4. \A q \in Procs : Taken(q)' <=> Taken(q)
  BY <1>s, <1>o DEF Taken
<1>5. FreeList'
  BY <1>s, <1>4 DEF IInv, FreeList, Free
<1>6. Contents'
  <2>1. \A q \in Procs : pc'[q] \in {"malloc", "fresh"} => pc'[q] = pc[q] /\ q # p
    BY <1>o
  <2>2. \A w \in allocated' \cup v_mount' :
          \/ w \in ihash'
          \/ w \in VBAD' /\ w \notin v_mount'
          \/ \E q \in Procs : pc'[q] = "malloc" /\ vp'[q] = w
    <3>1. \A q \in Procs : pc[q] = "malloc" => pc'[q] = "malloc"
      BY <1>s, <1>o
    <3> QED
      BY <1>s, <3>1 DEF IInv, Contents
  <2>3. \A q \in Procs : /\ pc[q] = "malloc" => vp[q] \in allocated \ (ihash \cup VBAD)
                         /\ pc[q] = "fresh" => \/ vp[q] \in VBAD
                                               \/ vp[q] \in VXLOCK /\ wchan[q] = <<"vnode", vp[q]>>
    BY DEF IInv, Contents
  <2>4. UNCHANGED <<vp, allocated, ihash, VBAD>> /\ VXLOCK \subseteq VXLOCK'
    BY <1>s, <1>o
  <2>5. \A q \in Procs : /\ pc'[q] = "malloc" => vp'[q] \in allocated' \ (ihash' \cup VBAD')
                         /\ pc'[q] = "fresh" =>
                              \/ vp'[q] \in VBAD'
                              \/ vp'[q] \in VXLOCK' /\ wchan'[q] = <<"vnode", vp'[q]>>
    BY <1>w, <2>1, <2>3, <2>4
  <2> QED
    BY <1>s, <2>2, <2>5 DEF IInv, Contents
<1>7. Cleaned'
  <2>1. \A w \in VXLOCK' : w \in ihash' /\ v_usecount'[w] = 0
    BY <1>s, <1>a, <1>o DEF IInv, Cleaned
  <2>2. \A q \in Procs : pc'[q] = "cleaning" =>
          /\ vp'[q] \in VXLOCK' /\ gone'[q] \in {"fresh", "done", "vflush"}
          /\ \A r \in Procs : pc'[r] = "cleaning" /\ vp'[r] = vp'[q] => r = q
    <3>1. \A q \in Procs : pc[q] = "cleaning" =>
            /\ vp[q] \in VXLOCK /\ gone[q] \in {"fresh", "done", "vflush"}
            /\ \A r \in Procs : pc[r] = "cleaning" /\ vp[r] = vp[q] => r = q
      BY DEF IInv, Cleaned
    <3>2. \A q \in Procs : pc'[q] = "cleaning" =>
            \/ q # p /\ pc[q] = "cleaning" /\ gone'[q] = gone[q]
            \/ q = p /\ gone'[q] = "done" /\ v \notin VXLOCK /\ VXLOCK' = VXLOCK \cup {v}
      BY <1>o
    <3>3. UNCHANGED vp /\ VXLOCK \subseteq VXLOCK'
      BY <1>s, <1>o
    <3> QED
      BY <3>1, <3>2, <3>3
  <2> QED
    BY <2>1, <2>2 DEF Cleaned
<1>8. Locks'
  <2>1. \A q \in Procs : q # p /\ pc[q] \in Locking =>
          /\ vp[q] \in ihash /\ vp[q] \in Vnodes
          /\ q \in ilocking \/ (ILOCKED[vp[q]] = q /\ vp[q] # v)
    BY <1>a, Holders
  <2>2. \A w \in Vnodes : ILOCKED'[w] # NoProc =>
          /\ vp'[ILOCKED'[w]] = w /\ ILOCKED'[w] \notin ilocking'
          /\ pc'[ILOCKED'[w]] \in Locking
    <3>1. ASSUME NEW w \in Vnodes, w # v, ILOCKED[w] # NoProc
          PROVE  /\ ILOCKED[w] \in Procs /\ ILOCKED[w] # p /\ vp[ILOCKED[w]] = w
                 /\ ILOCKED[w] \notin ilocking /\ pc[ILOCKED[w]] \in Locking
      BY <1>t, <1>a, <3>1 DEF IInv, Locks, VnodeTypes
    <3> QED
      BY <1>s, <1>o, <3>1 DEF Locking
  <2>3. \A q \in Procs : pc'[q] \in Locking =>
          vp'[q] \in ihash' /\ (q \in ilocking' \/ ILOCKED'[vp'[q]] = q)
    BY <1>s, <1>a, <1>o, <2>1 DEF Locking
  <2>4. \A q \in ilocking' : pc'[q] \in {"cached", "cleaning"}
    BY <1>t, <1>s, <1>o DEF IInv, Locks, VnodeTypes
  <2> QED
    BY <2>2, <2>3, <2>4 DEF Locks
<1>9. Inactive'
  <2>1. \A q \in Procs : pc'[q] \in {"inactive", "update"} =>
          pc'[q] = pc[q] /\ vp[q] \in Vnodes
    BY <1>o, Holders DEF Locking
  <2> QED
    BY <1>s, <1>2, <2>1 DEF IInv, Inactive, Linked
<1>10. Modes' /\ Doomed'
  <2>1. \A n \in Names : dir[n] # NoFile => dir[n] \in di_mode'
    <3>1. \A n \in Names : dir[n] # f \/ v \in i_mode
      BY <1>i, Links DEF IInv
    <3> QED
      BY <1>s, <3>1 DEF IInv, Modes
  <2>2. ASSUME NEW w \in ihash'
        PROVE  (\/ w \in i_mode /\ i_number[w] \in inodes
                \/ w \notin i_mode /\ i_number[w] \notin di_mode /\ ~Linked(i_number[w])
                \/ \E q \in Procs : pc[q] \in {"bread", "update"} /\ vp[q] = w)'
    <3>1. CASE w = v
      <4>1. f # NoFile /\ (Linked(f) => f \in inodes)
        BY <1>a, Links DEF IInv, Contents, Inodes
      <4> QED
        BY <1>s, <1>i, <3>1, <4>1 DEF Linked
    <3>2. CASE w # v
      <4>1. w \in ihash /\ di_mode' \subseteq di_mode
        BY <1>s, <2>2
      <4>2. \A q \in Procs : pc[q] \in {"bread", "update"} /\ vp[q] = w => pc'[q] = pc[q]
        BY <1>o, <3>2
      <4> QED
        BY <1>s, <4>1, <4>2 DEF IInv, Modes, Linked
    <3> QED
      BY <3>1, <3>2
  <2>3. \A q \in Procs : pc[q] = "inactive" => pc'[q] = "inactive"
    BY <1>s, <1>o
  <2>4. \A w \in ihash' \cap i_mode' :
          (\/ Linked(i_number[w]) \/ v_usecount[w] > 0
           \/ \E q \in Procs : pc[q] = "inactive" /\ vp[q] = w)'
    BY <1>s, <2>3 DEF IInv, Doomed, Linked
  <2>5. \A g \in di_mode' : (Linked(g) \/ InCore(g) # {})'
    BY <1>s DEF IInv, Doomed, Linked, InCore
  <2> QED
    BY <1>s, <2>1, <2>2, <2>4, <2>5 DEF Modes, Doomed
<1>11. OneVnodePerFile' /\ EntriesSound'
  BY <1>s DEF IInv, OneVnodePerFile, EntriesSound
<1>12. ReferencesSafe'
  <2>1. ASSUME NEW w \in Vnodes, Kept(w) PROVE Kept(w)'
    BY <1>s, <1>o, <2>1 DEF Kept, Free
  <2>2. \A g : \A w \in Vnodes : Is(w, g) => Is(w, g)'
    BY <1>s DEF Is
  <2>3. \A q \in Procs : pc'[q] \in {"cached", "found", "enter", "has", "bad", "fsync"} =>
          pc[q] = pc'[q]
    BY <1>o
  <2> QED
    BY <1>s, <2>1, <2>2, <2>3, ReferencesStay
<1>13. \A q \in Procs : /\ Looking(q)' <=> Looking(q)
                        /\ Resolved(q)' <=> Resolved(q)
  BY <1>s, <1>o DEF Looking, Resolved
<1>14. Lookups'
  <2>1. LooksRight(p)'
    BY <1>o DEF LooksRight, Looking, Taken
  <2>2. \A q \in Procs \ {p} : /\ pc'[q] = pc[q] /\ nm'[q] = nm[q] /\ ino'[q] = ino[q]
                               /\ vp'[q] = vp[q] /\ gone'[q] = gone[q]
                               /\ dirlock = q => dirlock' = q
    BY <1>s, <1>o
  <2>3. \A q \in Procs \ {p} : InCore(ino[q])' \subseteq InCore(ino[q])
    BY <1>s DEF InCore
  <2> QED
    BY <1>s, <2>1, <2>2, <2>3, LookupsKept
<1>15. Inodes'
  <2>1. \A q \in Procs : New(q)' => New(q)
    BY <1>s, <1>13 DEF New
  <2>2. \A q \in Procs : pc'[q] = "bread" => pc[q] = "bread"
    BY <1>o
  <2>3. \A q \in Procs : (pc[q] = "bread" => i_number[vp[q]] = ino[q])'
    BY <1>s, <2>2 DEF IInv, Inodes
  <2>4. \A q \in Procs : New(q)' => (pc[q] = "bread" => ino[q] \notin di_mode)'
    BY <1>s, <2>1, <2>2 DEF IInv, Inodes
  <2>5. \A q \in Procs : (InCore(ino[q]) \cap i_mode)' \subseteq InCore(ino[q]) \cap i_mode
    BY <1>s DEF InCore
  <2> QED
    BY <1>s, <1>13, <2>3, <2>4, <2>5, InodesKept
<1> QED
  BY <1>1, <1>3, <1>5, <1>6, <1>7, <1>8, <1>9, <1>10, <1>11, <1>12, <1>14, <1>15 DEF IInv

\* The vnode is empty: nobody has it, waits for its inode or finds it by its name.
LEMMA Keeps_vgone_end ==
  ASSUME IInv, NEW p \in Procs, vgone_end(p)
  PROVE  IInv'
<1> DEFINE v == vp[p]
           others == RemoveFirst(vfree, v)
           chans == {<<"inode", v>>} \cup {<<"vnode", w>> : w \in VXWANT \cap {v}}
<1> USE Constants
<1>t. /\ VnodeTypes /\ ihash \subseteq Vnodes
      /\ i_number \in [Vnodes -> Files \cup {NoFile}]
  BY DEF IInv, TypeOK, VnodeTypes
<1>s. /\ pc[p] = "cleaning" /\ p \notin ilocking /\ system = "runs"
      /\ ILOCKED' = [ILOCKED EXCEPT ![v] = NoProc] /\ IWANT' = IWANT \ {v}
      /\ ihash' = ihash \ {v} /\ i_number' = [i_number EXCEPT ![v] = NoFile]
      /\ i_mode' = i_mode \ {v} /\ nc' = cache_purge(v) /\ numcache' = numcache
      /\ VXLOCK' = VXLOCK \ {v} /\ VXWANT' = VXWANT \ {v}
      /\ v_mount' = v_mount \ {v} /\ VBAD' = VBAD \cup {v}
      /\ system' \in {"runs", "vfreeh is null"}
      /\ pc' = [pc EXCEPT ![p] = gone[p]] /\ gone' = [gone EXCEPT ![p] = "user"]
      /\ UNCHANGED <<op, nm, ino, vp, fd, opened, ilocking, allocated, v_usecount, dir, inodes,
                     di_mode, dirlock, flushed>>
  BY DEF vgone_end, vclean_end, ufs_reclaim, Runs, Goes, call, disk
<1>e. /\ UNCHANGED <<op, nm, ino, vp, fd, opened, ilocking, allocated, v_usecount, dir, inodes,
                     di_mode, dirlock, flushed>>
      /\ ihash' = ihash \ {v} /\ i_mode' = i_mode \ {v} /\ VXLOCK' = VXLOCK \ {v}
      /\ v_mount' = v_mount \ {v} /\ VBAD' = VBAD \cup {v}
      /\ pc[p] = "cleaning" /\ p \notin ilocking
  BY <1>s
<1>l. vfree' = IF Free(v) THEN <<v>> \o others ELSE vfree
  BY DEF vgone_end
<1>h. wchan' = Woken(chans)
  BY DEF vgone_end, vclean_end
<1>a. /\ v \in ihash /\ v \in Vnodes /\ ILOCKED[v] = p
      /\ \A q \in Procs : pc[q] \in {"inactive", "update"} => vp[q] # v
      /\ \A w \in Vnodes : w # v => ILOCKED[w] # p
  BY <1>s, Alone DEF Locking
<1>v. /\ v \in VXLOCK /\ v_usecount[v] = 0 /\ v \in allocated /\ v \notin VBAD
      /\ gone[p] \in {"fresh", "done", "vflush"}
      /\ \A q \in Procs : pc[q] = "cleaning" /\ vp[q] = v => q = p
  BY <1>s, <1>a DEF IInv, Cleaned, Contents
<1>u. Opens(v) = {} /\ Uses(v) = {}
  BY <1>a, <1>v, NoUsers DEF IInv
<1>k. \A q \in Procs : q # p /\ pc[q] \in Locking => vp[q] # v
  <2> SUFFICES ASSUME NEW q \in Procs, q # p, pc[q] \in Locking, vp[q] = v PROVE FALSE
    OBVIOUS
  <2>1. q \in ilocking
    BY <1>a, Holders
  <2>2. pc[q] = "cached"
    BY <1>v, <2>1 DEF IInv, Locks
  <2> QED
    BY <1>u, <2>2 DEF Uses, Using
<1>o. /\ \A q \in Procs : q # p => pc'[q] = pc[q] /\ gone'[q] = gone[q]
      /\ pc'[p] = gone[p]
      /\ \A w \in Vnodes : /\ ILOCKED'[w] = IF w = v THEN NoProc ELSE ILOCKED[w]
                           /\ i_number'[w] = IF w = v THEN NoFile ELSE i_number[w]
  BY <1>t, <1>s DEF VnodeTypes
<1>w. /\ wchan' \in [Procs -> {NoChan} \cup ({"vnode", "inode"} \X Vnodes)]
      /\ \A q \in Procs : \A x : x # v /\ wchan[q] = <<"vnode", x>> => wchan'[q] = wchan[q]
  <2>1. \A x : x # v => <<"vnode", x>> \notin chans
    OBVIOUS
  <2> HIDE DEF chans
  <2>2. \A q \in Procs : wchan'[q] = IF wchan[q] \in chans THEN NoChan ELSE wchan[q]
    BY <1>h DEF Woken
  <2>3. wchan' \in [Procs -> {NoChan} \cup ({"vnode", "inode"} \X Vnodes)]
    BY <1>t, <1>h DEF Woken, VnodeTypes
  <2> QED
    BY <2>1, <2>2, <2>3
<1>n. /\ EntriesSound' /\ nc' \in [Names -> Seq(Vnodes \cup {"negative", "stale"})]
      /\ numcache' \in Nat
      /\ \A n \in Names : "negative" \in Range(nc'[n]) => "negative" \in Range(nc[n])
  <2>1. TypeOK /\ EntriesSound
    BY DEF IInv
  <2>2. Shrunk(nc') /\ numcache \in Nat /\ \A n \in Names : v \notin Range(nc'[n])
    BY <1>a, <1>s, <2>1, CacheTypes, PurgedShrunk
  <2>3. \A n \in Names, w \in ihash : w \in ihash' \/ w \notin Range(nc'[n])
    BY <1>s, <2>2
  <2> QED
    BY <1>s, <2>1, <2>2, <2>3, ShrinkStep
<1>1. /\ vfree' \in Seq(allocated') /\ Once(vfree')
      /\ \A w : Free(w)' <=> Free(w)
  <2>0. Once(vfree) /\ vfree \in Seq(allocated)
    BY <1>t DEF IInv, FreeList, Once, VnodeTypes
  <2>1. CASE Free(v)
    <3>1. /\ others \in Seq(allocated) /\ Once(others)
          /\ Range(others) = Range(vfree) \ {v}
      BY <2>0, <2>1, RemoveOnce DEF Free
    <3> HIDE DEF others
    <3>2. /\ <<v>> \o others \in Seq(allocated) /\ Once(<<v>> \o others)
          /\ Range(<<v>> \o others) = Range(others) \cup {v}
      BY <1>v, <3>1, FirstOnce
    <3>3. vfree' = <<v>> \o others
      BY <1>l, <2>1
    <3> QED
      BY <1>s, <2>1, <3>1, <3>2, <3>3 DEF Free
  <2>2. CASE ~Free(v)
    BY <1>s, <1>l, <2>0, <2>2 DEF Free
  <2> QED
    BY <2>1, <2>2
<1>2. TypeOK'
  <2>1. pc' \in [Procs -> Places] /\ gone' \in [Procs -> Places]
    BY <1>t, <1>s DEF VnodeTypes, Places
  <2>2. /\ ILOCKED' \in [Vnodes -> Procs \cup {NoProc}]
        /\ i_number' \in [Vnodes -> Files \cup {NoFile}]
    BY <1>t, <1>s DEF VnodeTypes
  <2> QED
    BY <1>a, <1>s, <1>n, <1>w, <1>1, <2>1, <2>2 DEF IInv, TypeOK
<1>3. \A w \in Vnodes : Opens(w)' = Opens(w) /\ Uses(w)' = Uses(w)
  BY <1>s, <1>v, <1>o DEF Opens, Uses, Using
<1>4. NoPanic' /\ Counted'
  BY <1>s, <1>3, SameUsers DEF IInv, NoPanic, Panics
<1>5. \A q \in Procs : Taken(q)' <=> Taken(q)
  BY <1>s, <1>v, <1>o DEF Taken
<1>6. FreeList'
  BY <1>s, <1>1, <1>5 DEF IInv, FreeList, Once
<1>7. Contents'
  <2>1. /\ ihash' \subseteq allocated' /\ VBAD' \subseteq allocated' /\ ihash' \cap VBAD' = {}
        /\ \A w \in Vnodes : w \in ihash' <=> i_number'[w] # NoFile
    <3>1. /\ ihash \subseteq allocated /\ VBAD \subseteq allocated /\ ihash \cap VBAD = {}
          /\ \A w \in Vnodes : w \in ihash <=> i_number[w] # NoFile
      BY DEF IInv, Contents
    <3>2. \A w \in Vnodes : w \in ihash' <=> i_number'[w] # NoFile
      BY <1>e, <1>o, <3>1
    <3> QED
      BY <1>e, <1>v, <3>1, <3>2
  <2>2. \A q \in Procs : pc'[q] = "malloc" <=> pc[q] = "malloc"
    BY <1>s, <1>v, <1>o
  <2>3. \A w \in allocated' \cup v_mount' :
          \/ w \in ihash'
          \/ w \in VBAD' /\ w \notin v_mount'
          \/ \E q \in Procs : pc'[q] = "malloc" /\ vp'[q] = w
    BY <1>s, <1>v, <2>2 DEF IInv, Contents
  <2>4. \A q \in Procs : pc'[q] = "malloc" => vp'[q] \in allocated' \ (ihash' \cup VBAD')
    BY <1>s, <1>a, <2>2 DEF IInv, Contents
  <2>5. \A q \in Procs : pc'[q] = "fresh" =>
                           \/ vp'[q] \in VBAD'
                           \/ vp'[q] \in VXLOCK' /\ wchan'[q] = <<"vnode", vp'[q]>>
    <3>1. \A q \in Procs : pc'[q] = "fresh" => q = p \/ pc[q] = "fresh"
      BY <1>o
    <3>2. \A q \in Procs : pc[q] = "fresh" =>
            vp[q] \in VBAD \/ (vp[q] \in VXLOCK /\ wchan[q] = <<"vnode", vp[q]>>)
      BY DEF IInv, Contents
    <3>3. /\ UNCHANGED vp /\ VBAD' = VBAD \cup {v} /\ VXLOCK' = VXLOCK \ {v}
      BY <1>s
    <3> QED
      BY <1>w, <3>1, <3>2, <3>3
  <2> QED
    BY <2>1, <2>3, <2>4, <2>5 DEF Contents
<1>8. Cleaned'
  <2>1. \A q \in Procs : pc'[q] = "cleaning" => /\ q # p /\ pc[q] = "cleaning" /\ vp[q] # v
                                                /\ gone'[q] = gone[q]
    BY <1>v, <1>o
  <2> QED
    BY <1>s, <2>1 DEF IInv, Cleaned
<1>9. Locks'
  <2>1. \A q \in Procs : pc'[q] \in Locking <=> q # p /\ pc[q] \in Locking
    BY <1>v, <1>o DEF Locking
  <2>2. \A w \in Vnodes : ILOCKED'[w] # NoProc =>
          /\ vp'[ILOCKED'[w]] = w /\ ILOCKED'[w] \notin ilocking'
          /\ pc'[ILOCKED'[w]] \in Locking
    <3>1. ASSUME NEW w \in Vnodes, w # v, ILOCKED[w] # NoProc
          PROVE  /\ ILOCKED[w] \in Procs /\ ILOCKED[w] # p /\ vp[ILOCKED[w]] = w
                 /\ ILOCKED[w] \notin ilocking /\ pc[ILOCKED[w]] \in Locking
      BY <1>t, <1>a, <3>1 DEF IInv, Locks, VnodeTypes
    <3>2. \A w \in Vnodes : ILOCKED'[w] # NoProc => w # v /\ ILOCKED'[w] = ILOCKED[w]
      BY <1>o
    <3> QED
      BY <1>e, <2>1, <3>1, <3>2
  <2>3. \A q \in Procs : pc'[q] \in Locking =>
          vp'[q] \in ihash' /\ (q \in ilocking' \/ ILOCKED'[vp'[q]] = q)
    <3>1. \A q \in Procs : q # p /\ pc[q] \in Locking =>
            /\ vp[q] \in ihash /\ vp[q] \in Vnodes
            /\ q \in ilocking \/ ILOCKED[vp[q]] = q
      BY Holders
    <3>2. \A q \in Procs : q # p /\ pc[q] \in Locking =>
            vp[q] \in ihash' /\ ILOCKED'[vp[q]] = ILOCKED[vp[q]]
      BY <1>e, <1>k, <1>o, <3>1
    <3> QED
      BY <1>e, <2>1, <3>1, <3>2
  <2>4. \A q \in ilocking' : pc'[q] \in {"cached", "cleaning"}
    <3>1. \A q \in ilocking : q \in Procs /\ q # p /\ pc[q] \in {"cached", "cleaning"}
      BY <1>t, <1>e DEF IInv, Locks, VnodeTypes
    <3> QED
      BY <1>e, <1>o, <3>1
  <2> QED
    BY <2>2, <2>3, <2>4 DEF Locks
<1>10. Inactive'
  <2>1. \A q \in Procs : pc'[q] \in {"inactive", "update"} =>
          /\ pc'[q] = pc[q] /\ vp[q] \in Vnodes /\ vp[q] # v
          /\ i_number'[vp[q]] = i_number[vp[q]]
    BY <1>v, <1>a, <1>o, Holders DEF Locking
  <2>2. \A q \in Procs : pc[q] \in {"inactive", "update"} =>
          /\ Opens(vp[q]) = {} /\ Uses(vp[q]) \subseteq ilocking
          /\ pc[q] = "inactive" => vp[q] \in i_mode
          /\ pc[q] = "update" => (vp[q] \in i_mode <=> Linked(i_number[vp[q]]))
    BY DEF IInv, Inactive
  <2>3. \A q \in Procs : vp[q] \in Vnodes =>
          Opens(vp[q])' = Opens(vp[q]) /\ Uses(vp[q])' = Uses(vp[q])
    BY <1>e, <1>3 DEF Opens, Uses
  <2>4. \A q \in Procs : pc'[q] \in {"inactive", "update"} =>
          (Linked(i_number[vp[q]])' <=> Linked(i_number[vp[q]]))
    BY <1>e, <2>1 DEF Linked
  <2> QED
    BY <1>e, <2>1, <2>2, <2>3, <2>4 DEF Inactive
<1>11. Modes' /\ Doomed'
  <2>1. ASSUME NEW w \in ihash'
        PROVE  /\ w \in ihash /\ w \in Vnodes /\ w # v /\ i_number'[w] = i_number[w]
               /\ w \in i_mode' <=> w \in i_mode
    BY <1>t, <1>e, <1>o, <2>1
  <2>2. \A q \in Procs : pc[q] \in {"bread", "update", "inactive"} => pc'[q] = pc[q]
    BY <1>s, <1>o
  <2>3. \A w \in ihash' :
          (\/ w \in i_mode /\ i_number[w] \in inodes
           \/ w \notin i_mode /\ i_number[w] \notin di_mode /\ ~Linked(i_number[w])
           \/ \E q \in Procs : pc[q] \in {"bread", "update"} /\ vp[q] = w)'
    BY <1>e, <2>1, <2>2 DEF IInv, Modes, Linked
  <2>4. \A w \in ihash' \cap i_mode' :
          (\/ Linked(i_number[w]) \/ v_usecount[w] > 0
           \/ \E q \in Procs : pc[q] = "inactive" /\ vp[q] = w)'
    BY <1>e, <2>1, <2>2 DEF IInv, Doomed, Linked
  <2>5. i_number[v] \in di_mode => Linked(i_number[v])
    <3>1. \A q \in Procs : pc[q] \in {"bread", "update", "inactive"} => vp[q] # v
      BY <1>a, <1>u DEF Uses, Using
    <3> QED
      BY <1>a, <1>v, <3>1 DEF IInv, Modes, Doomed
  <2>6. \A g \in di_mode : (Linked(g) \/ InCore(g) # {})'
    <3> SUFFICES ASSUME NEW g \in di_mode PROVE (Linked(g) \/ InCore(g) # {})'
      OBVIOUS
    <3>1. CASE Linked(g)
      BY <1>e, <3>1 DEF Linked
    <3>2. CASE ~Linked(g)
      <4>1. PICK w \in ihash : i_number[w] = g
        BY <3>2 DEF IInv, Doomed, InCore
      <4>2. w # v /\ w \in ihash' /\ w \in Vnodes
        BY <1>t, <1>e, <2>5, <3>2, <4>1
      <4>3. i_number'[w] = g
        BY <1>o, <4>1, <4>2
      <4> QED
        BY <4>2, <4>3 DEF InCore
    <3> QED
      BY <3>1, <3>2
  <2> QED
    BY <1>e, <2>3, <2>4, <2>6 DEF IInv, Modes, Doomed
<1>12. OneVnodePerFile'
  <2>1. \A w \in ihash' : w \in ihash /\ i_number'[w] = i_number[w]
    BY <1>s, <1>o, Functions
  <2> QED
    BY <2>1 DEF IInv, OneVnodePerFile
<1>14. ReferencesSafe'
  <2>1. ASSUME NEW w \in Vnodes, Kept(w)
        PROVE  Kept(w)' /\ w # v /\ i_number'[w] = i_number[w]
    <3>1. w # v /\ w \in ihash /\ v_usecount[w] > 0 /\ ~Free(w) /\ w \notin VXLOCK \cup VBAD
      BY <1>v, <2>1 DEF Kept
    <3>2. w \in ihash' /\ ~Free(w)' /\ w \notin VXLOCK' \cup VBAD' /\ v_usecount'[w] > 0
      BY <1>e, <1>1, <3>1
    <3> QED
      BY <1>o, <3>1, <3>2 DEF Kept
  <2>2. \A g : \A w \in Vnodes : Kept(w) /\ Is(w, g) => Is(w, g)'
    BY <1>e, <2>1 DEF Is
  <2>3. \A q \in Procs : pc'[q] \in {"cached", "found", "enter", "has", "bad", "fsync"} =>
          pc[q] = pc'[q]
    BY <1>v, <1>o
  <2> QED
    BY <1>e, <2>1, <2>2, <2>3, ReferencesStay
<1>15. \A q \in Procs : /\ Looking(q)' <=> Looking(q)
                        /\ Resolved(q)' <=> Resolved(q)
  BY <1>s, <1>v, <1>o DEF Looking, Resolved
<1>16. Lookups'
  <2>1. \A g : InCore(g)' \subseteq InCore(g)
    BY <1>t, <1>s, <1>o DEF InCore
  <2>2. \A q \in Procs : InCore(ino[q])' \subseteq InCore(ino[q])
    BY <1>e, <2>1 DEF InCore
  <2>6. \A q \in Procs \ {p} : InCore(ino[q])' \subseteq InCore(ino[q])
    BY <2>2
  <2>3. LooksRight(p)'
    <3>1. LooksRight(p)
      BY LooksAll DEF IInv
    <3>2. Looking(p)' \/ Taken(p)' => Looking(p) /\ Taken(p)
      BY <1>s, <1>v, <1>o DEF Looking, Taken
    <3>3. pc'[p] \notin {"malloc", "enoent", "cached", "enter"}
      BY <1>v, <1>o
    <3>4. Looking(p)' => dirlock' = p /\ nm'[p] \in Names /\ "negative" \notin Range(nc'[nm'[p]])
      BY <1>e, <1>n, <3>1, <3>2 DEF LooksRight
    <3>5. Taken(p)' => InCore(ino[p])' = {}
      BY <2>2, <3>1, <3>2 DEF LooksRight
    <3> QED
      BY <3>3, <3>4, <3>5 DEF LooksRight
  <2>4. \A q \in Procs \ {p} : /\ pc'[q] = pc[q] /\ nm'[q] = nm[q] /\ ino'[q] = ino[q]
                               /\ vp'[q] = vp[q] /\ gone'[q] = gone[q]
                               /\ dirlock = q => dirlock' = q
    BY <1>e, <1>o
  <2>5. \A q \in Procs \ {p} : pc[q] = "cached" => i_number'[vp[q]] = i_number[vp[q]]
    <3>1. \A q \in Procs \ {p} : pc[q] = "cached" => vp[q] \in Vnodes /\ vp[q] # v
      BY <1>k, Holders DEF Locking
    <3> QED
      BY <1>o, <3>1
  <2> QED
    BY <1>e, <1>n, <2>3, <2>4, <2>5, <2>6, LookupsKept
<1>17. Inodes'
  <2>1. \A q \in Procs : New(q)' => New(q)
    BY <1>s, <1>15 DEF New
  <2>2. \A q \in Procs : pc'[q] = "bread" => pc[q] = "bread" /\ q # p
    BY <1>v, <1>o
  <2>3. \A q \in Procs : (pc[q] = "bread" => i_number[vp[q]] = ino[q])'
    <3>1. \A q \in Procs : pc[q] = "bread" => vp[q] \in Vnodes /\ vp[q] # v
      BY <1>u, Holders DEF Uses, Using, Locking
    <3>2. \A q \in Procs : pc[q] = "bread" => i_number[vp[q]] = ino[q]
      BY DEF IInv, Inodes
    <3> QED
      BY <1>e, <1>o, <2>2, <3>1, <3>2
  <2>4. \A q \in Procs : New(q)' => (pc[q] = "bread" => ino[q] \notin di_mode)'
    BY <1>e, <2>1, <2>2 DEF IInv, Inodes
  <2>5. \A q \in Procs : (InCore(ino[q]) \cap i_mode)' \subseteq InCore(ino[q]) \cap i_mode
    BY <1>t, <1>e, <1>o DEF InCore
  <2> QED
    BY <1>e, <1>15, <2>3, <2>4, <2>5, InodesKept
<1> QED
  BY <1>2, <1>4, <1>6, <1>7, <1>8, <1>9, <1>10, <1>11, <1>12, <1>14, <1>16, <1>17,
     <1>n DEF IInv

-----------------------------------------------------------------------------
\* The invariant of the vnodes, by the steps of the system one by one.
THEOREM Invariance == Spec => []IInv
<1>1. IInv /\ [Next]_vars => IInv'
  <2> SUFFICES ASSUME IInv, [Next]_vars PROVE IInv'
    OBVIOUS
  <2>1. ASSUME NEW p \in Procs, NEW n \in Names, NEW o \in Ops,
               LookupUncached(p, n, o) \/ LookupCached(p, n, o)
        PROVE  IInv'
    BY <2>1, Keeps_LookupUncached, Keeps_LookupCached
  <2>2. ASSUME NEW p \in Procs, NEW o \in Syncs, StartSync(p, o) PROVE IInv'
    BY <2>2, Keeps_StartSync
  <2>3. ASSUME NEW p \in Procs, Close(p) PROVE IInv'
    BY <2>3, Keeps_Close
  <2>4. ASSUME NEW p \in Procs, Step(p) PROVE IInv'
    <3>0. CASE ufs_ilock_again(p) \/ FoundCached(p) \/ EnterNegative(p) \/ EnterFound(p)
      BY <3>0, Keeps_ufs_ilock_again, Keeps_FoundCached, Keeps_EnterNegative,
         Keeps_EnterFound
    <3>1. CASE ScanFinds(p) \/ ScanFails(p) \/ ffs_valloc(p)
      BY <3>1, Keeps_ScanFinds, Keeps_ScanFails, Keeps_ffs_valloc
    <3>2. CASE ufs_ihashget(p) \/ getnewvnode_malloc(p) \/ getnewvnode_fails(p)
      BY <3>2, Keeps_ufs_ihashget, Keeps_getnewvnode_malloc, Keeps_getnewvnode_fails
    <3>3. CASE getnewvnode(p) \/ getnewvnode_end(p) \/ ufs_ihashins(p) \/ ffs_vget_end(p)
      BY <3>3, Keeps_getnewvnode, Keeps_getnewvnode_end, Keeps_ufs_ihashins,
         Keeps_ffs_vget_end
    <3>4. CASE Found(p) \/ ufs_makeinode(p) \/ ufs_remove(p) \/ Keep(p) \/ vput(p)
      BY <3>4, Keeps_Found, Keeps_ufs_makeinode, Keeps_ufs_remove, Keeps_Keep, Keeps_vput
    <3>5. CASE Done(p) \/ ffs_inactive(p) \/ ffs_inactive_end(p) \/ vgone_end(p)
      BY <3>5, Keeps_Done, Keeps_ffs_inactive, Keeps_ffs_inactive_end, Keeps_vgone_end
    <3>6. CASE ffs_sync(p) \/ ffs_sync_vput(p) \/ ffs_sync_next(p) \/ ffs_sync_end(p)
      BY <3>6, Keeps_ffs_sync, Keeps_vput, Keeps_ffs_sync_next, Keeps_ffs_sync_end
    <3>7. CASE vflush(p) \/ EndFlush(p)
      BY <3>7, Keeps_vflush, Keeps_EndFlush
    <3> QED
      BY <2>4, <3>0, <3>1, <3>2, <3>3, <3>4, <3>5, <3>6, <3>7 DEF Step
  <2>5. CASE UNCHANGED vars
    <3> USE <2>5 DEF vars, call, table, inode, disk, cache, wait
    <3>1. TypeOK' /\ NoPanic'
      BY DEF IInv, TypeOK, NoPanic
    <3>2. Counted' /\ FreeList' /\ Contents' /\ Cleaned' /\ Locks'
      BY DEF IInv, Counted, Opens, Uses, FreeList, Taken, Free, Contents, Cleaned, Locks
    <3>3. Inactive' /\ Lookups' /\ Modes' /\ Doomed'
      BY DEF IInv, Inactive, Opens, Uses, Linked, Lookups, Looking, Taken, InCore, Modes,
         Doomed
    <3>4. Inodes'
      BY DEF IInv, Inodes, New, Resolved, Looking, Linked, InCore
    <3>5. OneVnodePerFile' /\ EntriesSound' /\ ReferencesSafe'
      BY DEF IInv, OneVnodePerFile, EntriesSound, ReferencesSafe, Kept, Is, Free
    <3> QED
      BY <3>1, <3>2, <3>3, <3>4, <3>5 DEF IInv
  <2> QED
    BY <2>1, <2>2, <2>3, <2>4, <2>5 DEF Next, Halted
<1> QED
  BY <1>1, InitIInv, PTL DEF Spec

\* The state of vnodes, inodes and calls always has its type, whatever the number
\* of processes, vnodes, files and names.
THEOREM TypeCorrect == Spec => []TypeOK
<1>1. IInv => TypeOK
  BY DEF IInv
<1> QED
  BY <1>1, Invariance, PTL

\* ufs_ihashget and ufs_ihashins never give a file two vnodes.
THEOREM FilesHaveOneVnode == Spec => []OneVnodePerFile
<1>1. IInv => OneVnodePerFile
  BY DEF IInv
<1> QED
  BY <1>1, Invariance, PTL

\* What the name cache says is not there is not there, however long the processes
\* that enter names sleep for memory, and whatever is created meanwhile; and every
\* vnode that it gives has an inode.
THEOREM CacheRight == Spec => []EntriesSound
<1>1. IInv => EntriesSound
  BY DEF IInv
<1> QED
  BY <1>1, Invariance, PTL

\* Nobody empties a vnode that a process has got from vget: getnewvnode, vflush and
\* ffs_inactive leave it alone.  And if it was that of the file of its name when it
\* was got, it stays so, and the inode is not given to another file.
THEOREM ReferencesKept == Spec => []ReferencesSafe
<1>1. IInv => ReferencesSafe
  BY DEF IInv
<1> QED
  BY <1>1, Invariance, PTL

\* The panics of getnewvnode and ffs_valloc, and the null v_freeb in vget, are not
\* reached.
THEOREM PanicFree == Spec => []NoPanic
<1>1. IInv => NoPanic
  BY DEF IInv
<1> QED
  BY <1>1, Invariance, PTL
=============================================================================
