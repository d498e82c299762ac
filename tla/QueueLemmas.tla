---------------------------- MODULE QueueLemmas -----------------------------
(***************************************************************************)
(* Facts about the sequence operations applied to the ready queue, for     *)
(* queues without repetitions: which elements each operation leaves, and   *)
(* that it introduces no repetition.                                       *)
(***************************************************************************)
EXTENDS SequencesExt, SequenceTheorems, FiniteSetTheorems, TLAPS

\* push_back of an element that is not queued adds it and nothing else.
LEMMA PushBack ==
  ASSUME NEW S, NEW q \in Seq(S), IsInjective(q), NEW e \in S, e \notin ToSet(q)
  PROVE  /\ Append(q, e) \in Seq(S)
         /\ IsInjective(Append(q, e))
         /\ ToSet(Append(q, e)) = ToSet(q) \cup {e}
<1> DEFINE r == Append(q, e)
<1>1. /\ r \in Seq(S) /\ Len(r) = Len(q) + 1 /\ Len(q) \in Nat
      /\ DOMAIN r = 1 .. Len(q) + 1 /\ DOMAIN q = 1 .. Len(q)
      /\ \A i \in 1 .. Len(q) : r[i] = q[i]
      /\ r[Len(q) + 1] = e
  BY AppendProperties, LenProperties
<1> HIDE DEF r
<1>2. \A i \in 1 .. Len(q) : r[i] \in ToSet(q)
  BY <1>1 DEF ToSet
<1>3. IsInjective(r)
  <2> SUFFICES ASSUME NEW i \in DOMAIN r, NEW j \in DOMAIN r, r[i] = r[j]
               PROVE  i = j
    BY DEF IsInjective
  <2>1. CASE i \in 1 .. Len(q) /\ j \in 1 .. Len(q)
    BY <1>1, <2>1 DEF IsInjective
  <2>2. CASE i = Len(q) + 1 \/ j = Len(q) + 1
    BY <1>1, <1>2, <2>2
  <2> QED BY <1>1, <2>1, <2>2
<1>4. ToSet(r) = ToSet(q) \cup {e}
  <2>1. ToSet(r) \subseteq ToSet(q) \cup {e}
    BY <1>1, <1>2 DEF ToSet
  <2>2. ToSet(q) \subseteq ToSet(r)
    BY <1>1 DEF ToSet
  <2>3. e \in ToSet(r)
    BY <1>1 DEF ToSet
  <2> QED BY <2>1, <2>2, <2>3
<1> QED BY <1>1, <1>3, <1>4 DEF r

\* front and pop_front split a queue into its first element and the others.
LEMMA PopFront ==
  ASSUME NEW S, NEW q \in Seq(S), IsInjective(q), q # <<>>
  PROVE  /\ Tail(q) \in Seq(S)
         /\ IsInjective(Tail(q))
         /\ Head(q) \in ToSet(q)
         /\ ToSet(Tail(q)) = ToSet(q) \ {Head(q)}
<1> DEFINE r == Tail(q)
<1>1. /\ r \in Seq(S) /\ Len(r) = Len(q) - 1 /\ Len(q) \in Nat \ {0}
      /\ DOMAIN r = 1 .. Len(q) - 1 /\ DOMAIN q = 1 .. Len(q)
      /\ \A i \in 1 .. Len(q) - 1 : r[i] = q[i + 1]
      /\ Head(q) = q[1]
  BY HeadTailProperties, LenProperties, EmptySeq
<1> HIDE DEF r
<1>2. IsInjective(r)
  <2> SUFFICES ASSUME NEW i \in DOMAIN r, NEW j \in DOMAIN r, r[i] = r[j]
               PROVE  i = j
    BY DEF IsInjective
  <2>1. q[i + 1] = q[j + 1] /\ i + 1 \in DOMAIN q /\ j + 1 \in DOMAIN q
    BY <1>1
  <2> QED BY <1>1, <2>1 DEF IsInjective
<1>3. ToSet(r) = ToSet(q) \ {q[1]}
  <2>1. ASSUME NEW i \in DOMAIN r PROVE r[i] \in ToSet(q) \ {q[1]}
    <3>1. r[i] = q[i + 1] /\ i + 1 \in DOMAIN q /\ 1 \in DOMAIN q /\ i + 1 # 1
      BY <1>1
    <3> QED BY <3>1 DEF ToSet, IsInjective
  <2>2. ASSUME NEW i \in DOMAIN q, q[i] # q[1] PROVE q[i] \in ToSet(r)
    <3>1. i - 1 \in DOMAIN r /\ r[i - 1] = q[i]
      BY <1>1, <2>2
    <3> QED BY <3>1 DEF ToSet
  <2> QED BY <2>1, <2>2 DEF ToSet
<1>4. q[1] \in ToSet(q)
  BY <1>1 DEF ToSet
<1> QED BY <1>1, <1>2, <1>3, <1>4 DEF r

\* What is behind an erased element moves up by one place.
LEMMA EraseMovesUp ==
  ASSUME NEW S, NEW q \in Seq(S), IsInjective(q), NEW e \in ToSet(q)
  PROVE  /\ Len(q) \in Nat
         /\ \E k \in 1 .. Len(q) :
              /\ q[k] = e
              /\ RemoveFirst(q, e) \in Seq(S)
              /\ Len(RemoveFirst(q, e)) = Len(q) - 1
              /\ \A i \in 1 .. Len(q) - 1 :
                   RemoveFirst(q, e)[i] = IF i < k THEN q[i] ELSE q[i + 1]
<1> DEFINE I == {i \in 1 .. Len(q) : q[i] = e}
<1>1. Len(q) \in Nat /\ DOMAIN q = 1 .. Len(q) /\ \A i \in 1 .. Len(q) : q[i] \in S
  BY LenProperties, ElementOfSeq
<1>2. PICK k \in 1 .. Len(q) : q[k] = e
  BY <1>1 DEF ToSet
<1>3. I = {k}
  BY <1>1, <1>2 DEF IsInjective
<1>4. Min({k}) = k
  BY <1>2 DEF Min
<1>5. RemoveFirst(q, e) = RemoveAt(q, k)
  <2>1. SelectInSeq(q, LAMBDA v : v = e) = k
    BY <1>3, <1>4 DEF SelectInSeq
  <2> QED BY <1>2, <2>1 DEF RemoveFirst
<1> DEFINE a == SubSeq(q, 1, k - 1)
           b == SubSeq(q, k + 1, Len(q))
           r == a \o b
<1>6. /\ a \in Seq(S) /\ Len(a) = k - 1
      /\ \A i \in 1 .. k - 1 : a[i] = q[i]
  <2>1. \A i \in 1 .. k - 1 : q[i] \in S
    BY <1>1, <1>2
  <2> QED BY <1>1, <1>2, <2>1, SubSeqProperties
<1>7. /\ b \in Seq(S) /\ Len(b) = Len(q) - k
      /\ \A i \in 1 .. Len(q) - k : b[i] = q[k + i]
  <2>1. \A i \in k + 1 .. Len(q) : q[i] \in S
    BY <1>1, <1>2
  <2>2. /\ b \in Seq(S) 
        /\ Len(b) = IF k + 1 <= Len(q) THEN Len(q) - (k + 1) + 1 ELSE 0
        /\ \A i \in 1 .. Len(q) - (k + 1) + 1 : b[i] = q[(k + 1) + i - 1]
    BY <1>1, <1>2, <2>1, SubSeqProperties
  <2> HIDE DEF b
  <2>3. Len(b) = Len(q) - k
    <3> DEFINE m == Len(q)
    <3>1. m \in Nat /\ k \in 1 .. m
      BY <1>1, <1>2
    <3>2. Len(b) = IF k + 1 <= m THEN m - (k + 1) + 1 ELSE 0
      BY <2>2
    <3> HIDE DEF m
    <3>3. Len(b) = m - k
      BY <3>1, <3>2
    <3> QED BY <3>3 DEF m
  <2>4. ASSUME NEW i \in 1 .. Len(q) - k PROVE b[i] = q[k + i]
    <3>1. i \in 1 .. Len(q) - (k + 1) + 1 /\ (k + 1) + i - 1 = k + i
      BY <1>1, <1>2
    <3>2. b[i] = q[(k + 1) + i - 1]
      BY <2>2, <3>1
    <3> QED BY <3>1, <3>2
  <2> QED BY <2>2, <2>3, <2>4
<1> HIDE DEF a, b
<1>8. /\ r \in Seq(S) /\ Len(r) = Len(q) - 1
      /\ DOMAIN r = 1 .. Len(q) - 1
      /\ \A i \in 1 .. Len(q) - 1 : r[i] = IF i < k THEN q[i] ELSE q[i + 1]
  <2>1. /\ r \in Seq(S) /\ Len(r) = Len(a) + Len(b)
        /\ \A i \in 1 .. Len(a) + Len(b) :
             r[i] = IF i <= Len(a) THEN a[i] ELSE b[i - Len(a)]
    BY <1>6, <1>7, ConcatProperties
  <2> HIDE DEF r
  <2>2. Len(r) = Len(q) - 1 /\ DOMAIN r = 1 .. Len(q) - 1
    BY <1>1, <1>2, <1>6, <1>7, <2>1, LenProperties
  <2>3. ASSUME NEW i \in 1 .. Len(q) - 1, i < k PROVE r[i] = q[i]
    <3>1. i \in 1 .. Len(a) + Len(b) /\ i <= Len(a) /\ i \in 1 .. k - 1
      BY <1>1, <1>2, <1>6, <1>7, <2>3
    <3>2. r[i] = a[i]
      BY <2>1, <3>1
    <3> QED BY <1>6, <3>1, <3>2
  <2>4. ASSUME NEW i \in 1 .. Len(q) - 1, ~ (i < k) PROVE r[i] = q[i + 1]
    <3>1. i - (k - 1) \in 1 .. Len(q) - k /\ k + (i - (k - 1)) = i + 1
      BY <1>1, <1>2, <2>4
    <3>2. i \in 1 .. Len(a) + Len(b) /\ ~ (i <= Len(a)) /\ Len(a) = k - 1
      BY <1>1, <1>2, <1>6, <1>7, <2>4
    <3>3. r[i] = b[i - (k - 1)]
      BY <2>1, <3>2
    <3> QED BY <1>7, <3>1, <3>3
  <2> QED BY <2>1, <2>2, <2>3, <2>4
<1>9. RemoveFirst(q, e) = r
  BY <1>5 DEF RemoveAt, r, a, b
<1> QED BY <1>1, <1>2, <1>8, <1>9

\* Erasing a queued element takes out that element and nothing else.
LEMMA Erase ==
  ASSUME NEW S, NEW q \in Seq(S), IsInjective(q), NEW e \in ToSet(q)
  PROVE  /\ RemoveFirst(q, e) \in Seq(S)
         /\ IsInjective(RemoveFirst(q, e))
         /\ ToSet(RemoveFirst(q, e)) = ToSet(q) \ {e}
<1> DEFINE r == RemoveFirst(q, e)
<1>1. PICK k \in 1 .. Len(q) :
        /\ q[k] = e
        /\ r \in Seq(S)
        /\ Len(r) = Len(q) - 1
        /\ \A i \in 1 .. Len(q) - 1 : r[i] = IF i < k THEN q[i] ELSE q[i + 1]
  BY EraseMovesUp
<1> HIDE DEF r
<1>2. /\ Len(q) \in Nat /\ DOMAIN q = 1 .. Len(q)
      /\ DOMAIN r = 1 .. Len(q) - 1
  BY <1>1, LenProperties
<1>3. IsInjective(r)
  <2> SUFFICES ASSUME NEW i \in DOMAIN r, NEW j \in DOMAIN r, r[i] = r[j]
               PROVE  i = j
    BY DEF IsInjective
  <2> DEFINE at(x) == IF x < k THEN x ELSE x + 1
  <2>1. at(i) \in DOMAIN q /\ at(j) \in DOMAIN q /\ q[at(i)] = q[at(j)]
    BY <1>1, <1>2
  <2>2. at(i) = at(j)
    BY <2>1 DEF IsInjective
  <2> QED BY <1>1, <1>2, <2>2
<1>4. ToSet(r) = ToSet(q) \ {e}
  <2>1. ASSUME NEW i \in DOMAIN r PROVE r[i] \in ToSet(q) \ {e}
    <3> DEFINE j == IF i < k THEN i ELSE i + 1
    <3>1. j \in DOMAIN q /\ r[i] = q[j] /\ j # k /\ k \in DOMAIN q
      BY <1>1, <1>2
    <3> QED BY <1>1, <3>1 DEF ToSet, IsInjective
  <2>2. ASSUME NEW i \in DOMAIN q, q[i] # e PROVE q[i] \in ToSet(r)
    <3> DEFINE j == IF i < k THEN i ELSE i - 1
    <3>1. j \in DOMAIN r /\ r[j] = q[i]
      BY <1>1, <1>2, <2>2
    <3> HIDE DEF j
    <3> QED BY <3>1 DEF ToSet
  <2> QED BY <2>1, <2>2 DEF ToSet
<1> QED BY <1>1, <1>3, <1>4 DEF r

\* Appending a whole queue of elements that are not queued yet adds just them.
LEMMA PushBackAll ==
  ASSUME NEW S, NEW q \in Seq(S), IsInjective(q),
         NEW p \in Seq(S), IsInjective(p), ToSet(q) \cap ToSet(p) = {}
  PROVE  /\ q \o p \in Seq(S)
         /\ IsInjective(q \o p)
         /\ ToSet(q \o p) = ToSet(q) \cup ToSet(p)
<1> DEFINE r == q \o p
           m == Len(q)
           n == Len(p)
<1>1. /\ r \in Seq(S) /\ m \in Nat /\ n \in Nat
      /\ DOMAIN r = 1 .. m + n /\ DOMAIN q = 1 .. m /\ DOMAIN p = 1 .. n
      /\ \A i \in 1 .. m + n : r[i] = IF i <= m THEN q[i] ELSE p[i - m]
  BY ConcatProperties, LenProperties
<1> HIDE DEF r, m, n
<1>2. \A i \in 1 .. m : r[i] = q[i] /\ i \in DOMAIN q /\ r[i] \in ToSet(q)
  <2> SUFFICES ASSUME NEW i \in 1 .. m
               PROVE  r[i] = q[i] /\ i \in DOMAIN q /\ r[i] \in ToSet(q)
    OBVIOUS
  <2>1. r[i] = q[i] /\ i \in DOMAIN q
    BY <1>1
  <2> QED BY <2>1 DEF ToSet
<1>3. \A i \in m + 1 .. m + n :
        r[i] = p[i - m] /\ i - m \in DOMAIN p /\ r[i] \in ToSet(p)
  BY <1>1 DEF ToSet
<1>4. IsInjective(r)
  <2> SUFFICES ASSUME NEW i \in DOMAIN r, NEW j \in DOMAIN r, r[i] = r[j]
               PROVE  i = j
    BY DEF IsInjective
  <2>1. CASE i \in 1 .. m /\ j \in 1 .. m
    BY <1>2, <2>1 DEF IsInjective
  <2>2. CASE i \in m + 1 .. m + n /\ j \in m + 1 .. m + n
    <3>1. i - m = j - m
      BY <1>3, <2>2 DEF IsInjective
    <3> QED BY <1>1, <2>2, <3>1
  <2>3. CASE \/ i \in 1 .. m /\ j \in m + 1 .. m + n
             \/ j \in 1 .. m /\ i \in m + 1 .. m + n
    BY <1>2, <1>3, <2>3
  <2> QED BY <1>1, <2>1, <2>2, <2>3
<1>5. ToSet(r) = ToSet(q) \cup ToSet(p)
  <2>1. ToSet(r) \subseteq ToSet(q) \cup ToSet(p)
    BY <1>1, <1>2, <1>3 DEF ToSet
  <2>2. ToSet(q) \subseteq ToSet(r)
    BY <1>1 DEF ToSet
  <2>3. ASSUME NEW i \in 1 .. n PROVE p[i] \in ToSet(r)
    <3>1. m + i \in DOMAIN r /\ r[m + i] = p[i]
      BY <1>1
    <3> QED BY <3>1 DEF ToSet
  <2> QED BY <1>1, <2>1, <2>2, <2>3 DEF ToSet
<1> QED BY <1>1, <1>4, <1>5 DEF r

\* push_back and then a concatenation push behind all that was there.
LEMMA PushBackThenAll ==
  ASSUME NEW S, NEW q \in Seq(S), NEW e \in S, NEW p \in Seq(S)
  PROVE  /\ <<e>> \o p \in Seq(S)
         /\ Append(q, e) \o p = q \o (<<e>> \o p)
         /\ <<e>> \o p # <<>>
         /\ Head(<<e>> \o p) = e
<1> DEFINE rest == <<e>> \o p
<1>1. <<e>> \in Seq(S) /\ Len(<<e>>) = 1 /\ <<e>>[1] = e
  OBVIOUS
<1>2. /\ rest \in Seq(S) /\ Len(rest) = 1 + Len(p) /\ rest[1] = e
      /\ Len(p) \in Nat
  BY <1>1, ConcatProperties, LenProperties
<1>3. rest # <<>> /\ Head(rest) = e
  BY <1>2, EmptySeq, HeadTailProperties
<1>4. Append(q, e) = q \o <<e>>
  BY AppendIsConcat
<1>5. (q \o <<e>>) \o p = q \o rest
  BY <1>1, ConcatAssociative
<1> QED BY <1>2, <1>3, <1>4, <1>5

\* The front of a queue stays the front, whatever is pushed behind it.
LEMMA FrontStays ==
  ASSUME NEW S, NEW q \in Seq(S), NEW p \in Seq(S)
  PROVE  /\ q # <<>> => Head(q \o p) = Head(q)
         /\ <<>> \o p = p
<1>1. CASE q # <<>>
  <2>1. /\ Len(q) \in Nat \ {0} /\ Len(p) \in Nat /\ Head(q) = q[1]
    BY <1>1, EmptySeq, LenProperties, HeadTailProperties
  <2>2. /\ q \o p \in Seq(S) /\ Len(q \o p) = Len(q) + Len(p)
        /\ (q \o p)[1] = q[1]
    BY <2>1, ConcatProperties
  <2>3. q \o p # <<>>
    BY <2>1, <2>2, EmptySeq
  <2>4. Head(q \o p) = (q \o p)[1]
    BY <2>2, <2>3, HeadTailProperties
  <2> QED BY <2>1, <2>2, <2>4, ConcatEmptySeq
<1> QED BY <1>1, ConcatEmptySeq

\* An order of a finite set is a queue of its elements.
LEMMA OrderIsQueue ==
  ASSUME NEW S, NEW T \in SUBSET S, IsFiniteSet(T),
         NEW order \in Bijection(1 .. Cardinality(T), T)
  PROVE  /\ order \in Seq(S)
         /\ IsInjective(order)
         /\ ToSet(order) = T
<1>1. Cardinality(T) \in Nat
  BY FS_CardinalityType
<1>2. order \in [1 .. Cardinality(T) -> T]
  BY DEF Bijection, Injection
<1>3. order \in Seq(S)
  BY <1>1, <1>2, SeqDef
<1>4. IsInjective(order)
  BY <1>2 DEF Bijection, Injection, IsInjective
<1>5. ToSet(order) = T
  BY <1>2 DEF Bijection, Surjection, ToSet
<1> QED BY <1>3, <1>4, <1>5

\* push_back and pop_front on queues of at most three, element by element.
LEMMA ShortQueues ==
  ASSUME NEW S, NEW a \in S, NEW b \in S, NEW r \in S
  PROVE  /\ Append(<<>>, r) = <<r>>
         /\ Append(<<a>>, r) = <<a, r>>
         /\ Append(<<a, b>>, r) = <<a, b, r>>
         /\ Head(Append(<<>>, r)) = r /\ Tail(Append(<<>>, r)) = <<>>
         /\ Head(Append(<<a>>, r)) = a /\ Tail(Append(<<a>>, r)) = <<r>>
         /\ Head(Append(<<a, b>>, r)) = a /\ Tail(Append(<<a, b>>, r)) = <<b, r>>
<1> DEFINE q0 == <<>>
           q1 == <<a>>
           q2 == <<a, r>>
           q3 == <<a, b>>
           q4 == <<a, b, r>>
           q5 == <<r>>
           q6 == <<b, r>>
<1>1. /\ q0 \in Seq(S) /\ q1 \in Seq(S) /\ q2 \in Seq(S) /\ q3 \in Seq(S)
      /\ q4 \in Seq(S) /\ q5 \in Seq(S) /\ q6 \in Seq(S)
      /\ Len(q0) = 0 /\ Len(q1) = 1 /\ Len(q2) = 2 /\ Len(q3) = 2 /\ Len(q4) = 3
      /\ Len(q5) = 1 /\ Len(q6) = 2
      /\ q1[1] = a /\ q2[1] = a /\ q2[2] = r /\ q3[1] = a /\ q3[2] = b
      /\ q4[1] = a /\ q4[2] = b /\ q4[3] = r /\ q5[1] = r /\ q6[1] = b /\ q6[2] = r
      /\ Head(q5) = r /\ Head(q2) = a /\ Head(q4) = a
      /\ q2 # q0 /\ q4 # q0 /\ q5 # q0
  OBVIOUS
<1> HIDE DEF q0, q1, q2, q3, q4, q5, q6
<1>2. ASSUME NEW q \in Seq(S), NEW longer \in Seq(S),
             Len(longer) = Len(q) + 1, longer[Len(q) + 1] = r,
             \A i \in 1 .. Len(q) : longer[i] = q[i]
      PROVE  Append(q, r) = longer
  <2> DEFINE p == Append(q, r)
  <2>0. Len(q) \in Nat
    BY LenProperties
  <2>1. /\ p \in Seq(S) /\ Len(p) = Len(q) + 1
        /\ \A i \in 1 .. Len(q) : p[i] = q[i]
        /\ p[Len(q) + 1] = r
    BY AppendProperties
  <2> HIDE DEF p
  <2>2. \A i \in 1 .. Len(p) : p[i] = longer[i]
    BY <1>2, <2>0, <2>1
  <2>3. p = longer
    BY <1>2, <2>1, <2>2, SeqEqual
  <2> QED BY <2>3 DEF p
<1>3. ASSUME NEW q \in Seq(S), q # q0, NEW rest \in Seq(S),
             Len(q) = Len(rest) + 1,
             \A i \in 1 .. Len(rest) : rest[i] = q[i + 1]
      PROVE  Tail(q) = rest
  <2> DEFINE p == Tail(q)
  <2>0. Len(rest) \in Nat
    BY LenProperties
  <2>1. /\ p \in Seq(S) /\ Len(p) = Len(q) - 1
        /\ \A i \in 1 .. Len(p) : p[i] = q[i + 1]
    BY <1>3, HeadTailProperties DEF q0
  <2> HIDE DEF p
  <2>3. p = rest
    BY <1>3, <2>0, <2>1, SeqEqual
  <2> QED BY <2>3 DEF p
<1>4. Append(q0, r) = q5
  BY <1>1, <1>2
<1>5. Append(q1, r) = q2
  <2>1. \A i \in 1 .. Len(q1) : q2[i] = q1[i]
    BY <1>1
  <2>2. Len(q2) = Len(q1) + 1 /\ q2[Len(q1) + 1] = r
    BY <1>1
  <2> QED BY <1>1, <1>2, <2>1, <2>2
<1>6. Append(q3, r) = q4
  <2>1. \A i \in 1 .. Len(q3) : q4[i] = q3[i]
    BY <1>1
  <2>2. Len(q4) = Len(q3) + 1 /\ q4[Len(q3) + 1] = r
    BY <1>1
  <2> QED BY <1>1, <1>2, <2>1, <2>2
<1>7. Tail(q5) = q0
  <2>1. Len(q5) = Len(q0) + 1 /\ \A i \in 1 .. Len(q0) : q0[i] = q5[i + 1]
    BY <1>1
  <2> QED BY <1>1, <1>3, <2>1
<1>8. Tail(q2) = q5
  <2>1. Len(q2) = Len(q5) + 1 /\ \A i \in 1 .. Len(q5) : q5[i] = q2[i + 1]
    BY <1>1
  <2> QED BY <1>1, <1>3, <2>1
<1>9. Tail(q4) = q6
  <2>1. Len(q4) = Len(q6) + 1 /\ \A i \in 1 .. Len(q6) : q6[i] = q4[i + 1]
    BY <1>1
  <2> QED BY <1>1, <1>3, <2>1
<1>10. /\ Head(Append(q0, r)) = r /\ Tail(Append(q0, r)) = q0
       /\ Head(Append(q1, r)) = a /\ Tail(Append(q1, r)) = q5
       /\ Head(Append(q3, r)) = a /\ Tail(Append(q3, r)) = q6
  BY <1>1, <1>4, <1>5, <1>6, <1>7, <1>8, <1>9
<1> QED BY <1>4, <1>5, <1>6, <1>10 DEF q0, q1, q2, q3, q4, q5, q6

\* A queue without repetitions is known by what it holds, if that is little.
LEMMA HoldsLittle ==
  ASSUME NEW S, NEW q \in Seq(S), IsInjective(q)
  PROVE  /\ ToSet(q) = {} => q = <<>>
         /\ \A a \in S : ToSet(q) = {a} => q = <<a>>
<1>1. /\ Len(q) \in Nat /\ DOMAIN q = 1 .. Len(q)
      /\ \A i \in 1 .. Len(q) : q[i] \in ToSet(q)
      /\ \A i, j \in 1 .. Len(q) : q[i] = q[j] => i = j
  BY LenProperties DEF ToSet, IsInjective
<1>2. ASSUME ToSet(q) = {} PROVE q = <<>>
  <2>1. Len(q) = 0
    <3> SUFFICES ASSUME Len(q) # 0 PROVE FALSE
      OBVIOUS
    <3>1. 1 \in 1 .. Len(q)
      BY <1>1
    <3> QED BY <1>1, <1>2, <3>1
  <2> QED BY <2>1, EmptySeq
<1>3. ASSUME NEW a \in S, ToSet(q) = {a} PROVE q = <<a>>
  <2>1. Len(q) # 0
    <3> SUFFICES ASSUME Len(q) = 0 PROVE FALSE
      OBVIOUS
    <3>1. DOMAIN q = {}
      BY <1>1
    <3> QED BY <1>3, <3>1 DEF ToSet
  <2>2. Len(q) = 1
    <3> SUFFICES ASSUME Len(q) >= 2 PROVE FALSE
      BY <1>1, <2>1
    <3>1. 1 \in 1 .. Len(q) /\ 2 \in 1 .. Len(q)
      BY <1>1
    <3>2. q[1] = a /\ q[2] = a
      BY <1>1, <1>3, <3>1
    <3> QED BY <1>1, <3>1, <3>2
  <2>3. q[1] = a
    BY <1>1, <1>3, <2>2
  <2> DEFINE p == <<a>>
  <2>4. p \in Seq(S) /\ Len(p) = 1 /\ p[1] = a
    OBVIOUS
  <2> HIDE DEF p
  <2>5. \A i \in 1 .. Len(q) : q[i] = p[i]
    BY <2>2, <2>3, <2>4
  <2>6. q = p
    BY <2>2, <2>4, <2>5, SeqEqual
  <2> QED BY <2>6 DEF p
<1> QED BY <1>2, <1>3

=============================================================================
