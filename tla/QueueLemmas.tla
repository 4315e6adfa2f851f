----------------------------- MODULE QueueLemmas -----------------------------
(***************************************************************************)
(* What pushing to and popping from a queue does to the elements in it.    *)
(* The servers and clients are proved correct from these: a session leaves *)
(* by one message, once, and behind all others.                            *)
(***************************************************************************)
EXTENDS Naturals, Sequences, FiniteSets, SequenceTheorems, FiniteSetTheorems, TLAPS

\* x is in the queue q; it is there once at most; nothing of Y is behind it,
\* nothing of Y is in front of it.
Has(q, x)       == \E i \in DOMAIN q : q[i] = x
Single(q, x)    == \A i, j \in DOMAIN q : q[i] = x /\ q[j] = x => i = j
Last(q, x, Y)   == \A i, j \in DOMAIN q : i < j /\ q[i] = x => q[j] \notin Y
Leads(q, x, Y)  == \A i, j \in DOMAIN q : i < j /\ q[j] = x => q[i] \notin Y
Within(q, Y)    == \A i \in DOMAIN q : q[i] \in Y

-----------------------------------------------------------------------------
(* Where the elements are after a push, a pop and a concatenation.         *)

LEMMA AtAppend ==
  ASSUME NEW S, NEW q \in Seq(S), NEW e \in S
  PROVE  /\ DOMAIN q = 1 .. Len(q) /\ Len(q) \in Nat
         /\ Append(q, e) \in Seq(S)
         /\ DOMAIN Append(q, e) = 1 .. Len(q) + 1
         /\ \A i \in DOMAIN q : Append(q, e)[i] = q[i]
         /\ Append(q, e)[Len(q) + 1] = e
BY AppendProperties, LenProperties

LEMMA AtTail ==
  ASSUME NEW S, NEW q \in Seq(S), q # <<>>
  PROVE  /\ DOMAIN q = 1 .. Len(q) /\ Len(q) \in Nat \ {0}
         /\ Head(q) = q[1] /\ Head(q) \in S
         /\ Tail(q) \in Seq(S)
         /\ DOMAIN Tail(q) = 1 .. Len(q) - 1
         /\ \A i \in DOMAIN Tail(q) : i + 1 \in DOMAIN q /\ Tail(q)[i] = q[i + 1]
BY HeadTailProperties, LenProperties, EmptySeq

LEMMA AtConcat ==
  ASSUME NEW S, NEW p \in Seq(S), NEW q \in Seq(S)
  PROVE  /\ DOMAIN p = 1 .. Len(p) /\ Len(p) \in Nat
         /\ DOMAIN q = 1 .. Len(q) /\ Len(q) \in Nat
         /\ p \o q \in Seq(S)
         /\ DOMAIN (p \o q) = 1 .. Len(p) + Len(q)
         /\ \A i \in 1 .. Len(p) : (p \o q)[i] = p[i]
         /\ \A i \in Len(p) + 1 .. Len(p) + Len(q) : (p \o q)[i] = q[i - Len(p)]
BY ConcatProperties, LenProperties

-----------------------------------------------------------------------------
(* A queue and its dispatch queue, one behind the other, are one queue: a  *)
(* push is behind both, a pop is in front of both.                         *)

LEMMA PushBehind ==
  ASSUME NEW S, NEW p \in Seq(S), NEW q \in Seq(S), NEW e \in S
  PROVE  p \o Append(q, e) = Append(p \o q, e)
<1>1. /\ Append(q, e) \in Seq(S) /\ Len(Append(q, e)) = Len(q) + 1
      /\ p \o q \in Seq(S) /\ Len(p \o q) = Len(p) + Len(q)
  BY AppendProperties, ConcatProperties
<1>2. Append(p \o q, e) \in Seq(S) /\ p \o Append(q, e) \in Seq(S)
  BY <1>1, AppendProperties, ConcatProperties
<1>3. /\ Len(Append(p \o q, e)) = Len(p) + Len(q) + 1
      /\ Len(p \o Append(q, e)) = Len(p) + Len(q) + 1
  BY <1>1, AppendProperties, ConcatProperties, LenProperties
<1>4. ASSUME NEW i \in 1 .. Len(p) + Len(q) + 1
      PROVE  (p \o Append(q, e))[i] = Append(p \o q, e)[i]
  <2>1. Len(p) \in Nat /\ Len(q) \in Nat
    BY LenProperties
  <2>2. CASE i <= Len(p)
    BY <1>1, <2>1, <2>2, AtAppend, AtConcat
  <2>3. CASE i > Len(p) /\ i <= Len(p) + Len(q)
    BY <1>1, <2>1, <2>3, AtAppend, AtConcat
  <2>4. CASE i = Len(p) + Len(q) + 1
    BY <1>1, <2>1, <2>4, AtAppend, AtConcat
  <2>5. QED
    BY <2>1, <2>2, <2>3, <2>4
<1>5. QED
  BY <1>2, <1>3, <1>4, SeqEqual

LEMMA PopInFront ==
  ASSUME NEW S, NEW p \in Seq(S), NEW q \in Seq(S), p # <<>>
  PROVE  p \o q # <<>> /\ Head(p \o q) = Head(p) /\ Tail(p \o q) = Tail(p) \o q
<1>1. /\ Len(p) \in Nat \ {0} /\ Len(q) \in Nat
      /\ p \o q \in Seq(S) /\ Len(p \o q) = Len(p) + Len(q)
      /\ Tail(p) \in Seq(S) /\ Len(Tail(p)) = Len(p) - 1
  BY ConcatProperties, HeadTailProperties, LenProperties, EmptySeq
<1>2. p \o q # <<>>
  BY <1>1, EmptySeq
<1>3. Head(p \o q) = Head(p)
  BY <1>1, <1>2, AtTail, AtConcat
<1>4. /\ Tail(p \o q) \in Seq(S) /\ Tail(p) \o q \in Seq(S)
      /\ Len(Tail(p \o q)) = Len(p) + Len(q) - 1
      /\ Len(Tail(p) \o q) = Len(p) + Len(q) - 1
  BY <1>1, <1>2, HeadTailProperties, ConcatProperties
<1>5. ASSUME NEW i \in 1 .. Len(p) + Len(q) - 1
      PROVE  Tail(p \o q)[i] = (Tail(p) \o q)[i]
  <2>1. Tail(p \o q)[i] = (p \o q)[i + 1]
    BY <1>1, <1>2, AtTail
  <2>2. CASE i <= Len(p) - 1
    BY <1>1, <2>1, <2>2, AtTail, AtConcat
  <2>3. CASE i > Len(p) - 1
    BY <1>1, <2>1, <2>3, AtTail, AtConcat
  <2>4. QED
    BY <1>1, <2>2, <2>3
<1>6. QED
  BY <1>2, <1>3, <1>4, <1>5, SeqEqual

LEMMA BatchBehind ==
  ASSUME NEW S, NEW p \in Seq(S), NEW q \in Seq(S), NEW r \in Seq(S)
  PROVE  p \o (q \o r) = (p \o q) \o r
<1>1. /\ Len(p) \in Nat /\ Len(q) \in Nat /\ Len(r) \in Nat
      /\ p \o q \in Seq(S) /\ Len(p \o q) = Len(p) + Len(q)
      /\ q \o r \in Seq(S) /\ Len(q \o r) = Len(q) + Len(r)
  BY ConcatProperties, LenProperties
<1>2. /\ p \o (q \o r) \in Seq(S) /\ (p \o q) \o r \in Seq(S)
      /\ Len(p \o (q \o r)) = Len(p) + Len(q) + Len(r)
      /\ Len((p \o q) \o r) = Len(p) + Len(q) + Len(r)
  BY <1>1, ConcatProperties
<1>3. ASSUME NEW i \in 1 .. Len(p) + Len(q) + Len(r)
      PROVE  (p \o (q \o r))[i] = ((p \o q) \o r)[i]
  BY <1>1, AtConcat
<1>4. QED
  BY <1>2, <1>3, SeqEqual

LEMMA NothingAhead ==
  ASSUME NEW S, NEW q \in Seq(S)
  PROVE  <<>> \o q = q /\ q \o <<>> = q
BY EmptySeq, ConcatProperties

-----------------------------------------------------------------------------
(* What a push and a pop do to the elements.                               *)

LEMMA HasAppend ==
  ASSUME NEW S, NEW q \in Seq(S), NEW e \in S, NEW x
  PROVE  Has(Append(q, e), x) <=> Has(q, x) \/ e = x
<1>1. DOMAIN Append(q, e) = DOMAIN q \cup {Len(q) + 1}
  BY AtAppend
<1>2. QED
  BY <1>1, AtAppend DEF Has

LEMMA HasTail ==
  ASSUME NEW S, NEW q \in Seq(S), q # <<>>, NEW x
  PROVE  Has(q, x) <=> Head(q) = x \/ Has(Tail(q), x)
<1>1. ASSUME NEW i \in DOMAIN q, q[i] = x, Head(q) # x
      PROVE  Has(Tail(q), x)
  <2>1. i - 1 \in DOMAIN Tail(q) /\ Tail(q)[i - 1] = x
    BY <1>1, AtTail
  <2>2. QED
    BY <2>1 DEF Has
<1>2. Has(Tail(q), x) => Has(q, x)
  BY AtTail DEF Has
<1>3. Head(q) = x => Has(q, x)
  BY AtTail DEF Has
<1>4. QED
  BY <1>1, <1>2, <1>3 DEF Has

LEMMA SingleAppend ==
  ASSUME NEW S, NEW q \in Seq(S), NEW e \in S, NEW x,
         Single(q, x), e = x => ~Has(q, x)
  PROVE  Single(Append(q, e), x)
<1>1. DOMAIN Append(q, e) = DOMAIN q \cup {Len(q) + 1}
  BY AtAppend
<1>2. QED
  BY <1>1, AtAppend DEF Has, Single

LEMMA SingleTail ==
  ASSUME NEW S, NEW q \in Seq(S), q # <<>>, NEW x, Single(q, x)
  PROVE  Single(Tail(q), x) /\ (Head(q) = x => ~Has(Tail(q), x))
<1>1. Single(Tail(q), x)
  <2>1. ASSUME NEW i \in DOMAIN Tail(q), NEW j \in DOMAIN Tail(q),
               Tail(q)[i] = x, Tail(q)[j] = x
        PROVE  i = j
    <3>1. i + 1 = j + 1
      BY <2>1, AtTail DEF Single
    <3>2. QED
      BY <3>1, AtTail
  <2>2. QED
    BY <2>1 DEF Single
<1>2. ASSUME Head(q) = x, NEW i \in DOMAIN Tail(q), Tail(q)[i] = x PROVE FALSE
  <2>1. 1 \in DOMAIN q /\ q[1] = x /\ i + 1 \in DOMAIN q /\ q[i + 1] = x
    BY <1>2, AtTail
  <2>2. i + 1 = 1
    BY <2>1 DEF Single
  <2>3. QED
    BY <2>2, AtTail
<1>3. QED
  BY <1>1, <1>2 DEF Has

LEMMA LastAppend ==
  ASSUME NEW S, NEW q \in Seq(S), NEW e \in S, NEW x, NEW Y,
         Last(q, x, Y), e \in Y => ~Has(q, x)
  PROVE  Last(Append(q, e), x, Y)
<1>1. DOMAIN Append(q, e) = DOMAIN q \cup {Len(q) + 1}
  BY AtAppend
<1>2. QED
  BY <1>1, AtAppend DEF Has, Last

LEMMA LastTail ==
  ASSUME NEW S, NEW q \in Seq(S), q # <<>>, NEW x, NEW Y, Last(q, x, Y)
  PROVE  /\ Last(Tail(q), x, Y)
         /\ Head(q) = x => \A i \in DOMAIN Tail(q) : Tail(q)[i] \notin Y
<1>1. ASSUME NEW i \in DOMAIN Tail(q), NEW j \in DOMAIN Tail(q), i < j, Tail(q)[i] = x
      PROVE  Tail(q)[j] \notin Y
  BY <1>1, AtTail DEF Last
<1>2. ASSUME Head(q) = x, NEW i \in DOMAIN Tail(q) PROVE Tail(q)[i] \notin Y
  <2>1. 1 \in DOMAIN q /\ q[1] = x /\ i + 1 \in DOMAIN q /\ 1 < i + 1
    BY <1>2, AtTail
  <2>2. q[i + 1] \notin Y
    BY <2>1 DEF Last
  <2>3. QED
    BY <2>2, AtTail
<1>3. QED
  BY <1>1, <1>2 DEF Last

LEMMA LeadsAppend ==
  ASSUME NEW S, NEW q \in Seq(S), NEW e \in S, NEW x, NEW Y,
         Leads(q, x, Y), e = x => \A i \in DOMAIN q : q[i] \notin Y
  PROVE  Leads(Append(q, e), x, Y)
<1>1. DOMAIN Append(q, e) = DOMAIN q \cup {Len(q) + 1}
  BY AtAppend
<1>2. QED
  BY <1>1, AtAppend DEF Leads

LEMMA LeadsTail ==
  ASSUME NEW S, NEW q \in Seq(S), q # <<>>, NEW x, NEW Y, Leads(q, x, Y)
  PROVE  Leads(Tail(q), x, Y) /\ (Head(q) \in Y => ~Has(Tail(q), x))
<1>1. ASSUME NEW i \in DOMAIN Tail(q), NEW j \in DOMAIN Tail(q), i < j, Tail(q)[j] = x
      PROVE  Tail(q)[i] \notin Y
  BY <1>1, AtTail DEF Leads
<1>2. ASSUME Head(q) \in Y, NEW j \in DOMAIN Tail(q), Tail(q)[j] = x PROVE FALSE
  <2>1. 1 \in DOMAIN q /\ q[1] \in Y /\ j + 1 \in DOMAIN q /\ 1 < j + 1 /\ q[j + 1] = x
    BY <1>2, AtTail
  <2>2. QED
    BY <2>1 DEF Leads
<1>3. QED
  BY <1>1, <1>2 DEF Leads, Has

LEMMA WithinAppend ==
  ASSUME NEW S, NEW q \in Seq(S), NEW e \in S, NEW Y, Within(q, Y), e \in Y
  PROVE  Within(Append(q, e), Y)
<1>1. DOMAIN Append(q, e) = DOMAIN q \cup {Len(q) + 1}
  BY AtAppend
<1>2. QED
  BY <1>1, AtAppend DEF Within

LEMMA WithinTail ==
  ASSUME NEW S, NEW q \in Seq(S), q # <<>>, NEW Y, Within(q, Y)
  PROVE  Head(q) \in Y /\ Within(Tail(q), Y)
BY AtTail DEF Within

(* A batch pushed at once: what is in both, in the order of the two.       *)
LEMMA ConcatParts ==
  ASSUME NEW S, NEW q \in Seq(S), NEW r \in Seq(S)
  PROVE  /\ \A i \in DOMAIN (q \o r) :
              \/ i \in DOMAIN q /\ (q \o r)[i] = q[i]
              \/ i - Len(q) \in DOMAIN r /\ (q \o r)[i] = r[i - Len(q)] /\ i > Len(q)
         /\ \A i \in DOMAIN q : i \in DOMAIN (q \o r) /\ (q \o r)[i] = q[i] /\ i <= Len(q)
         /\ \A i \in DOMAIN r : /\ i + Len(q) \in DOMAIN (q \o r)
                               /\ (q \o r)[i + Len(q)] = r[i]
         /\ Len(q) \in Nat /\ DOMAIN q \subseteq Nat /\ DOMAIN r \subseteq Nat
<1> DEFINE k == Len(q)
           n == Len(r)
           c == q \o r
<1>1. /\ k \in Nat /\ n \in Nat /\ DOMAIN c = 1 .. k + n
      /\ DOMAIN q = 1 .. k /\ DOMAIN r = 1 .. n
      /\ \A i \in 1 .. k : c[i] = q[i]
      /\ \A i \in k + 1 .. k + n : c[i] = r[i - k]
  BY AtConcat
<1> HIDE DEF k, n, c
<1>2. ASSUME NEW i \in 1 .. n PROVE i + k \in k + 1 .. k + n /\ c[i + k] = r[i]
  <2>1. i + k \in k + 1 .. k + n /\ (i + k) - k = i
    BY <1>1
  <2>2. QED
    BY <1>1, <2>1
<1>3. ASSUME NEW i \in 1 .. k + n
      PROVE  \/ i \in 1 .. k
             \/ i - k \in 1 .. n /\ i > k /\ i \in k + 1 .. k + n
  BY <1>1, <1>3
<1>4. 1 .. k \subseteq 1 .. k + n /\ k + 1 .. k + n \subseteq 1 .. k + n
  BY <1>1
<1>5. QED
  BY <1>1, <1>2, <1>3, <1>4 DEF k, n, c

LEMMA ConcatHas ==
  ASSUME NEW S, NEW q \in Seq(S), NEW r \in Seq(S), NEW x
  PROVE  Has(q \o r, x) <=> Has(q, x) \/ Has(r, x)
<1>1. Has(q \o r, x) => Has(q, x) \/ Has(r, x)
  BY ConcatParts DEF Has
<1>2. Has(q, x) => Has(q \o r, x)
  BY ConcatParts DEF Has
<1>3. ASSUME NEW i \in DOMAIN r, r[i] = x PROVE Has(q \o r, x)
  <2>1. i + Len(q) \in DOMAIN (q \o r) /\ (q \o r)[i + Len(q)] = x
    BY <1>3, ConcatParts
  <2>2. QED
    BY <2>1 DEF Has
<1>4. QED
  BY <1>1, <1>2, <1>3 DEF Has

LEMMA ConcatSingle ==
  ASSUME NEW S, NEW q \in Seq(S), NEW r \in Seq(S), NEW x,
         Single(q, x), Single(r, x), ~(Has(q, x) /\ Has(r, x))
  PROVE  Single(q \o r, x)
<1>1. ASSUME NEW i \in DOMAIN (q \o r), NEW j \in DOMAIN (q \o r),
             (q \o r)[i] = x, (q \o r)[j] = x
      PROVE  i = j
  <2>1. CASE Has(q, x)
    <3>1. ~Has(r, x)
      BY <2>1
    <3>2. i \in DOMAIN q /\ j \in DOMAIN q /\ q[i] = x /\ q[j] = x
      BY <1>1, <3>1, ConcatParts DEF Has
    <3>3. QED
      BY <3>2 DEF Single
  <2>2. CASE ~Has(q, x)
    <3>1. /\ i - Len(q) \in DOMAIN r /\ j - Len(q) \in DOMAIN r
          /\ r[i - Len(q)] = x /\ r[j - Len(q)] = x
      BY <1>1, <2>2, ConcatParts DEF Has
    <3>2. i - Len(q) = j - Len(q)
      BY <3>1 DEF Single
    <3>3. i \in Nat /\ j \in Nat /\ Len(q) \in Nat
      BY AtConcat
    <3>4. QED
      BY <3>2, <3>3
  <2>3. QED
    BY <2>1, <2>2
<1>2. QED
  BY <1>1 DEF Single

LEMMA ConcatLast ==
  ASSUME NEW S, NEW q \in Seq(S), NEW r \in Seq(S), NEW x, NEW Y,
         Last(q, x, Y), Last(r, x, Y), Has(q, x) => \A i \in DOMAIN r : r[i] \notin Y
  PROVE  Last(q \o r, x, Y)
<1>1. ASSUME NEW i \in DOMAIN (q \o r), NEW j \in DOMAIN (q \o r), i < j, (q \o r)[i] = x
      PROVE  (q \o r)[j] \notin Y
  <2>0. i \in Nat /\ j \in Nat /\ Len(q) \in Nat
    BY AtConcat
  <2>1. CASE i \in DOMAIN q /\ q[i] = x
    <3>1. CASE j \in DOMAIN q /\ (q \o r)[j] = q[j]
      BY <1>1, <2>1, <3>1 DEF Last
    <3>2. CASE j - Len(q) \in DOMAIN r /\ (q \o r)[j] = r[j - Len(q)]
      BY <2>1, <3>2 DEF Has
    <3>3. QED
      BY <3>1, <3>2, ConcatParts
  <2>2. CASE i - Len(q) \in DOMAIN r /\ r[i - Len(q)] = x /\ i > Len(q)
    <3>1. j - Len(q) \in DOMAIN r /\ (q \o r)[j] = r[j - Len(q)]
      BY <1>1, <2>0, <2>2, ConcatParts
    <3>2. i - Len(q) < j - Len(q)
      BY <1>1, <2>0
    <3>3. QED
      BY <2>2, <3>1, <3>2 DEF Last
  <2>3. QED
    BY <1>1, <2>1, <2>2, ConcatParts
<1>2. QED
  BY <1>1 DEF Last

LEMMA ConcatWithin ==
  ASSUME NEW S, NEW q \in Seq(S), NEW r \in Seq(S), NEW Y, Within(q, Y), Within(r, Y)
  PROVE  Within(q \o r, Y)
BY ConcatParts DEF Within

(* A batch without x, pushed at once, leaves x as it is.                   *)
LEMMA ConcatNone ==
  ASSUME NEW S, NEW q \in Seq(S), NEW r \in Seq(S), NEW x, ~Has(r, x)
  PROVE  /\ Has(q \o r, x) <=> Has(q, x)
         /\ Single(q, x) => Single(q \o r, x)
<1>1. ASSUME NEW i \in DOMAIN (q \o r), (q \o r)[i] = x
      PROVE  i \in DOMAIN q /\ q[i] = x
  <2>1. CASE i \in 1 .. Len(q)
    BY <1>1, <2>1, AtConcat
  <2>2. CASE i \in Len(q) + 1 .. Len(q) + Len(r)
    <3>1. i - Len(q) \in DOMAIN r /\ r[i - Len(q)] = x
      BY <1>1, <2>2, AtConcat
    <3>2. QED
      BY <3>1 DEF Has
  <2>3. QED
    BY <2>1, <2>2, AtConcat
<1>2. ASSUME NEW i \in DOMAIN q
      PROVE  i \in DOMAIN (q \o r) /\ (q \o r)[i] = q[i]
  BY <1>2, AtConcat
<1>3. QED
  BY <1>1, <1>2 DEF Has, Single

(* What is in a queue once at most is counted once or not at all.          *)
LEMMA CountSingle ==
  ASSUME NEW S, NEW q \in Seq(S), NEW x, Single(q, x)
  PROVE  Cardinality({i \in DOMAIN q : q[i] = x}) = IF Has(q, x) THEN 1 ELSE 0
<1> DEFINE at == {i \in DOMAIN q : q[i] = x}
<1>1. CASE Has(q, x)
  <2>1. PICK i \in DOMAIN q : q[i] = x
    BY <1>1 DEF Has
  <2>2. at = {i}
    BY <2>1 DEF Single
  <2>3. QED
    BY <1>1, <2>2, FS_Singleton
<1>2. CASE ~Has(q, x)
  <2>1. at = {}
    BY <1>2 DEF Has
  <2>2. QED
    BY <1>2, <2>1, FS_EmptySet
<1>3. QED
  BY <1>1, <1>2
=============================================================================
