----------------------------- MODULE ListLemmas -----------------------------
(***************************************************************************)
(* What the list operations do to the length of a list, to the set of its  *)
(* entries and to the absence of duplicates, for lists of any length.      *)
(***************************************************************************)
EXTENDS Lists, SequenceTheorems, TLAPS

\* insert() and insertd() put one entry into a list and keep the others in order.
LEMMA InsertAtIsSeq ==
    ASSUME NEW S, NEW s \in Seq(S), NEW i \in 1 .. Len(s) + 1, NEW e \in S
    PROVE  /\ InsertAt(s, i, e) \in Seq(S)
           /\ Len(InsertAt(s, i, e)) = Len(s) + 1
           /\ \A j \in 1 .. Len(s) + 1 :
                InsertAt(s, i, e)[j] =
                  IF j < i THEN s[j] ELSE IF j = i THEN e ELSE s[j - 1]
  <1> DEFINE a == SubSeq(s, 1, i - 1)
             b == SubSeq(s, i, Len(s))
  <1>1. /\ a \in Seq(S) /\ Len(a) = i - 1
        /\ \A j \in 1 .. i - 1 : a[j] = s[j]
    <2>1. \A j \in 1 .. i - 1 : s[j] \in S
      BY ElementOfSeq
    <2> QED BY <2>1, SubSeqProperties
  <1>2. /\ b \in Seq(S) /\ Len(b) = Len(s) - i + 1
        /\ \A j \in 1 .. Len(s) - i + 1 : b[j] = s[i + j - 1]
    <2>1. \A j \in i .. Len(s) : s[j] \in S
      BY ElementOfSeq
    <2> QED BY <2>1, SubSeqProperties
  <1>3. <<e>> \in Seq(S) /\ Len(<<e>>) = 1 /\ <<e>>[1] = e
    OBVIOUS
  <1> HIDE DEF a, b
  <1>4. /\ a \o <<e>> \in Seq(S) /\ Len(a \o <<e>>) = i
        /\ \A j \in 1 .. i : (a \o <<e>>)[j] = IF j <= i - 1 THEN a[j] ELSE e
    <2>1. /\ a \o <<e>> \in Seq(S)
          /\ Len(a \o <<e>>) = Len(a) + Len(<<e>>)
          /\ \A j \in 1 .. Len(a) + Len(<<e>>) :
                (a \o <<e>>)[j] = IF j <= Len(a) THEN a[j] ELSE <<e>>[j - Len(a)]
      BY <1>1, <1>3, ConcatProperties
    <2> QED BY <2>1, <1>1, <1>3
  <1> DEFINE c == a \o <<e>>
  <1> HIDE DEF c
  <1>5. /\ c \o b \in Seq(S)
        /\ Len(c \o b) = Len(c) + Len(b)
        /\ \A j \in 1 .. Len(c) + Len(b) :
              (c \o b)[j] = IF j <= Len(c) THEN c[j] ELSE b[j - Len(c)]
    <2>1. c \in Seq(S)
      BY <1>4 DEF c
    <2> QED BY <2>1, <1>2, ConcatProperties
  <1>6. InsertAt(s, i, e) = c \o b
    BY DEF InsertAt, a, b, c
  <1>7. /\ c \in Seq(S) /\ Len(c) = i
        /\ \A j \in 1 .. i : c[j] = IF j <= i - 1 THEN a[j] ELSE e
    BY <1>4 DEF c
  <1> QED BY <1>1, <1>2, <1>5, <1>6, <1>7

\* insert() and insertd() add the entry to the list, and to no place twice.
LEMMA InsertAtElems ==
    ASSUME NEW S, NEW s \in Seq(S), NEW i \in 1 .. Len(s) + 1, NEW e \in S
    PROVE  /\ ToSet(InsertAt(s, i, e)) = ToSet(s) \union {e}
           /\ IsInjective(s) /\ e \notin ToSet(s) => IsInjective(InsertAt(s, i, e))
  <1> DEFINE t == InsertAt(s, i, e)
  <1>1. /\ t \in Seq(S) /\ Len(t) = Len(s) + 1
        /\ \A j \in 1 .. Len(s) + 1 :
                t[j] = IF j < i THEN s[j] ELSE IF j = i THEN e ELSE s[j - 1]
    BY InsertAtIsSeq
  <1> HIDE DEF t
  <1>2. ASSUME NEW x \in ToSet(s) PROVE x \in ToSet(t)
    <2>1. PICK j \in 1 .. Len(s) : x = s[j]
      BY <1>2 DEF ToSet
    <2>2. CASE j < i
      <3>1. j \in DOMAIN t /\ t[j] = s[j]
        BY <1>1, <2>2
      <3> QED BY <3>1, <2>1 DEF ToSet
    <2>3. CASE j >= i
      <3>1. j + 1 \in 1 .. Len(s) + 1 /\ ~(j + 1 < i) /\ j + 1 # i /\ (j + 1) - 1 = j
        BY <2>3
      <3>2. t[j + 1] = s[j] /\ j + 1 \in DOMAIN t
        BY <1>1, <3>1
      <3> QED BY <3>2, <2>1 DEF ToSet
    <2> QED BY <2>2, <2>3
  <1>3. e \in ToSet(t)
    <2>1. i \in DOMAIN t /\ t[i] = e
      BY <1>1
    <2> QED BY <2>1 DEF ToSet
  <1>4. ASSUME NEW x \in ToSet(t) PROVE x \in ToSet(s) \union {e}
    <2>1. PICK j \in 1 .. Len(s) + 1 : x = t[j]
      BY <1>1, <1>4 DEF ToSet
    <2>2. x = e \/ (\E k \in 1 .. Len(s) : x = s[k])
      BY <1>1, <2>1
    <2> QED BY <2>2 DEF ToSet
  <1>5. IsInjective(s) /\ e \notin ToSet(s) => IsInjective(t)
    <2> SUFFICES ASSUME IsInjective(s), e \notin ToSet(s),
                        NEW j \in 1 .. Len(t), NEW k \in 1 .. Len(t), t[j] = t[k]
                 PROVE  j = k
      BY <1>1 DEF IsInjective
    <2>1. \A m \in 1 .. Len(s) : s[m] # e
      BY DEF ToSet
    <2>2. \A m, n \in 1 .. Len(s) : s[m] = s[n] => m = n
      BY DEF IsInjective
    <2> DEFINE old(m) == IF m < i THEN m ELSE m - 1
    <2>3. \A m \in 1 .. Len(t) : m # i => old(m) \in 1 .. Len(s) /\ t[m] = s[old(m)]
      BY <1>1
    <2>4. CASE j = i \/ k = i
      BY <1>1, <2>1, <2>3, <2>4
    <2>5. CASE j # i /\ k # i
      <3>1. old(j) = old(k)
        BY <2>2, <2>3, <2>5
      <3> QED BY <3>1, <2>5, <1>1
    <2> QED BY <2>4, <2>5
  <1> QED BY <1>2, <1>3, <1>4, <1>5 DEF t

\* getitem() takes exactly its argument off the list.
LEMMA WithoutProperties ==
    ASSUME NEW S, NEW s \in Seq(S), NEW e \in ToSet(s), IsInjective(s)
    PROVE  /\ Without(s, e) \in Seq(S)
           /\ Len(Without(s, e)) = Len(s) - 1
           /\ ToSet(Without(s, e)) = ToSet(s) \ {e}
           /\ IsInjective(Without(s, e))
  <1> DEFINE i == CHOOSE k \in 1 .. Len(s) : s[k] = e
             a == SubSeq(s, 1, i - 1)
             b == SubSeq(s, i + 1, Len(s))
             t == Without(s, e)
  <1>0. i \in 1 .. Len(s) /\ s[i] = e
    <2>1. \E k \in 1 .. Len(s) : s[k] = e
      BY DEF ToSet
    <2> QED BY <2>1
  <1> HIDE DEF i
  <1>1. /\ a \in Seq(S) /\ Len(a) = i - 1
        /\ \A j \in 1 .. i - 1 : a[j] = s[j]
    <2>1. \A j \in 1 .. i - 1 : s[j] \in S
      BY <1>0, ElementOfSeq
    <2> QED BY <1>0, <2>1, SubSeqProperties
  <1>2. /\ b \in Seq(S) /\ Len(b) = Len(s) - i
        /\ \A j \in 1 .. Len(s) - i : b[j] = s[i + j]
    <2>1. \A j \in i + 1 .. Len(s) : s[j] \in S
      BY <1>0, ElementOfSeq
    <2>2. /\ b \in Seq(S)
          /\ Len(b) = IF i + 1 <= Len(s) THEN Len(s) - (i + 1) + 1 ELSE 0
          /\ \A j \in 1 .. Len(s) - (i + 1) + 1 : b[j] = s[(i + 1) + j - 1]
      BY <1>0, <2>1, SubSeqProperties
    <2> QED BY <1>0, <2>2
  <1>3. t = a \o b
    BY DEF Without, RemoveAt, i
  <1> HIDE DEF a, b, t
  <1>4. /\ t \in Seq(S) /\ Len(t) = Len(s) - 1
        /\ \A j \in 1 .. Len(s) - 1 : t[j] = IF j < i THEN s[j] ELSE s[j + 1]
    <2>1. /\ a \o b \in Seq(S)
          /\ Len(a \o b) = Len(a) + Len(b)
          /\ \A j \in 1 .. Len(a) + Len(b) :
                (a \o b)[j] = IF j <= Len(a) THEN a[j] ELSE b[j - Len(a)]
      BY <1>1, <1>2, ConcatProperties
    <2>2. Len(t) = Len(s) - 1
      <3>1. Len(t) = Len(a) + Len(b)
        BY <2>1, <1>3
      <3>2. Len(s) \in Nat
        OBVIOUS
      <3> QED BY <3>1, <3>2, <1>0, <1>1, <1>2
    <2>3. ASSUME NEW j \in 1 .. Len(s) - 1, j < i PROVE t[j] = s[j]
      BY <2>1, <2>3, <1>0, <1>1, <1>2, <1>3
    <2>4. ASSUME NEW j \in 1 .. Len(s) - 1, ~(j < i) PROVE t[j] = s[j + 1]
      <3>1. /\ ~(j <= Len(a)) /\ j \in 1 .. Len(a) + Len(b)
            /\ j - Len(a) \in 1 .. Len(s) - i /\ i + (j - Len(a)) = j + 1
        BY <2>4, <1>0, <1>1, <1>2
      <3>2. t[j] = b[j - Len(a)]
        BY <2>1, <3>1, <1>3
      <3>3. b[j - Len(a)] = s[i + (j - Len(a))]
        BY <3>1, <1>2
      <3> QED BY <3>1, <3>2, <3>3
    <2> QED BY <2>1, <2>2, <2>3, <2>4, <1>3
  <1>5. \A m, n \in 1 .. Len(s) : s[m] = s[n] => m = n
    BY DEF IsInjective
  <1>6. ASSUME NEW x \in ToSet(s), x # e PROVE x \in ToSet(t)
    <2>1. PICK j \in 1 .. Len(s) : x = s[j]
      BY <1>6 DEF ToSet
    <2>2. j # i
      BY <1>0, <1>6, <2>1
    <2>3. \E k \in 1 .. Len(t) : t[k] = x
      <3>1. CASE j < i
        BY <1>0, <1>4, <2>1, <3>1
      <3>2. CASE j > i
        <4>1. j - 1 \in 1 .. Len(s) - 1 /\ ~(j - 1 < i) /\ (j - 1) + 1 = j
          BY <1>0, <3>2
        <4> QED BY <4>1, <1>4, <2>1
      <3> QED BY <1>0, <2>2, <3>1, <3>2
    <2> QED BY <2>3, <1>4 DEF ToSet
  <1>7. ASSUME NEW x \in ToSet(t) PROVE x \in ToSet(s) \ {e}
    <2>1. PICK j \in 1 .. Len(s) - 1 : x = t[j]
      BY <1>4, <1>7 DEF ToSet
    <2>2. \E k \in 1 .. Len(s) : x = s[k] /\ k # i
      BY <1>0, <1>4, <2>1
    <2> QED BY <2>2, <1>0, <1>5 DEF ToSet
  <1>8. IsInjective(t)
    <2> SUFFICES ASSUME NEW j \in 1 .. Len(t), NEW k \in 1 .. Len(t), t[j] = t[k]
                 PROVE  j = k
      BY <1>4 DEF IsInjective
    <2> QED BY <1>0, <1>4, <1>5
  <1> QED BY <1>4, <1>6, <1>7, <1>8 DEF t

\* getfirst() and dequeue() take the first entry off the list.
LEMMA TailElems ==
    ASSUME NEW S, NEW s \in Seq(S), s # <<>>, IsInjective(s)
    PROVE  /\ Head(s) \in ToSet(s)
           /\ ToSet(Tail(s)) = ToSet(s) \ {Head(s)}
           /\ IsInjective(Tail(s))
  <1>1. /\ Tail(s) \in Seq(S) /\ Len(Tail(s)) = Len(s) - 1
        /\ \A i \in 1 .. Len(Tail(s)) : Tail(s)[i] = s[i + 1]
    BY HeadTailProperties
  <1>2. Len(s) >= 1 /\ Head(s) = s[1]
    BY EmptySeq
  <1>3. \A m, n \in 1 .. Len(s) : s[m] = s[n] => m = n
    BY DEF IsInjective
  <1> DEFINE t == Tail(s)
  <1> HIDE DEF t
  <1>4. ASSUME NEW x \in ToSet(s), x # Head(s) PROVE x \in ToSet(t)
    <2>1. PICK j \in 1 .. Len(s) : x = s[j]
      BY <1>4 DEF ToSet
    <2>2. j - 1 \in 1 .. Len(t) /\ t[j - 1] = x
      BY <1>1, <1>2, <1>4, <2>1 DEF t
    <2>3. DOMAIN t = 1 .. Len(t)
      BY <1>1 DEF t
    <2> QED BY <2>2, <2>3 DEF ToSet
  <1>5. ASSUME NEW x \in ToSet(t) PROVE x \in ToSet(s) \ {Head(s)}
    <2>1. PICK j \in 1 .. Len(s) - 1 : x = s[j + 1]
      BY <1>1, <1>5 DEF ToSet, t
    <2>2. j + 1 \in 1 .. Len(s) /\ j + 1 # 1
      BY <1>1
    <2> QED BY <2>1, <2>2, <1>2, <1>3 DEF ToSet
  <1>6. IsInjective(t)
    <2> SUFFICES ASSUME NEW j \in 1 .. Len(t), NEW k \in 1 .. Len(t), t[j] = t[k]
                 PROVE  j = k
      BY <1>1 DEF IsInjective, t
    <2> QED BY <1>1, <1>3 DEF t
  <1>7. Head(s) \in ToSet(s)
    BY <1>2 DEF ToSet
  <1> QED BY <1>4, <1>5, <1>6, <1>7 DEF t

\* enqueue() puts the entry behind all others.
LEMMA AppendElems ==
    ASSUME NEW S, NEW s \in Seq(S), NEW e \in S
    PROVE  /\ ToSet(Append(s, e)) = ToSet(s) \union {e}
           /\ IsInjective(s) /\ e \notin ToSet(s) => IsInjective(Append(s, e))
  <1> DEFINE t == Append(s, e)
  <1>1. /\ t \in Seq(S) /\ Len(t) = Len(s) + 1
        /\ \A j \in 1 .. Len(s) : t[j] = s[j]
        /\ t[Len(s) + 1] = e
    BY AppendProperties
  <1> HIDE DEF t
  <1>2. ToSet(t) = ToSet(s) \union {e}
    <2>1. DOMAIN t = DOMAIN s \union {Len(s) + 1}
      BY <1>1
    <2> QED BY <1>1, <2>1 DEF ToSet
  <1>3. IsInjective(s) /\ e \notin ToSet(s) => IsInjective(t)
    <2> SUFFICES ASSUME IsInjective(s), e \notin ToSet(s),
                        NEW j \in 1 .. Len(t), NEW k \in 1 .. Len(t), t[j] = t[k]
                 PROVE  j = k
      BY <1>1 DEF IsInjective
    <2>1. \A m \in 1 .. Len(s) : s[m] # e
      BY DEF ToSet
    <2>2. \A m, n \in 1 .. Len(s) : s[m] = s[n] => m = n
      BY DEF IsInjective
    <2> QED BY <1>1, <2>1, <2>2
  <1> QED BY <1>2, <1>3 DEF t

\* The four list operations in terms of the set of entries: insert() and
\* insertd(), getitem(), dequeue(), enqueue().
LEMMA ListInsert ==
    ASSUME NEW P, NEW s \in Seq(P), NEW S, IsListOf(s, S),
           NEW e \in P \ S, NEW i \in 1 .. Len(s) + 1
    PROVE  /\ InsertAt(s, i, e) \in Seq(P)
           /\ Len(InsertAt(s, i, e)) = Len(s) + 1
           /\ IsListOf(InsertAt(s, i, e), S \union {e})
  <1>1. e \in P /\ e \notin ToSet(s) /\ IsInjective(s) /\ S = ToSet(s)
    BY DEF IsListOf
  <1>2. InsertAt(s, i, e) \in Seq(P) /\ Len(InsertAt(s, i, e)) = Len(s) + 1
    BY <1>1, InsertAtIsSeq
  <1>3. ToSet(InsertAt(s, i, e)) = ToSet(s) \union {e}
    BY <1>1, <1>2, InsertAtElems
  <1>4. IsInjective(InsertAt(s, i, e))
    BY <1>1, <1>2, InsertAtElems
  <1> QED BY <1>1, <1>2, <1>3, <1>4 DEF IsListOf

LEMMA ListRemove ==
    ASSUME NEW P, NEW s \in Seq(P), NEW S, IsListOf(s, S), NEW e \in S
    PROVE  /\ Without(s, e) \in Seq(P)
           /\ Len(Without(s, e)) = Len(s) - 1
           /\ IsListOf(Without(s, e), S \ {e})
  BY WithoutProperties, Zenon DEF IsListOf

LEMMA ListTail ==
    ASSUME NEW P, NEW s \in Seq(P), NEW S, IsListOf(s, S), s # <<>>
    PROVE  /\ Head(s) \in S /\ Head(s) \in P
           /\ Tail(s) \in Seq(P)
           /\ Len(Tail(s)) = Len(s) - 1
           /\ IsListOf(Tail(s), S \ {Head(s)})
  <1>1. Tail(s) \in Seq(P) /\ Len(Tail(s)) = Len(s) - 1 /\ Head(s) \in P
    BY HeadTailProperties
  <1> QED BY <1>1, TailElems, Zenon DEF IsListOf

LEMMA ListAppend ==
    ASSUME NEW P, NEW s \in Seq(P), NEW S, IsListOf(s, S), NEW e \in P \ S
    PROVE  /\ Append(s, e) \in Seq(P)
           /\ Len(Append(s, e)) = Len(s) + 1
           /\ IsListOf(Append(s, e), S \union {e})
  <1>1. Append(s, e) \in Seq(P) /\ Len(Append(s, e)) = Len(s) + 1
    BY AppendProperties
  <1>2. e \in P /\ e \notin ToSet(s) /\ IsInjective(s) /\ S = ToSet(s)
    BY DEF IsListOf
  <1>3. ToSet(Append(s, e)) = ToSet(s) \union {e}
    BY <1>1, <1>2, AppendElems
  <1>4. IsInjective(Append(s, e))
    BY <1>1, <1>2, AppendElems
  <1> QED BY <1>1, <1>2, <1>3, <1>4 DEF IsListOf
=============================================================================
