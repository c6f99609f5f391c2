------------------------ MODULE OrderedKeysTheorems ------------------------
(***************************************************************************)
(* What the operators of OrderedKeys preserve: the lemmas that the proofs  *)
(* about the maps of the server rest on.                                   *)
(***************************************************************************)
EXTENDS OrderedKeys, SequenceTheorems, TLAPS

\* slices.Delete shifts what follows the removed place by one.
LEMMA RemoveAtProperties ==
  ASSUME NEW S, NEW s \in Seq(S), NEW i \in 1..Len(s)
  PROVE  /\ RemoveAt(s, i) \in Seq(S)
         /\ Len(RemoveAt(s, i)) = Len(s) - 1
         /\ \A j \in 1..Len(s) - 1 :
              RemoveAt(s, i)[j] = IF j < i THEN s[j] ELSE s[j + 1]
<1> DEFINE a == SubSeq(s, 1, i - 1)
           b == SubSeq(s, i + 1, Len(s))
<1>1. /\ a \in Seq(S) /\ Len(a) = i - 1
      /\ \A j \in 1..i - 1 : a[j] = s[j]
  <2>1. \A j \in 1..i - 1 : s[j] \in S
    BY ElementOfSeq
  <2> QED  BY <2>1, SubSeqProperties
<1>2. /\ b \in Seq(S) /\ Len(b) = Len(s) - i
      /\ \A j \in 1..Len(s) - i : b[j] = s[i + j]
  <2>1. \A j \in i + 1..Len(s) : s[j] \in S
    BY ElementOfSeq
  <2> QED  BY <2>1, SubSeqProperties
<1>3. /\ a \o b \in Seq(S)
      /\ Len(a \o b) = Len(s) - 1
      /\ \A j \in 1..Len(s) - 1 :
           (a \o b)[j] = IF j <= i - 1 THEN a[j] ELSE b[j - (i - 1)]
  <2> HIDE DEF a, b
  <2>1. Len(s) \in Nat
    BY LenProperties
  <2>2. /\ a \o b \in Seq(S)
        /\ Len(a \o b) = Len(a) + Len(b)
        /\ \A j \in 1..Len(a) + Len(b) :
             (a \o b)[j] = IF j <= Len(a) THEN a[j] ELSE b[j - Len(a)]
    BY <1>1, <1>2, ConcatProperties
  <2>3. Len(a) = i - 1 /\ Len(a) + Len(b) = Len(s) - 1
    BY <1>1, <1>2, <2>1
  <2> QED  BY <2>2, <2>3
<1>4. RemoveAt(s, i) = a \o b
  BY DEF RemoveAt
<1>5. ASSUME NEW j \in 1..Len(s) - 1
      PROVE  (a \o b)[j] = IF j < i THEN s[j] ELSE s[j + 1]
  <2> HIDE DEF a, b
  <2>1. CASE j < i
    BY <1>1, <1>3, <2>1
  <2>2. CASE j >= i
    <3>1. b[j - (i - 1)] = s[i + (j - (i - 1))]
      BY <1>2, <2>2
    <3>2. i + (j - (i - 1)) = j + 1
      OBVIOUS
    <3> QED  BY <1>3, <2>2, <3>1, <3>2
  <2>3. j < i \/ j >= i
    BY LenProperties
  <2> QED  BY <2>1, <2>2, <2>3
<1> QED  BY <1>3, <1>4, <1>5

\* A key that occurs has a place.
LEMMA PositionProperties ==
  ASSUME NEW S, NEW s \in Seq(S), NEW k \in Range(s)
  PROVE  /\ Position(s, k) \in 1..Len(s)
         /\ s[Position(s, k)] = k
<1>1. \E i \in DOMAIN s : s[i] = k
  BY DEF Range
<1>2. Position(s, k) \in DOMAIN s /\ s[Position(s, k)] = k
  BY <1>1 DEF Position
<1> QED  BY <1>2, LenProperties

\* A sequence without elements is the empty one.
LEMMA EmptyRange ==
  ASSUME NEW S, NEW s \in Seq(S)
  PROVE  s = <<>> <=> Range(s) = {}
<1>1. DOMAIN s = 1..Len(s) /\ Len(s) \in Nat
  BY LenProperties
<1>2. CASE s = <<>>
  <2>1. Len(s) = 0
    BY <1>2, EmptySeq
  <2> QED  BY <1>1, <1>2, <2>1 DEF Range
<1>3. CASE s # <<>>
  <2>1. 1 \in DOMAIN s
    BY <1>1, <1>3, EmptySeq
  <2> QED  BY <1>3, <2>1 DEF Range
<1> QED  BY <1>2, <1>3

\* What is in a sequence is its first element or in the rest.
LEMMA HeadTailRange ==
  ASSUME NEW S, NEW s \in Seq(S), s # <<>>
  PROVE  /\ Head(s) \in S /\ Head(s) \in Range(s)
         /\ Range(Tail(s)) \subseteq Range(s)
         /\ \A x \in Range(s) : x = Head(s) \/ x \in Range(Tail(s))
<1>1. /\ Len(s) \in Nat \ {0} /\ DOMAIN s = 1..Len(s)
      /\ Head(s) = s[1] /\ Head(s) \in S
  BY LenProperties
<1>2. /\ DOMAIN Tail(s) = 1..Len(s) - 1
      /\ \A i \in 1..Len(s) - 1 : Tail(s)[i] = s[i + 1]
  BY <1>1
<1>3. Range(Tail(s)) \subseteq Range(s)
  BY <1>1, <1>2 DEF Range
<1>4. ASSUME NEW i \in 1..Len(s), i # 1 PROVE s[i] \in Range(Tail(s))
  <2>1. i - 1 \in 1..Len(s) - 1 /\ s[i] = Tail(s)[i - 1]
    BY <1>1, <1>2, <1>4
  <2> QED  BY <1>2, <2>1 DEF Range
<1> QED  BY <1>1, <1>3, <1>4 DEF Range

\* store keeps the keys distinct and adds the key, whether it was there or not.
LEMMA WithKeyProperties ==
  ASSUME NEW S, NEW s \in Seq(S), NEW k \in S, IsInjective(s)
  PROVE  /\ WithKey(s, k) \in Seq(S)
         /\ IsInjective(WithKey(s, k))
         /\ Range(WithKey(s, k)) = Range(s) \cup {k}
         /\ WithKey(s, k) # <<>>
<1>1. CASE k \in Range(s)
  <2>1. WithKey(s, k) = s
    BY <1>1 DEF WithKey
  <2>2. s # <<>>
    BY <1>1 DEF Range
  <2> QED  BY <1>1, <2>1, <2>2
<1>2. CASE k \notin Range(s)
  <2> DEFINE t == Append(s, k)
  <2>1. WithKey(s, k) = t
    BY <1>2 DEF WithKey
  <2>2. /\ t \in Seq(S)
        /\ DOMAIN t = 1..Len(s) + 1
        /\ \A i \in 1..Len(s) : t[i] = s[i]
        /\ t[Len(s) + 1] = k
    OBVIOUS
  <2>3. \A i \in 1..Len(s) : s[i] # k
    BY <1>2, LenProperties DEF Range
  <2>4. IsInjective(t)
    BY <2>2, <2>3, LenProperties DEF IsInjective
  <2>5. Range(t) = Range(s) \cup {k}
    BY <2>2, LenProperties DEF Range
  <2>6. t # <<>>
    BY <2>2, <2>5, EmptyRange
  <2> QED  BY <2>1, <2>2, <2>4, <2>5, <2>6
<1> QED  BY <1>1, <1>2

\* Delete keeps the keys distinct and takes out the key, and no other.
LEMMA WithoutKeyProperties ==
  ASSUME NEW S, NEW s \in Seq(S), NEW k, IsInjective(s)
  PROVE  /\ WithoutKey(s, k) \in Seq(S)
         /\ IsInjective(WithoutKey(s, k))
         /\ Range(WithoutKey(s, k)) = Range(s) \ {k}
<1>1. CASE k \notin Range(s)
  BY <1>1 DEF WithoutKey
<1>2. CASE k \in Range(s)
  <2> DEFINE i == Position(s, k)
             t == RemoveAt(s, i)
  <2>1. i \in 1..Len(s) /\ s[i] = k
    BY <1>2, PositionProperties
  <2> HIDE DEF i
  <2>2. /\ t \in Seq(S)
        /\ Len(t) = Len(s) - 1
        /\ \A j \in 1..Len(s) - 1 : t[j] = IF j < i THEN s[j] ELSE s[j + 1]
    BY <2>1, RemoveAtProperties
  <2>3. WithoutKey(s, k) = t
    BY <1>2 DEF WithoutKey, i
  <2> HIDE DEF t
  <2>4. DOMAIN t = 1..Len(s) - 1 /\ DOMAIN s = 1..Len(s) /\ Len(s) \in Nat
    BY <2>2, LenProperties
  <2>5. IsInjective(t)
    BY <2>1, <2>2, <2>4 DEF IsInjective
  <2>6. ASSUME NEW x \in Range(t)  PROVE x \in Range(s) \ {k}
    BY <2>1, <2>2, <2>4 DEF Range, IsInjective
  <2>7. ASSUME NEW x \in Range(s) \ {k}  PROVE x \in Range(t)
    <3>1. PICK j \in 1..Len(s) : s[j] = x
      BY <2>4 DEF Range
    <3>2. CASE j < i
      BY <2>1, <2>2, <2>4, <3>1, <3>2 DEF Range
    <3>3. CASE j > i
      <4>1. j - 1 \in 1..Len(s) - 1 /\ t[j - 1] = s[j]
        BY <2>1, <2>2, <2>4, <3>3
      <4> QED  BY <2>4, <3>1, <4>1 DEF Range
    <3> QED  BY <2>1, <2>4, <3>1, <3>2, <3>3
  <2> QED  BY <2>2, <2>3, <2>5, <2>6, <2>7
<1> QED  BY <1>1, <1>2

=============================================================================
