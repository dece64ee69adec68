--------------------------- MODULE SequenceProofs ---------------------------
(***************************************************************************)
(* What the other proofs need of sequences and of numbers in them.         *)
(***************************************************************************)
EXTENDS SequencesExt, Folding, FiniteSetTheorems, SequenceTheorems, TLAPS

-----------------------------------------------------------------------------
(* Sequences, without saying of what.                                      *)

IsSeq(s) == s \in Seq(Range(s))

LEMMA SeqIsSeq ==
  ASSUME NEW S, NEW s \in Seq(S)
  PROVE  IsSeq(s) /\ Range(s) \subseteq S /\ Len(s) \in Nat /\ DOMAIN s = 1..Len(s)
  <1>1. s \in [1..Len(s) -> S] /\ DOMAIN s = 1..Len(s) /\ Len(s) \in Nat
    BY LenProperties
  <1>2. s \in [1..Len(s) -> Range(s)]
    BY <1>1 DEF Range
  <1>3. s \in Seq(Range(s))
    BY <1>1, <1>2
  <1> QED BY <1>1, <1>3 DEF IsSeq, Range
LEMMA SeqFacts ==
  ASSUME NEW s, IsSeq(s)
  PROVE  Len(s) \in Nat /\ DOMAIN s = 1..Len(s) /\ \A i \in 1..Len(s) : s[i] \in Range(s)
  BY LenProperties DEF IsSeq, Range
LEMMA EmptyIsSeq == IsSeq(<<>>) /\ Range(<<>>) = {} /\ Len(<<>>) = 0
  BY DEF IsSeq, Range
LEMMA AppendIsSeq ==
  ASSUME NEW s, IsSeq(s), NEW x
  PROVE  /\ IsSeq(Append(s, x)) /\ Range(Append(s, x)) = Range(s) \cup {x}
         /\ Len(Append(s, x)) = Len(s) + 1 /\ Append(s, x)[Len(s) + 1] = x
         /\ \A i \in 1..Len(s) : Append(s, x)[i] = s[i]
  <1> DEFINE S == Range(s) \cup {x}
             t == Append(s, x)
  <1>1. s \in Seq(S)
    BY SeqMonotonic DEF IsSeq
  <1>2. /\ t \in Seq(S) /\ Len(t) = Len(s) + 1 /\ t[Len(s) + 1] = x
        /\ \A i \in 1..Len(s) : t[i] = s[i]
    BY <1>1, AppendProperties
  <1>3. IsSeq(t) /\ DOMAIN t = 1..Len(t) /\ Range(t) \subseteq S
    BY <1>2, SeqIsSeq
  <1>4. Len(s) \in Nat /\ DOMAIN s = 1..Len(s)
    BY SeqFacts
  <1>5. S \subseteq Range(t)
    BY <1>2, <1>3, <1>4 DEF Range
  <1> QED BY <1>2, <1>3, <1>5
LEMMA ExceptIsSeq ==
  ASSUME NEW s, IsSeq(s), NEW i, NEW e
  PROVE  LET t == [s EXCEPT ![i] = e]
         IN  /\ IsSeq(t) /\ Range(t) \subseteq Range(s) \cup {e} /\ Len(t) = Len(s)
             /\ \A j \in 1..Len(s) : t[j] = IF j = i THEN e ELSE s[j]
  <1> DEFINE S == Range(s) \cup {e}
             t == [s EXCEPT ![i] = e]
  <1>1. s \in Seq(S)
    BY SeqMonotonic DEF IsSeq
  <1>2. Len(s) \in Nat /\ s \in [1..Len(s) -> S]
    BY <1>1, LenProperties
  <1>3. t \in [1..Len(s) -> S] /\ \A j \in 1..Len(s) : t[j] = IF j = i THEN e ELSE s[j]
    BY <1>2
  <1>4. t \in Seq(S) /\ Len(t) = Len(s)
    BY <1>2, <1>3
  <1> QED BY <1>3, <1>4, SeqIsSeq
LEMMA ConcatIsSeq ==
  ASSUME NEW s, IsSeq(s), NEW t, IsSeq(t)
  PROVE  IsSeq(s \o t) /\ Range(s \o t) \subseteq Range(s) \cup Range(t)
  <1> DEFINE S == Range(s) \cup Range(t)
  <1>1. s \in Seq(S) /\ t \in Seq(S)
    BY SeqMonotonic DEF IsSeq
  <1>2. s \o t \in Seq(S)
    BY <1>1, ConcatProperties
  <1> QED BY <1>2, SeqIsSeq
LEMMA SubSeqIsSeq ==
  ASSUME NEW s, IsSeq(s), NEW m \in Nat, m >= 1, NEW n \in Int, n <= Len(s)
  PROVE  IsSeq(SubSeq(s, m, n)) /\ Range(SubSeq(s, m, n)) \subseteq Range(s)
  <1>1. \A i \in m..n : s[i] \in Range(s)
    BY SeqFacts
  <1>2. SubSeq(s, m, n) \in Seq(Range(s))
    BY <1>1, SubSeqProperties
  <1> QED BY <1>2, SeqIsSeq
LEMMA RangeFinite ==
  ASSUME NEW s, IsSeq(s)
  PROVE  IsFiniteSet(Range(s))
  <1>1. Len(s) \in Nat /\ DOMAIN s = 1..Len(s) /\ s \in [1..Len(s) -> Range(s)]
    BY LenProperties DEF IsSeq
  <1>2. s \in Surjection(1..Len(s), Range(s))
    BY <1>1 DEF Surjection, Range
  <1> QED BY <1>1, <1>2, FS_NatSurjection DEF ExistsSurjection
LEMMA FoundAt ==
  ASSUME NEW s, IsSeq(s), NEW x \in Range(s)
  PROVE  \E i \in 1..Len(s) : s[i] = x
  BY SeqFacts DEF Range
LEMMA ConcatAppend ==
  ASSUME NEW r, IsSeq(r), NEW s, IsSeq(s), NEW x
  PROVE  r \o Append(s, x) = Append(r \o s, x)
  <1> DEFINE S == Range(r) \cup Range(s) \cup {x}
  <1>1. r \in Seq(S) /\ s \in Seq(S) /\ x \in S
    BY SeqMonotonic DEF IsSeq
  <1> HIDE DEF S
  <1> QED BY <1>1
LEMMA ConcatThree ==
  ASSUME NEW r, IsSeq(r), NEW s, IsSeq(s), NEW t, IsSeq(t)
  PROVE  (r \o s) \o t = r \o (s \o t)
  <1> DEFINE S == Range(r) \cup Range(s) \cup Range(t)
  <1>1. r \in Seq(S) /\ s \in Seq(S) /\ t \in Seq(S)
    BY SeqMonotonic DEF IsSeq
  <1> HIDE DEF S
  <1> QED BY <1>1
LEMMA ConcatMoved ==
  ASSUME NEW r, IsSeq(r), NEW s, IsSeq(s), NEW t, IsSeq(t), NEW x, x = s \o t
  PROVE  r \o x = (r \o s) \o t
  BY ConcatThree
LEMMA ConcatParts ==
  ASSUME NEW r, IsSeq(r), NEW s, IsSeq(s)
  PROVE  /\ IsSeq(r \o s) /\ Range(r \o s) = Range(r) \cup Range(s)
         /\ Len(r \o s) = Len(r) + Len(s) /\ Len(r) \in Nat /\ Len(s) \in Nat
         /\ \A i \in 1..(Len(r) + Len(s)) :
              (r \o s)[i] = IF i <= Len(r) THEN r[i] ELSE s[i - Len(r)]
  <1> DEFINE S == Range(r) \cup Range(s)
             t == r \o s
  <1>1. r \in Seq(S) /\ s \in Seq(S)
    BY SeqMonotonic DEF IsSeq
  <1>2. IsSeq(t) /\ Range(t) \subseteq S /\ DOMAIN t = 1..Len(t)
    BY ConcatIsSeq, SeqFacts
  <1>3. Len(r) \in Nat /\ Len(s) \in Nat /\ DOMAIN r = 1..Len(r) /\ DOMAIN s = 1..Len(s)
    BY SeqFacts
  <1>4. /\ Len(t) = Len(r) + Len(s)
        /\ \A i \in 1..(Len(r) + Len(s)) : t[i] = IF i <= Len(r) THEN r[i] ELSE s[i - Len(r)]
    <2> HIDE DEF S
    <2> QED BY <1>1, ConcatProperties
  <1>5. S \subseteq Range(t)
    <2>1. \A i \in 1..Len(r) : i \in 1..(Len(r) + Len(s)) /\ t[i] = r[i]
      BY <1>3, <1>4
    <2>2. \A i \in 1..Len(s) : i + Len(r) \in 1..(Len(r) + Len(s)) /\ t[i + Len(r)] = s[i]
      BY <1>3, <1>4
    <2> HIDE DEF t
    <2>3. \A x \in Range(r) : x \in Range(t)
      BY <1>2, <1>3, <1>4, <2>1, FoundAt, SeqFacts
    <2>4. \A x \in Range(s) : x \in Range(t)
      BY <1>2, <1>3, <1>4, <2>2, FoundAt, SeqFacts
    <2> QED BY <2>3, <2>4
  <1> QED BY <1>2, <1>3, <1>4, <1>5
LEMMA ConcatRange ==
  ASSUME NEW r, IsSeq(r), NEW s, IsSeq(s)
  PROVE  IsSeq(r \o s) /\ Range(r \o s) = Range(r) \cup Range(s)
  BY ConcatParts

-----------------------------------------------------------------------------
(* The least and the greatest.                                             *)

Numbers == INSTANCE FoldProofs WITH Op <- LAMBDA c, r, x : r, Holds <- LAMBDA c, r : TRUE

LEMMA MaxOfFinite ==
  ASSUME NEW S, IsFiniteSet(S), S \subseteq Int, S # {}
  PROVE  Max(S) \in S /\ \A y \in S : Max(S) >= y
  <1> DEFINE HasMax(T) == \E x \in T : \A y \in T : x >= y
             Bad(n) == \E T : T \subseteq Int /\ IsFiniteSet(T) /\ T # {} /\ Cardinality(T) = n /\ ~ HasMax(T)
             B == {n \in Nat : Bad(n)}
  <1>1. B = {}
    <2> SUFFICES ASSUME B # {} PROVE FALSE
      OBVIOUS
    <2>1. PICK n \in B : \A m \in B : n <= m
      <3>1. B \subseteq Nat
        OBVIOUS
      <3> HIDE DEF B
      <3> QED BY <3>1, Numbers!LeastNat
    <2>2. n \in Nat /\ Bad(n)
      OBVIOUS
    <2>3. PICK T : T \subseteq Int /\ IsFiniteSet(T) /\ T # {} /\ Cardinality(T) = n /\ ~ HasMax(T)
      BY <2>2
    <2>4. PICK x : x \in T
      BY <2>3
    <2> DEFINE U == T \ {x}
    <2>5. IsFiniteSet(U) /\ Cardinality(U) = n - 1 /\ Cardinality(U) \in Nat
      BY <2>3, <2>4, FS_RemoveElement, FS_CardinalityType
    <2>6. U # {}
      BY <2>3, <2>4
    <2>7. HasMax(U)
      <3>1. n - 1 \notin B
        BY <2>1, <2>2, <2>5
      <3> QED BY <2>3, <2>5, <2>6, <3>1
    <2>8. PICK u \in U : \A y \in U : u >= y
      BY <2>7
    <2> QED BY <2>3, <2>4, <2>8
  <1>2. Cardinality(S) \in Nat
    BY FS_CardinalityType
  <1>3. HasMax(S)
    BY <1>1, <1>2
  <1> QED BY <1>3 DEF Max
LEMMA MinOfNat ==
  ASSUME NEW S, S \subseteq Nat, S # {}
  PROVE  Min(S) \in S /\ \A y \in S : Min(S) <= y
  <1>1. \E x \in S : \A y \in S : x <= y
    BY Numbers!LeastNat
  <1> QED BY <1>1 DEF Min
LEMMA ImageFinite ==
  ASSUME NEW I, IsFiniteSet(I), NEW f
  PROVE  IsFiniteSet({f[i] : i \in I})
  <1> DEFINE T == {f[i] : i \in I}
             g == [i \in I |-> f[i]]
  <1>1. g \in Surjection(I, T)
    BY DEF Surjection
  <1> HIDE DEF g, T
  <1>2. IsFiniteSet(T)
    BY <1>1, FS_Surjection
  <1> QED BY <1>2 DEF T
LEMMA MinOfFinite ==
  ASSUME NEW S, IsFiniteSet(S), S \subseteq Int, S # {}
  PROVE  Min(S) \in S /\ \A y \in S : Min(S) <= y
  <1> DEFINE f == [x \in S |-> 0 - x]
             N == {f[x] : x \in S}
  <1>1. IsFiniteSet(N)
    <2> HIDE DEF f
    <2> QED BY ImageFinite
  <1>2. N \subseteq Int /\ N # {} /\ \A x \in S : 0 - x \in N
    <2>1. \A x \in S : f[x] = 0 - x /\ f[x] \in Int
      OBVIOUS
    <2> HIDE DEF f
    <2> QED BY <2>1
  <1>3. Max(N) \in N /\ \A y \in N : Max(N) >= y
    <2> HIDE DEF N
    <2> QED BY <1>1, <1>2, MaxOfFinite
  <1>4. PICK x \in S : 0 - x = Max(N)
    BY <1>3
  <1>5. \A y \in S : x <= y
    <2> HIDE DEF N
    <2>1. ASSUME NEW y \in S PROVE x <= y
      <3>1. Max(N) >= 0 - y
        BY <1>2, <1>3
      <3>2. x \in Int /\ y \in Int
        OBVIOUS
      <3> QED BY <1>4, <3>1, <3>2
    <2> QED BY <2>1
  <1> QED BY <1>5 DEF Min
LEMMA MaxOfTwo ==
  ASSUME NEW x \in Int, NEW y \in Int
  PROVE  Max({x, y}) = IF x >= y THEN x ELSE y
  <1> DEFINE S == {x, y}
             top == IF x >= y THEN x ELSE y
  <1>1. top \in S /\ \A v \in S : top >= v
    OBVIOUS
  <1>2. \A u \in S : (\A v \in S : u >= v) => u = top
    OBVIOUS
  <1> HIDE DEF S, top
  <1>3. Max(S) = top
    BY <1>1, <1>2 DEF Max
  <1> QED BY <1>3 DEF S, top

-----------------------------------------------------------------------------
(* Insertion.                                                              *)

LEMMA LastOf ==
  ASSUME NEW s, IsSeq(s), NEW T, T \subseteq DOMAIN s
  PROVE  Max({0} \cup T) \in 0..Len(s)
  <1> DEFINE S == {0} \cup T
  <1>1. Len(s) \in Nat /\ S \subseteq 0..Len(s) /\ S # {}
    BY SeqFacts
  <1> HIDE DEF S
  <1>2. IsFiniteSet(S) /\ S \subseteq Int
    <2>1. IsFiniteSet(0..Len(s)) /\ S \in SUBSET (0..Len(s))
      BY <1>1, FS_Interval
    <2>2. IsFiniteSet(S)
      BY <2>1, FS_Subset
    <2> QED BY <1>1, <2>2
  <1>3. Max(S) \in S
    BY <1>1, <1>2, MaxOfFinite
  <1> QED BY <1>1, <1>3 DEF S
LEMMA InsertIsSeq ==
  ASSUME NEW s, IsSeq(s), NEW k \in 0..Len(s), NEW x
  PROVE  IsSeq(InsertAt(s, k + 1, x)) /\ Range(InsertAt(s, k + 1, x)) \subseteq Range(s) \cup {x}
  <1> DEFINE left == SubSeq(s, 1, k)
             right == SubSeq(s, k + 1, Len(s))
  <1>1. Len(s) \in Nat
    BY SeqFacts
  <1>2. IsSeq(left) /\ Range(left) \subseteq Range(s)
    BY <1>1, SubSeqIsSeq
  <1>3. IsSeq(right) /\ Range(right) \subseteq Range(s)
    BY <1>1, SubSeqIsSeq
  <1>4. IsSeq(<<x>>) /\ Range(<<x>>) = {x}
    BY DEF IsSeq, Range
  <1>5. InsertAt(s, k + 1, x) = left \o <<x>> \o right
    <2>1. InsertAt(s, k + 1, x) = SubSeq(s, 1, (k + 1) - 1) \o <<x>> \o SubSeq(s, k + 1, Len(s))
      BY Zenon DEF InsertAt
    <2>2. (k + 1) - 1 = k
      OBVIOUS
    <2> QED BY <2>1, <2>2
  <1> HIDE DEF left, right
  <1>6. IsSeq(left \o <<x>>) /\ Range(left \o <<x>>) \subseteq Range(s) \cup {x}
    BY <1>2, <1>4, ConcatIsSeq
  <1>7. IsSeq(left \o <<x>> \o right) /\ Range(left \o <<x>> \o right) \subseteq Range(s) \cup {x}
    BY <1>3, <1>6, ConcatIsSeq
  <1> QED BY <1>5, <1>7

(* Where the parts of a sequence are once an element is inserted.          *)
LEMMA InsertParts ==
  ASSUME NEW s, IsSeq(s), NEW k \in 0..Len(s), NEW x
  PROVE  LET t == InsertAt(s, k + 1, x)
         IN  /\ IsSeq(t) /\ Len(t) = Len(s) + 1 /\ t[k + 1] = x
             /\ \A i \in 1..k : t[i] = s[i]
             /\ \A i \in (k + 2)..(Len(s) + 1) : t[i] = s[i - 1]
  <1> DEFINE left == SubSeq(s, 1, k)
             right == SubSeq(s, k + 1, Len(s))
             front == left \o <<x>>
             t == InsertAt(s, k + 1, x)
  <1>1. Len(s) \in Nat /\ \A i \in 1..Len(s) : s[i] \in Range(s)
    BY SeqFacts
  <1>2. t = front \o right
    <2>1. t = SubSeq(s, 1, (k + 1) - 1) \o <<x>> \o SubSeq(s, k + 1, Len(s))
      BY Zenon DEF InsertAt
    <2>2. (k + 1) - 1 = k
      OBVIOUS
    <2> QED BY <2>1, <2>2
  <1>3. IsSeq(left) /\ IsSeq(right) /\ IsSeq(<<x>>) /\ Len(<<x>>) = 1 /\ <<x>>[1] = x
    <2>1. IsSeq(left) /\ IsSeq(right)
      BY <1>1, SubSeqIsSeq
    <2>2. IsSeq(<<x>>)
      BY DEF IsSeq, Range
    <2> QED BY <2>1, <2>2
  <1>4. Len(left) = k /\ \A i \in 1..k : left[i] = s[i]
    <2>1. s \in Seq(Range(s))
      BY DEF IsSeq
    <2> QED BY <1>1, <2>1
  <1>5. Len(right) = Len(s) - k /\ \A i \in 1..(Len(s) - k) : right[i] = s[k + i]
    <2>1. \A i \in (k + 1)..Len(s) : s[i] \in Range(s)
      BY <1>1
    <2>2. /\ Len(right) = IF k + 1 <= Len(s) THEN Len(s) - (k + 1) + 1 ELSE 0
          /\ \A i \in 1..(Len(s) - (k + 1) + 1) : right[i] = s[(k + 1) + i - 1]
      BY <1>1, <2>1, SubSeqProperties
    <2> HIDE DEF right
    <2>3. ASSUME NEW i \in 1..(Len(s) - k) PROVE right[i] = s[k + i]
      <3>1. i \in 1..(Len(s) - (k + 1) + 1) /\ (k + 1) + i - 1 = k + i
        BY <1>1
      <3> QED BY <2>2, <3>1
    <2> QED BY <1>1, <2>2, <2>3
  <1> HIDE DEF left, right
  <1>6. /\ IsSeq(front) /\ Len(front) = k + 1 /\ front[k + 1] = x
        /\ \A i \in 1..k : front[i] = s[i]
    <2>1. /\ IsSeq(front) /\ Len(front) = k + 1
          /\ \A i \in 1..(k + 1) : front[i] = IF i <= k THEN left[i] ELSE <<x>>[i - k]
      BY <1>3, <1>4, ConcatParts
    <2> HIDE DEF front
    <2>2. front[k + 1] = <<x>>[1]
      <3>1. k + 1 \in 1..(k + 1) /\ ~(k + 1 <= k) /\ (k + 1) - k = 1
        OBVIOUS
      <3> QED BY <2>1, <3>1
    <2>3. \A i \in 1..k : i \in 1..(k + 1) /\ i <= k
      OBVIOUS
    <2> QED BY <1>3, <1>4, <2>1, <2>2, <2>3
  <1> HIDE DEF front
  <1>7. /\ IsSeq(t) /\ Len(t) = (k + 1) + (Len(s) - k)
        /\ \A i \in 1..((k + 1) + (Len(s) - k)) : t[i] = IF i <= k + 1 THEN front[i] ELSE right[i - (k + 1)]
    <2>1. /\ IsSeq(front \o right) /\ Len(front \o right) = Len(front) + Len(right)
          /\ \A i \in 1..(Len(front) + Len(right)) :
               (front \o right)[i] = IF i <= Len(front) THEN front[i] ELSE right[i - Len(front)]
      BY <1>3, <1>6, ConcatParts
    <2>2. Len(front) = k + 1 /\ Len(right) = Len(s) - k
      BY <1>5, <1>6
    <2> HIDE DEF t
    <2> QED BY <1>2, <2>1, <2>2
  <1> HIDE DEF t
  <1>8. (k + 1) + (Len(s) - k) = Len(s) + 1
    BY <1>1
  <1>9. \A i \in 1..k : t[i] = s[i]
    <2>1. \A i \in 1..k : i \in 1..(Len(s) + 1) /\ i <= k + 1
      BY <1>1
    <2> QED BY <1>6, <1>7, <1>8, <2>1
  <1>10. t[k + 1] = x
    <2>1. k + 1 \in 1..(Len(s) + 1) /\ k + 1 <= k + 1
      BY <1>1
    <2> QED BY <1>6, <1>7, <1>8, <2>1
  <1>11. ASSUME NEW i \in (k + 2)..(Len(s) + 1) PROVE t[i] = s[i - 1]
    <2>1. /\ i \in 1..(Len(s) + 1) /\ ~(i <= k + 1) /\ i - (k + 1) \in 1..(Len(s) - k)
          /\ k + (i - (k + 1)) = i - 1
      BY <1>1
    <2>2. t[i] = right[i - (k + 1)]
      BY <1>7, <1>8, <2>1
    <2> QED BY <1>5, <2>1, <2>2
  <1> QED BY <1>7, <1>8, <1>9, <1>10, <1>11 DEF t
LEMMA InsertKeeps ==
  ASSUME NEW s, IsSeq(s), NEW k \in 0..Len(s), NEW x
  PROVE  Range(InsertAt(s, k + 1, x)) = Range(s) \cup {x}
  <1> DEFINE left == SubSeq(s, 1, k)
             right == SubSeq(s, k + 1, Len(s))
             t == InsertAt(s, k + 1, x)
  <1>1. Len(s) \in Nat /\ \A i \in 1..Len(s) : s[i] \in Range(s)
    BY SeqFacts
  <1>2. t = left \o <<x>> \o right
    <2>1. t = SubSeq(s, 1, (k + 1) - 1) \o <<x>> \o SubSeq(s, k + 1, Len(s))
      BY Zenon DEF InsertAt
    <2>2. (k + 1) - 1 = k
      OBVIOUS
    <2> QED BY <2>1, <2>2
  <1>3. IsSeq(left) /\ IsSeq(right) /\ IsSeq(<<x>>) /\ Range(<<x>>) = {x}
    <2>1. IsSeq(left) /\ IsSeq(right)
      BY <1>1, SubSeqIsSeq
    <2>2. IsSeq(<<x>>) /\ Range(<<x>>) = {x}
      BY DEF IsSeq, Range
    <2> QED BY <2>1, <2>2
  <1>4. Len(left) = k /\ \A i \in 1..k : left[i] = s[i]
    <2>1. s \in Seq(Range(s))
      BY DEF IsSeq
    <2> QED BY <1>1, <2>1
  <1>5. k < Len(s) => Len(right) = Len(s) - k /\ \A i \in 1..(Len(s) - k) : right[i] = s[k + i]
    <2> SUFFICES ASSUME k < Len(s)
                 PROVE  Len(right) = Len(s) - k /\ \A i \in 1..(Len(s) - k) : right[i] = s[k + i]
      OBVIOUS
    <2>1. /\ Len(right) = IF k + 1 <= Len(s) THEN Len(s) - (k + 1) + 1 ELSE 0
          /\ \A i \in 1..(Len(s) - (k + 1) + 1) : right[i] = s[(k + 1) + i - 1]
      BY <1>1, SubSeqProperties
    <2> HIDE DEF right
    <2>2. ASSUME NEW i \in 1..(Len(s) - k) PROVE right[i] = s[k + i]
      <3>1. i \in 1..(Len(s) - (k + 1) + 1) /\ (k + 1) + i - 1 = k + i
        BY <1>1
      <3> QED BY <2>1, <3>1
    <2> QED BY <1>1, <2>1, <2>2
  <1> HIDE DEF left, right
  <1>6. Range(t) = Range(left) \cup {x} \cup Range(right)
    <2>1. IsSeq(left \o <<x>>) /\ Range(left \o <<x>>) = Range(left) \cup {x}
      BY <1>3, ConcatRange
    <2> QED BY <1>2, <1>3, <2>1, ConcatRange
  <1>7. Range(t) \subseteq Range(s) \cup {x}
    BY InsertIsSeq
  <1> HIDE DEF t
  <1>8. ASSUME NEW y \in Range(s) PROVE y \in Range(left) \cup Range(right)
    <2>1. PICK i \in 1..Len(s) : s[i] = y
      BY FoundAt
    <2>2. CASE i <= k
      <3>1. i \in 1..k
        BY <1>1, <2>2
      <3> QED BY <1>3, <1>4, <2>1, <3>1, SeqFacts
    <2>3. CASE i > k
      <3>1. i - k \in 1..(Len(s) - k) /\ k + (i - k) = i /\ k < Len(s)
        BY <1>1, <2>3
      <3>2. right[i - k] = y /\ i - k \in 1..Len(right)
        BY <1>5, <2>1, <3>1
      <3> QED BY <1>3, <3>2, SeqFacts
    <2> QED BY <1>1, <2>2, <2>3
  <1> QED BY <1>6, <1>7, <1>8 DEF t

LEMMA SetToSeqRange ==
  ASSUME NEW S, IsFiniteSet(S)
  PROVE  IsSeq(SetToSeq(S)) /\ Range(SetToSeq(S)) \subseteq S
  <1> DEFINE n == Cardinality(S)
  <1>1. n \in Nat /\ \E f \in [1..n -> S] : IsInjective(f)
    <2>1. n \in Nat /\ ExistsBijection(1..n, S)
      BY FS_CardinalityType
    <2> HIDE DEF n
    <2> QED BY <2>1 DEF ExistsBijection, Bijection, Injection, IsInjective
  <1>2. SetToSeq(S) \in [1..n -> S]
    BY <1>1 DEF SetToSeq
  <1>3. SetToSeq(S) \in Seq(S)
    BY <1>1, <1>2
  <1> QED BY <1>3, SeqIsSeq
LEMMA PrefixExtends ==
  ASSUME NEW s, IsSeq(s), NEW n \in Nat, n < Len(s)
  PROVE  /\ SubSeq(s, 1, n + 1) = Append(SubSeq(s, 1, n), s[n + 1])
         /\ IsSeq(SubSeq(s, 1, n)) /\ Len(SubSeq(s, 1, n)) = n
         /\ \A i \in 1..n : SubSeq(s, 1, n)[i] = s[i]
  <1>1. Len(s) \in Nat /\ s \in Seq(Range(s))
    BY SeqFacts DEF IsSeq
  <1>2. /\ SubSeq(s, 1, n) \in Seq(Range(s)) /\ Len(SubSeq(s, 1, n)) = n
        /\ \A i \in 1..n : SubSeq(s, 1, n)[i] = s[i]
    BY <1>1
  <1>3. SubSeq(s, 1, n + 1) = Append(SubSeq(s, 1, n), s[n + 1])
    BY <1>1
  <1> QED BY <1>2, <1>3, SeqIsSeq
LEMMA PrefixWhole ==
  ASSUME NEW s, IsSeq(s)
  PROVE  SubSeq(s, 1, Len(s)) = s /\ SubSeq(s, 1, 0) = <<>>
  BY SeqFacts DEF IsSeq

-----------------------------------------------------------------------------
(* Choosing.                                                               *)

(* The context is the set chosen of, with the elements there may be.       *)
ChooseStep(c, kept, x) == IF x \in c[1] THEN Append(kept, x) ELSE kept
ChooseHolds(c, kept) == IsSeq(kept) /\ Range(kept) \subseteq c[1] \cap c[2]
Choosing == INSTANCE FoldProofs WITH Op <- ChooseStep, Holds <- ChooseHolds

LEMMA ChosenIsResult == \A s, good, all : Chosen(s, good) = Choosing!Result(<<good, all>>, <<>>, s)
  BY DEF Choosing!Result, Choosing!Folded, Chosen, Folded, ChooseStep
LEMMA ChosenEmpty == \A good : Chosen(<<>>, good) = <<>>
  BY ChosenIsResult, Choosing!FoldEmpty
LEMMA ChosenAppend ==
  ASSUME NEW s, IsSeq(s), NEW x, NEW good
  PROVE  Chosen(Append(s, x), good) = IF x \in good THEN Append(Chosen(s, good), x) ELSE Chosen(s, good)
  <1> DEFINE S == Range(s) \cup {x}
             c == <<good, S>>
  <1>1. s \in Seq(S) /\ x \in S
    BY SeqMonotonic DEF IsSeq
  <1>2. c[1] = good
    OBVIOUS
  <1>3. Chosen(s, good) = Choosing!Result(c, <<>>, s)
        /\ Chosen(Append(s, x), good) = Choosing!Result(c, <<>>, Append(s, x))
    BY ChosenIsResult
  <1> HIDE DEF S, c
  <1>4. Choosing!Result(c, <<>>, Append(s, x)) = ChooseStep(c, Choosing!Result(c, <<>>, s), x)
    BY <1>1, Choosing!FoldAppend
  <1> QED BY <1>2, <1>3, <1>4 DEF ChooseStep
LEMMA ChosenIsSeq ==
  ASSUME NEW s, IsSeq(s), NEW good
  PROVE  IsSeq(Chosen(s, good)) /\ Range(Chosen(s, good)) \subseteq good \cap Range(s)
  <1> DEFINE c == <<good, Range(s)>>
  <1>1. Len(s) \in Nat /\ \A i \in 1..Len(s) : s[i] \in Range(s)
    BY SeqFacts
  <1>2. c[1] = good /\ c[2] = Range(s)
    OBVIOUS
  <1>3. Chosen(s, good) = Choosing!Result(c, <<>>, s)
    BY ChosenIsResult
  <1> HIDE DEF c
  <1>4. ChooseHolds(c, <<>>)
    BY EmptyIsSeq DEF ChooseHolds
  <1>5. \A i \in 1..Len(s) : \A kept : ChooseHolds(c, kept) => ChooseHolds(c, ChooseStep(c, kept, s[i]))
    BY <1>1, <1>2, AppendIsSeq DEF ChooseHolds, ChooseStep
  <1>6. ChooseHolds(c, Choosing!Result(c, <<>>, s))
    BY <1>1, <1>4, <1>5, Choosing!FoldInvariant
  <1> QED BY <1>2, <1>3, <1>6 DEF ChooseHolds

(* Induction over the prefixes of a sequence, on a set of lengths.         *)
LEMMA PrefixInduction ==
  ASSUME NEW n \in Nat, NEW T, 0 \in T, \A k \in 0..n : k < n /\ k \in T => k + 1 \in T
  PROVE  n \in T
  <1> DEFINE Left == {k \in 0..n : k \notin T}
  <1>1. Left = {}
    <2> SUFFICES ASSUME Left # {} PROVE FALSE
      OBVIOUS
    <2>1. PICK k \in Left : \A m \in Left : k <= m
      <3>1. Left \subseteq Nat
        OBVIOUS
      <3> HIDE DEF Left
      <3> QED BY <3>1, Numbers!LeastNat
    <2>2. k \in 1..n /\ k - 1 \in 0..n /\ k - 1 < n /\ (k - 1) + 1 = k
      BY <2>1
    <2>3. k - 1 \in T
      BY <2>1, <2>2
    <2> QED BY <2>1, <2>2, <2>3
  <1> QED BY <1>1
(* What is chosen depends on the elements there are, and twice is once.    *)
LEMMA ChosenAgree ==
  ASSUME NEW s, IsSeq(s), NEW G, NEW H, \A x \in Range(s) : x \in G <=> x \in H
  PROVE  Chosen(s, G) = Chosen(s, H)
  <1> DEFINE P(k) == SubSeq(s, 1, k)
             T == {k \in Nat : Chosen(P(k), G) = Chosen(P(k), H)}
  <1>1. Len(s) \in Nat /\ P(Len(s)) = s /\ P(0) = <<>> /\ \A i \in 1..Len(s) : s[i] \in Range(s)
    BY SeqFacts, PrefixWhole
  <1>2. 0 \in T
    BY <1>1, ChosenEmpty
  <1>3. ASSUME NEW k \in 0..Len(s), k < Len(s), k \in T PROVE k + 1 \in T
    <2>1. P(k + 1) = Append(P(k), s[k + 1]) /\ IsSeq(P(k))
      BY <1>1, <1>3, PrefixExtends
    <2>2. k + 1 \in 1..Len(s) /\ k + 1 \in Nat
      BY <1>1, <1>3
    <2>3. Chosen(P(k), G) = Chosen(P(k), H)
      BY <1>3
    <2>4. s[k + 1] \in G <=> s[k + 1] \in H
      BY <1>1, <2>2
    <2> DEFINE p == P(k)
               x == s[k + 1]
    <2>5. IsSeq(p) /\ P(k + 1) = Append(p, x) /\ Chosen(p, G) = Chosen(p, H) /\ (x \in G <=> x \in H)
      BY <2>1, <2>3, <2>4
    <2> HIDE DEF P, p, x
    <2>6. Chosen(Append(p, x), G) = IF x \in G THEN Append(Chosen(p, G), x) ELSE Chosen(p, G)
      BY <2>5, ChosenAppend
    <2>7. Chosen(Append(p, x), H) = IF x \in H THEN Append(Chosen(p, H), x) ELSE Chosen(p, H)
      BY <2>5, ChosenAppend
    <2> QED BY <2>2, <2>5, <2>6, <2>7
  <1> HIDE DEF T
  <1>4. Len(s) \in T
    BY <1>1, <1>2, <1>3, PrefixInduction
  <1> QED BY <1>1, <1>4 DEF T
LEMMA ChosenTwice ==
  ASSUME NEW s, IsSeq(s), NEW G, NEW H
  PROVE  Chosen(Chosen(s, G), H) = Chosen(s, G \cap H)
  <1> DEFINE P(k) == SubSeq(s, 1, k)
             T == {k \in Nat : Chosen(Chosen(P(k), G), H) = Chosen(P(k), G \cap H)}
  <1>1. Len(s) \in Nat /\ P(Len(s)) = s /\ P(0) = <<>>
    BY SeqFacts, PrefixWhole
  <1>2. 0 \in T
    BY <1>1, ChosenEmpty
  <1>3. ASSUME NEW k \in 0..Len(s), k < Len(s), k \in T PROVE k + 1 \in T
    <2>1. P(k + 1) = Append(P(k), s[k + 1]) /\ IsSeq(P(k)) /\ k + 1 \in Nat
      BY <1>1, <1>3, PrefixExtends
    <2>2. Chosen(Chosen(P(k), G), H) = Chosen(P(k), G \cap H)
      BY <1>3
    <2> DEFINE p == P(k)
               x == s[k + 1]
    <2>3. IsSeq(p) /\ P(k + 1) = Append(p, x) /\ Chosen(Chosen(p, G), H) = Chosen(p, G \cap H)
      BY <2>1, <2>2
    <2> HIDE DEF P, p, x
    <2>4. IsSeq(Chosen(p, G))
      BY <2>3, ChosenIsSeq
    <2>5. CASE x \in G
      <3>1. Chosen(Append(p, x), G) = Append(Chosen(p, G), x)
        BY <2>3, <2>5, ChosenAppend
      <3>2. Chosen(Append(Chosen(p, G), x), H) =
              IF x \in H THEN Append(Chosen(Chosen(p, G), H), x) ELSE Chosen(Chosen(p, G), H)
        BY <2>4, ChosenAppend
      <3>3. Chosen(Append(p, x), G \cap H) =
              IF x \in G \cap H THEN Append(Chosen(p, G \cap H), x) ELSE Chosen(p, G \cap H)
        BY <2>3, ChosenAppend
      <3> QED BY <2>1, <2>3, <2>5, <3>1, <3>2, <3>3
    <2>6. CASE x \notin G
      <3>1. Chosen(Append(p, x), G) = Chosen(p, G)
        BY <2>3, <2>6, ChosenAppend
      <3>2. Chosen(Append(p, x), G \cap H) = Chosen(p, G \cap H)
        BY <2>3, <2>6, ChosenAppend
      <3> QED BY <2>1, <2>3, <3>1, <3>2
    <2> QED BY <2>5, <2>6
  <1> HIDE DEF T
  <1>4. Len(s) \in T
    BY <1>1, <1>2, <1>3, PrefixInduction
  <1> QED BY <1>1, <1>4 DEF T
LEMMA ChosenConcat ==
  ASSUME NEW r, IsSeq(r), NEW s, IsSeq(s), NEW G
  PROVE  Chosen(r \o s, G) = Chosen(r, G) \o Chosen(s, G)
  <1> DEFINE P(k) == SubSeq(s, 1, k)
             c == Chosen(r, G)
             T == {k \in Nat : Chosen(r \o P(k), G) = c \o Chosen(P(k), G)}
  <1>1. Len(s) \in Nat /\ P(Len(s)) = s /\ P(0) = <<>>
    BY SeqFacts, PrefixWhole
  <1>2. IsSeq(c) /\ c = Chosen(r, G)
    BY ChosenIsSeq
  <1> HIDE DEF c
  <1>3. 0 \in T
    <2>1. r \o <<>> = r /\ c \o <<>> = c
      BY <1>2 DEF IsSeq
    <2> QED BY <1>1, <1>2, <2>1, ChosenEmpty
  <1>4. ASSUME NEW k \in 0..Len(s), k < Len(s), k \in T PROVE k + 1 \in T
    <2>1. P(k + 1) = Append(P(k), s[k + 1]) /\ IsSeq(P(k)) /\ k + 1 \in Nat
      BY <1>1, <1>4, PrefixExtends
    <2>2. Chosen(r \o P(k), G) = c \o Chosen(P(k), G)
      BY <1>4
    <2> DEFINE p == P(k)
               x == s[k + 1]
               d == Chosen(p, G)
    <2>3. IsSeq(p) /\ P(k + 1) = Append(p, x) /\ Chosen(r \o p, G) = c \o d
      BY <2>1, <2>2
    <2> HIDE DEF P, p, x
    <2>4. r \o Append(p, x) = Append(r \o p, x) /\ IsSeq(r \o p)
      BY <2>3, ConcatAppend, ConcatIsSeq
    <2>5. IsSeq(d) /\ d = Chosen(p, G)
      BY <2>3, ChosenIsSeq
    <2> HIDE DEF d
    <2>6. c \o Append(d, x) = Append(c \o d, x)
      BY <1>2, <2>5, ConcatAppend
    <2>7. Chosen(Append(r \o p, x), G) = IF x \in G THEN Append(c \o d, x) ELSE c \o d
      <3>1. Chosen(Append(r \o p, x), G) =
              IF x \in G THEN Append(Chosen(r \o p, G), x) ELSE Chosen(r \o p, G)
        BY <2>4, ChosenAppend
      <3> QED BY <2>3, <3>1, Zenon
    <2>8. Chosen(Append(p, x), G) = IF x \in G THEN Append(d, x) ELSE d
      <3>1. Chosen(Append(p, x), G) = IF x \in G THEN Append(Chosen(p, G), x) ELSE Chosen(p, G)
        BY <2>3, ChosenAppend
      <3> QED BY <2>5, <3>1, Zenon
    <2>9. Chosen(r \o P(k + 1), G) = c \o Chosen(P(k + 1), G)
      BY <2>3, <2>4, <2>6, <2>7, <2>8
    <2> QED BY <2>1, <2>9
  <1> HIDE DEF T
  <1>5. Len(s) \in T
    BY <1>1, <1>3, <1>4, PrefixInduction
  <1> QED BY <1>1, <1>2, <1>5 DEF T
LEMMA ChosenNone ==
  ASSUME NEW s, IsSeq(s), NEW G, \A x \in Range(s) : x \notin G
  PROVE  Chosen(s, G) = <<>>
  <1>1. IsSeq(Chosen(s, G)) /\ Range(Chosen(s, G)) = {}
    BY ChosenIsSeq
  <1> HIDE DEF Chosen
  <1>2. \A t : IsSeq(t) /\ Range(t) = {} => t = <<>>
    BY SeqFacts, EmptySeq DEF IsSeq
  <1> QED BY <1>1, <1>2
LEMMA ChosenHas ==
  ASSUME NEW s, IsSeq(s), NEW G, NEW x \in Range(s), x \in G
  PROVE  x \in Range(Chosen(s, G))
  <1> DEFINE P(k) == SubSeq(s, 1, k)
             T == {k \in Nat : x \in Range(P(k)) => x \in Range(Chosen(P(k), G))}
  <1>1. Len(s) \in Nat /\ P(Len(s)) = s /\ P(0) = <<>>
    BY SeqFacts, PrefixWhole
  <1>2. 0 \in T
    BY <1>1, EmptyIsSeq
  <1>3. ASSUME NEW k \in 0..Len(s), k < Len(s), k \in T PROVE k + 1 \in T
    <2> DEFINE p == P(k)
               y == s[k + 1]
    <2>1. IsSeq(p) /\ P(k + 1) = Append(p, y) /\ k + 1 \in Nat
      BY <1>1, <1>3, PrefixExtends
    <2>2. x \in Range(p) => x \in Range(Chosen(p, G))
      BY <1>3
    <2> HIDE DEF P, p, y
    <2>3. Range(Append(p, y)) = Range(p) \cup {y}
      BY <2>1, AppendIsSeq
    <2>4. Chosen(Append(p, y), G) = IF y \in G THEN Append(Chosen(p, G), y) ELSE Chosen(p, G)
      BY <2>1, ChosenAppend
    <2>5. Range(Append(Chosen(p, G), y)) = Range(Chosen(p, G)) \cup {y}
      BY <2>1, ChosenIsSeq, AppendIsSeq
    <2>6. x \in Range(P(k + 1)) => x \in Range(Chosen(P(k + 1), G))
      BY <2>1, <2>2, <2>3, <2>4, <2>5
    <2> QED BY <2>1, <2>6
  <1> HIDE DEF T
  <1>4. Len(s) \in T
    BY <1>1, <1>2, <1>3, PrefixInduction
  <1> QED BY <1>1, <1>4 DEF T
=============================================================================
