----------------------------- MODULE FoldProofs -----------------------------
(***************************************************************************)
(* Induction over a fold.  The recursion of Folded is opened once: it is a *)
(* run of partial results, which exists for every length because no length *)
(* is the first without one.  Op may depend on a context, so that one      *)
(* instance serves every value of it.                                      *)
(***************************************************************************)
EXTENDS Folding, WellFoundedInduction, TLAPS

CONSTANTS Op(_, _, _),    (* context, result so far, element               *)
          Holds(_, _)     (* context, result so far                        *)

(* Every set of numbers that has an element has a least one.               *)
LEMMA LeastNat ==
  ASSUME NEW T, T \subseteq Nat, T # {}
  PROVE  \E x \in T : \A y \in T : x <= y
  <1> DEFINE R == OpToRel(<, Nat)
  <1>1. IsWellFoundedOn(R, Nat)
    BY NatLessThanWellFounded
  <1>2. \A x, y \in Nat : <<y, x>> \in R <=> y < x
    BY DEF OpToRel
  <1> HIDE DEF R
  <1>3. PICK x \in T : \A y \in T : ~ (<<y, x>> \in R)
    BY <1>1, WFMin
  <1>4. \A y \in T : y \in Nat /\ x \in Nat /\ ~(y < x)
    BY <1>2, <1>3
  <1>5. \A y \in T : x <= y
    BY <1>4
  <1> QED BY <1>5

Result(c, base, s) == Folded(LAMBDA acc, x : Op(c, acc, x), base, s)

(* Partial results up to the n-th element.                                 *)
Step(c, s, run, i) == CHOOSE v \in {Op(c, acc, s[i]) : acc \in {run[i - 1]}} : TRUE
IsRun(c, base, s, run, n) == run = [i \in 0..n |-> IF i = 0 THEN base ELSE Step(c, s, run, i)]

LEMMA RunExtends ==
  ASSUME NEW c, NEW base, NEW s, NEW n \in Nat, NEW run, IsRun(c, base, s, run, n)
  PROVE  \E longer : IsRun(c, base, s, longer, n + 1)
  <1> DEFINE r == [i \in 0..(n + 1) |-> IF i <= n THEN run[i] ELSE Step(c, s, run, i)]
  <1>1. ASSUME NEW i \in 0..(n + 1), i # 0
        PROVE  r[i] = Step(c, s, r, i)
    <2>1. i - 1 \in 0..n
      BY <1>1
    <2>2. Step(c, s, r, i) = Step(c, s, run, i)
      BY <2>1 DEF Step
    <2>3. i \in 0..n => run[i] = Step(c, s, run, i)
      BY <1>1 DEF IsRun
    <2> QED BY <2>2, <2>3
  <1>2. r[0] = base
    BY DEF IsRun
  <1>3. r = [i \in 0..(n + 1) |-> IF i = 0 THEN base ELSE Step(c, s, r, i)]
    BY <1>1, <1>2
  <1>4. IsRun(c, base, s, r, n + 1)
    BY <1>3 DEF IsRun
  <1> QED BY <1>4

LEMMA RunExists ==
  ASSUME NEW c, NEW base, NEW s, NEW n \in Nat
  PROVE  \E run : IsRun(c, base, s, run, n)
  <1> DEFINE T == {k \in Nat : ~ \E run : IsRun(c, base, s, run, k)}
  <1>1. SUFFICES ASSUME T # {} PROVE FALSE
    OBVIOUS
  <1>2. PICK k \in T : \A y \in T : k <= y
    <2>1. T \subseteq Nat
      OBVIOUS
    <2> HIDE DEF T
    <2> QED BY <1>1, <2>1, LeastNat
  <1>3. k # 0
    <2>1. IsRun(c, base, s, [i \in 0..0 |-> base], 0)
      BY DEF IsRun
    <2> QED BY <2>1, <1>2
  <1>4. k - 1 \in Nat /\ k - 1 \notin T
    BY <1>2, <1>3
  <1>5. PICK run : IsRun(c, base, s, run, k - 1)
    BY <1>4
  <1>6. (k - 1) + 1 = k
    BY <1>4
  <1> QED BY <1>2, <1>4, <1>5, <1>6, RunExtends

(* A fold is the last of a run of results, each one step from the one      *)
(* before it.                                                              *)
THEOREM FoldIsRun ==
  ASSUME NEW c, NEW base, NEW s, Len(s) \in Nat
  PROVE  \E run : /\ run[0] = base
                  /\ \A i \in 1..Len(s) : run[i] = Op(c, run[i - 1], s[i])
                  /\ Result(c, base, s) = run[Len(s)]
  <1> DEFINE n == Len(s)
             run == CHOOSE r : IsRun(c, base, s, r, n)
  <1>1. IsRun(c, base, s, run, n)
    BY RunExists
  <1>2. Result(c, base, s) = run[n]
    BY DEF Result, Folded, IsRun, Step
  <1> HIDE DEF run
  <1>3. run[0] = base
    BY <1>1 DEF IsRun
  <1>4. ASSUME NEW i \in 1..n
        PROVE  run[i] = Op(c, run[i - 1], s[i])
    <2>1. run[i] = Step(c, s, run, i)
      BY <1>1 DEF IsRun
    <2> QED BY <2>1 DEF Step
  <1> QED BY <1>2, <1>3, <1>4

(* A fold of a longer sequence takes one more step.                        *)
THEOREM FoldAppend ==
  ASSUME NEW c, NEW base, NEW S, NEW s \in Seq(S), NEW x \in S
  PROVE  Result(c, base, Append(s, x)) = Op(c, Result(c, base, s), x)
  <1> DEFINE longer == Append(s, x)
             n == Len(s)
  <1>1. Len(s) \in Nat /\ Len(longer) = n + 1 /\ longer[n + 1] = x /\ \A i \in 1..n : longer[i] = s[i]
    OBVIOUS
  <1>2. PICK run : /\ run[0] = base /\ \A i \in 1..n : run[i] = Op(c, run[i - 1], s[i])
                   /\ Result(c, base, s) = run[n]
    BY <1>1, FoldIsRun
  <1>3. PICK far : /\ far[0] = base /\ \A i \in 1..(n + 1) : far[i] = Op(c, far[i - 1], longer[i])
                   /\ Result(c, base, longer) = far[n + 1]
    <2>1. Len(longer) \in Nat /\ Len(longer) = n + 1
      BY <1>1
    <2> HIDE DEF longer, n
    <2>2. \E far : /\ far[0] = base
                   /\ \A i \in 1..Len(longer) : far[i] = Op(c, far[i - 1], longer[i])
                   /\ Result(c, base, longer) = far[Len(longer)]
      BY <2>1, FoldIsRun
    <2> QED BY <2>1, <2>2
  <1> HIDE DEF longer, n
  <1>4. n \in Nat
    BY <1>1 DEF n
  <1> DEFINE T == {k \in 0..n : far[k] # run[k]}
  <1>5. T = {}
    <2> SUFFICES ASSUME T # {} PROVE FALSE
      OBVIOUS
    <2>1. PICK k \in T : \A y \in T : k <= y
      <3>1. T \subseteq Nat
        BY <1>4
      <3> HIDE DEF T
      <3> QED BY <3>1, LeastNat
    <2>2. k \in 1..n /\ k \in 1..(n + 1) /\ k - 1 \in 0..n
      BY <1>2, <1>3, <1>4, <2>1
    <2>3. far[k - 1] = run[k - 1]
      BY <1>4, <2>1, <2>2
    <2>4. far[k] = Op(c, far[k - 1], longer[k]) /\ run[k] = Op(c, run[k - 1], s[k]) /\ longer[k] = s[k]
      BY <1>1, <1>2, <1>3, <2>2
    <2> QED BY <2>1, <2>3, <2>4
  <1>6. far[n] = run[n] /\ n + 1 \in 1..(n + 1) /\ (n + 1) - 1 = n
    BY <1>4, <1>5
  <1>7. far[n + 1] = Op(c, far[(n + 1) - 1], longer[n + 1])
    BY <1>3, <1>6
  <1> QED BY <1>1, <1>2, <1>3, <1>6, <1>7 DEF longer

LEMMA FoldEmpty ==
  ASSUME NEW c, NEW base
  PROVE  Result(c, base, <<>>) = base
  BY FoldIsRun

(* What the base has and no step breaks, the fold has.                     *)
THEOREM FoldInvariant ==
  ASSUME NEW c, NEW base, NEW s, Len(s) \in Nat, Holds(c, base),
         ASSUME NEW i \in 1..Len(s), NEW acc, Holds(c, acc)
         PROVE  Holds(c, Op(c, acc, s[i]))
  PROVE  Holds(c, Result(c, base, s))
  <1> DEFINE n == Len(s)
  <1>1. PICK run : /\ run[0] = base
                   /\ \A i \in 1..n : run[i] = Op(c, run[i - 1], s[i])
                   /\ Result(c, base, s) = run[n]
    BY FoldIsRun
  <1> DEFINE T == {k \in 0..n : ~ Holds(c, run[k])}
  <1>0. Len(s) \in Nat
    OBVIOUS
  <1> HIDE DEF n
  <1>2. SUFFICES ASSUME T # {} PROVE FALSE
    BY <1>0, <1>1 DEF n
  <1>3. PICK k \in T : \A y \in T : k <= y
    <2>1. T \subseteq Nat
      BY <1>0 DEF n
    <2> HIDE DEF T
    <2> QED BY <1>2, <2>1, LeastNat
  <1>4. k # 0 /\ k \in 0..n
    BY <1>1, <1>3
  <1>5. k \in 1..n /\ k - 1 \in 0..n
    BY <1>0, <1>4 DEF n
  <1>6. Holds(c, run[k - 1])
    BY <1>0, <1>3, <1>5 DEF n
  <1>7. Holds(c, Op(c, run[k - 1], s[k]))
    BY <1>5, <1>6 DEF n
  <1> QED BY <1>1, <1>3, <1>5, <1>7
=============================================================================
