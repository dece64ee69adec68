----------------------- MODULE AnalysisSessionProofs -----------------------
(***************************************************************************)
(* What the detectors' windows hold, for any traffic, profile and          *)
(* thresholds; that an exfiltration detector does not notice that its run  *)
(* was ended and resumed; that a cooldown delays an alert and never loses  *)
(* it; and that a finding once shown is never taken back.                  *)
(***************************************************************************)
EXTENDS AnalysisSession, FindingsProofs

-----------------------------------------------------------------------------
(* Sequences of events in order of time.                                   *)

Clocked(s) == IsSeq(s) /\ \A i \in 1..Len(s) : s[i].ts \in Int
Timely(s) == Clocked(s) /\ \A i, j \in 1..Len(s) : i <= j => s[i].ts <= s[j].ts
Latest(s, ts) == \A x \in Range(s) : x.ts <= ts

LEMMA TimelyEmpty == Timely(<<>>) /\ \A ts : Latest(<<>>, ts)
  BY EmptyIsSeq DEF Timely, Clocked, Latest
LEMMA TimelyAppend ==
  ASSUME NEW s, Timely(s), NEW x, x.ts \in Int, Latest(s, x.ts)
  PROVE  Timely(Append(s, x)) /\ Latest(Append(s, x), x.ts)
  <1> DEFINE t == Append(s, x)
  <1>1. IsSeq(s) /\ Len(s) \in Nat /\ \A i \in 1..Len(s) : s[i] \in Range(s)
    BY SeqFacts DEF Timely, Clocked
  <1>2. /\ IsSeq(t) /\ Range(t) = Range(s) \cup {x} /\ Len(t) = Len(s) + 1
        /\ t[Len(s) + 1] = x /\ \A i \in 1..Len(s) : t[i] = s[i]
    BY <1>1, AppendIsSeq
  <1> HIDE DEF t
  <1>3. \A i \in 1..Len(t) : i \in 1..Len(s) \/ i = Len(s) + 1
    BY <1>1, <1>2
  <1>4. \A i \in 1..Len(t) : t[i].ts \in Int
    BY <1>2, <1>3 DEF Timely, Clocked
  <1>5. ASSUME NEW i \in 1..Len(t), NEW j \in 1..Len(t), i <= j PROVE t[i].ts <= t[j].ts
    <2>1. CASE j \in 1..Len(s)
      BY <1>1, <1>2, <1>5, <2>1 DEF Timely
    <2>2. CASE j = Len(s) + 1
      <3>1. t[i] \in Range(s) \/ t[i] = x
        BY <1>1, <1>2, <1>3
      <3>2. t[i].ts <= x.ts
        BY <3>1 DEF Latest
      <3> QED BY <1>2, <2>2, <3>2
    <2> QED BY <1>3, <2>1, <2>2
  <1>6. Latest(t, x.ts)
    BY <1>2 DEF Latest
  <1> QED BY <1>2, <1>4, <1>5, <1>6 DEF Timely, Clocked, t
LEMMA TimelyFacts ==
  ASSUME NEW s, Timely(s)
  PROVE  /\ IsSeq(s) /\ Len(s) \in Nat /\ DOMAIN s = 1..Len(s)
         /\ \A x \in Range(s) : x.ts \in Int
         /\ s # <<>> => Len(s) \in 1..Len(s) /\ Last(s) \in Range(s) /\ Latest(s, Last(s).ts)
  <1>1. IsSeq(s) /\ Len(s) \in Nat /\ DOMAIN s = 1..Len(s) /\ \A i \in 1..Len(s) : s[i] \in Range(s)
    BY SeqFacts DEF Timely, Clocked
  <1>2. \A x \in Range(s) : \E i \in 1..Len(s) : s[i] = x
    BY <1>1, FoundAt
  <1>3. \A x \in Range(s) : x.ts \in Int
    BY <1>2 DEF Timely, Clocked
  <1>4. ASSUME s # <<>> PROVE Len(s) \in 1..Len(s)
    <2>1. Len(s) # 0
      BY <1>1, <1>4, EmptySeq DEF IsSeq
    <2> QED BY <1>1, <2>1
  <1>5. ASSUME s # <<>> PROVE Last(s) \in Range(s) /\ Latest(s, Last(s).ts)
    <2>1. Len(s) \in 1..Len(s)
      BY <1>4, <1>5
    <2>2. Last(s) = s[Len(s)]
      BY Zenon DEF Last
    <2>3. ASSUME NEW x \in Range(s) PROVE x.ts <= s[Len(s)].ts
      <3>1. PICK i \in 1..Len(s) : s[i] = x
        BY <1>2
      <3>2. i <= Len(s)
        BY <1>1
      <3> QED BY <2>1, <3>1, <3>2 DEF Timely
    <2> QED BY <1>1, <2>1, <2>2, <2>3 DEF Latest
  <1> QED BY <1>1, <1>3, <1>4, <1>5
LEMMA TimelyPrefix ==
  ASSUME NEW s, Timely(s), NEW k \in 0..Len(s), k < Len(s)
  PROVE  LET p == SubSeq(s, 1, k)
             x == s[k + 1]
         IN  /\ IsSeq(p) /\ SubSeq(s, 1, k + 1) = Append(p, x)
             /\ x \in Range(s) /\ x.ts \in Int /\ Latest(p, x.ts)
  <1> DEFINE p == SubSeq(s, 1, k)
  <1>1. IsSeq(s) /\ Len(s) \in Nat /\ k \in Nat /\ \A i \in 1..Len(s) : s[i] \in Range(s)
    BY TimelyFacts, SeqFacts
  <1>2. IsSeq(p) /\ SubSeq(s, 1, k + 1) = Append(p, s[k + 1]) /\ Len(p) = k /\ \A i \in 1..k : p[i] = s[i]
    BY <1>1, PrefixExtends
  <1> HIDE DEF p
  <1>3. k + 1 \in 1..Len(s)
    BY <1>1
  <1>4. ASSUME NEW y \in Range(p) PROVE y.ts <= s[k + 1].ts
    <2>1. PICK i \in 1..Len(p) : p[i] = y
      BY <1>2, FoundAt
    <2>2. i \in 1..Len(s) /\ i <= k + 1 /\ s[i] = y
      BY <1>1, <1>2, <2>1
    <2> QED BY <1>3, <2>2 DEF Timely
  <1> QED BY <1>1, <1>2, <1>3, <1>4 DEF p, Latest, Timely, Clocked
(* What is chosen of a sequence in order is in order.                      *)
LEMMA TimelyChosen ==
  ASSUME NEW s, Timely(s), NEW G
  PROVE  Timely(Chosen(s, G)) /\ Range(Chosen(s, G)) \subseteq Range(s)
  <1> DEFINE P(k) == SubSeq(s, 1, k)
             T == {k \in Nat : Timely(Chosen(P(k), G))}
  <1>1. IsSeq(s) /\ Len(s) \in Nat /\ P(Len(s)) = s /\ P(0) = <<>>
    BY TimelyFacts, PrefixWhole
  <1>2. 0 \in T
    BY <1>1, ChosenEmpty, TimelyEmpty
  <1>3. ASSUME NEW k \in 0..Len(s), k < Len(s), k \in T PROVE k + 1 \in T
    <2> DEFINE p == P(k)
               x == s[k + 1]
    <2>1. IsSeq(p) /\ P(k + 1) = Append(p, x) /\ x.ts \in Int /\ Latest(p, x.ts)
      BY <1>3, TimelyPrefix
    <2>2. Timely(Chosen(p, G)) /\ k + 1 \in Nat
      BY <1>1, <1>3
    <2> HIDE DEF P, p, x
    <2>3. Range(Chosen(p, G)) \subseteq Range(p)
      BY <2>1, ChosenIsSeq
    <2>4. Latest(Chosen(p, G), x.ts)
      BY <2>1, <2>3 DEF Latest
    <2>5. Timely(Append(Chosen(p, G), x))
      BY <2>1, <2>2, <2>4, TimelyAppend
    <2>6. Chosen(Append(p, x), G) = IF x \in G THEN Append(Chosen(p, G), x) ELSE Chosen(p, G)
      BY <2>1, ChosenAppend
    <2>7. Timely(Chosen(P(k + 1), G))
      BY <2>1, <2>2, <2>5, <2>6
    <2> QED BY <2>2, <2>7
  <1> HIDE DEF T
  <1>4. Len(s) \in T
    BY <1>1, <1>2, <1>3, PrefixInduction
  <1>5. Timely(Chosen(s, G))
    BY <1>1, <1>4 DEF T
  <1> QED BY <1>1, <1>5, ChosenIsSeq

-----------------------------------------------------------------------------
(* Windows.                                                                *)

After(s, cutoff) == {x \in Range(s) : x.ts >= cutoff}

LEMMA SuffixExtends ==
  ASSUME NEW S, NEW s \in Seq(S), NEW x \in S, NEW m \in 1..Len(s)
  PROVE  SubSeq(Append(s, x), m, Len(s) + 1) = Append(SubSeq(s, m, Len(s)), x)
  <1> DEFINE n == Len(s)
             u == SubSeq(Append(s, x), m, n + 1)
             v == Append(SubSeq(s, m, n), x)
  <1>1. n \in Nat /\ m \in Nat /\ m <= n /\ m >= 1
    OBVIOUS
  <1>2. Append(s, x) \in Seq(S) /\ Len(Append(s, x)) = n + 1
    OBVIOUS
  <1>3. u \in Seq(S) /\ Len(u) = n + 2 - m /\ \A i \in 1..(n + 2 - m) : u[i] = Append(s, x)[m + i - 1]
    BY <1>1, <1>2, SubSeqProperties
  <1>4. SubSeq(s, m, n) \in Seq(S) /\ Len(SubSeq(s, m, n)) = n + 1 - m
        /\ \A i \in 1..(n + 1 - m) : SubSeq(s, m, n)[i] = s[m + i - 1]
    BY <1>1, SubSeqProperties
  <1>5. v \in Seq(S) /\ Len(v) = n + 2 - m /\ v[n + 2 - m] = x
        /\ \A i \in 1..(n + 1 - m) : v[i] = s[m + i - 1]
    BY <1>1, <1>4, AppendProperties
  <1>6. \A i \in 1..(n + 2 - m) : u[i] = v[i]
    BY <1>1, <1>3, <1>5
  <1> QED BY <1>3, <1>5, <1>6, SeqEqual
(* Popping old events from the front leaves the ones that are not old.     *)
LEMMA EvictedAppend ==
  ASSUME NEW s, IsSeq(s), \A y \in Range(s) : y.ts \in Int, NEW x, x.ts \in Int, Latest(s, x.ts),
         NEW c \in Int
  PROVE  Evicted(Append(s, x), c) = IF x.ts >= c THEN Append(Evicted(s, c), x) ELSE Evicted(s, c)
  <1> DEFINE t == Append(s, x)
             n == Len(s)
             old == {i \in DOMAIN s : s[i].ts >= c}
             new == {i \in DOMAIN t : t[i].ts >= c}
  <1>1. n \in Nat /\ DOMAIN s = 1..n /\ s \in Seq(Range(s)) /\ \A i \in 1..n : s[i] \in Range(s)
    BY SeqFacts DEF IsSeq
  <1>2. /\ IsSeq(t) /\ Len(t) = n + 1 /\ DOMAIN t = 1..(n + 1)
        /\ t[n + 1] = x /\ \A i \in 1..n : t[i] = s[i]
    BY <1>1, AppendIsSeq, SeqFacts
  <1>3. old = {i \in 1..n : s[i].ts >= c} /\ new = {i \in 1..(n + 1) : t[i].ts >= c}
    BY <1>1, <1>2
  <1>4. Evicted(s, c) = IF old = {} THEN <<>> ELSE SubSeq(s, Min(old), n)
    BY DEF Evicted
  <1>5. Evicted(t, c) = IF new = {} THEN <<>> ELSE SubSeq(t, Min(new), n + 1)
    BY <1>2 DEF Evicted
  <1> HIDE DEF t, n, old, new
  <1>6. CASE x.ts >= c
    <2>1. new = old \cup {n + 1}
      BY <1>1, <1>2, <1>3, <1>6
    <2>2. CASE old = {}
      <3>1. new = {n + 1} /\ new \subseteq Nat /\ new # {}
        BY <1>1, <2>1, <2>2
      <3>2. Min(new) = n + 1
        <4>1. Min(new) \in new
          BY <3>1, MinOfNat
        <4> QED BY <3>1, <4>1
      <3>3. SubSeq(t, n + 1, n + 1) = <<t[n + 1]>>
        <4> DEFINE k == n + 1
                   S == {t[k]}
                   u == SubSeq(t, k, k)
        <4>1. k \in Int /\ k - k + 1 = 1
          BY <1>1
        <4> HIDE DEF k, t
        <4>2. \A i \in k..k : t[i] \in S
          BY <4>1
        <4>3. u \in Seq(S) /\ Len(u) = 1 /\ \A i \in 1..1 : u[i] = t[k + i - 1]
          BY <4>1, <4>2, SubSeqProperties
        <4>4. u[1] = t[k]
          <5>1. u[1] = t[k + 1 - 1]
            BY <4>3
          <5> QED BY <4>1, <5>1
        <4> HIDE DEF u
        <4>5. u = <<t[k]>>
          BY <4>3, <4>4
        <4> QED BY <4>5 DEF u, k
      <3>4. Append(<<>>, x) = <<x>>
        OBVIOUS
      <3>5. Evicted(t, c) = <<x>> /\ Evicted(s, c) = <<>>
        BY <1>2, <1>4, <1>5, <2>2, <3>1, <3>2, <3>3
      <3> QED BY <1>6, <3>4, <3>5 DEF t
    <2>3. CASE old # {}
      <3>1. old \subseteq 1..n
        BY <1>3, Zenon
      <3>2. old \subseteq Nat /\ new \subseteq Nat /\ new # {}
        BY <1>1, <2>1, <3>1
      <3>3. Min(old) \in old /\ \A i \in old : Min(old) <= i
        BY <2>3, <3>2, MinOfNat
      <3>4. Min(new) \in new /\ \A i \in new : Min(new) <= i
        BY <3>2, MinOfNat
      <3> DEFINE m == Min(old)
                 k == Min(new)
      <3>5. m \in 1..n /\ m \in Nat /\ k <= m /\ (k \in old => m <= k) /\ (k \in 1..n \/ k = n + 1)
            /\ (k \in old \/ k = n + 1)
        BY <1>1, <2>1, <3>1, <3>2, <3>3, <3>4
      <3> HIDE DEF m, k
      <3>6. k = m
        BY <1>1, <3>5
      <3>7. SubSeq(t, m, n + 1) = Append(SubSeq(s, m, n), x)
        <4> DEFINE S == Range(s) \cup {x}
        <4>1. s \in Seq(S) /\ x \in S /\ Len(s) = n
          BY <1>1, SeqMonotonic DEF n
        <4> HIDE DEF S
        <4> QED BY <1>1, <3>5, <4>1, SuffixExtends DEF t
      <3> QED BY <1>4, <1>5, <1>6, <2>3, <3>2, <3>6, <3>7 DEF t, m, k
    <2> QED BY <2>2, <2>3
  <1>7. CASE ~(x.ts >= c)
    <2>1. \A i \in 1..n : s[i].ts \in Int /\ s[i].ts <= x.ts
      BY <1>1 DEF Latest
    <2>2. old = {}
      BY <1>3, <1>7, <2>1
    <2>3. new = {}
      BY <1>1, <1>2, <1>3, <1>7, <2>1
    <2> QED BY <1>4, <1>5, <1>7, <2>2, <2>3 DEF t
  <1> QED BY <1>6, <1>7
LEMMA EvictedIsChosen ==
  ASSUME NEW s, Timely(s), NEW c \in Int
  PROVE  Evicted(s, c) = Chosen(s, After(s, c))
  <1> DEFINE G == After(s, c)
             P(k) == SubSeq(s, 1, k)
             T == {k \in Nat : Evicted(P(k), c) = Chosen(P(k), G)}
  <1>1. IsSeq(s) /\ Len(s) \in Nat /\ P(Len(s)) = s /\ P(0) = <<>>
    BY TimelyFacts, PrefixWhole
  <1>2. 0 \in T
    <2>1. Evicted(<<>>, c) = <<>>
      BY DEF Evicted
    <2> QED BY <1>1, <2>1, ChosenEmpty
  <1>3. ASSUME NEW k \in 0..Len(s), k < Len(s), k \in T PROVE k + 1 \in T
    <2> DEFINE p == P(k)
               x == s[k + 1]
    <2>1. IsSeq(p) /\ P(k + 1) = Append(p, x) /\ x.ts \in Int /\ Latest(p, x.ts) /\ x \in Range(s)
      BY <1>3, TimelyPrefix
    <2>2. Evicted(p, c) = Chosen(p, G) /\ k + 1 \in Nat
      BY <1>1, <1>3
    <2>3. \A y \in Range(p) : y.ts \in Int
      <3>1. Range(p) \subseteq Range(s)
        BY <1>1, <1>3, SubSeqIsSeq
      <3> QED BY <3>1, TimelyFacts
    <2>4. x \in G <=> x.ts >= c
      BY <2>1 DEF After
    <2> HIDE DEF P, p, x, G
    <2>5. Evicted(Append(p, x), c) = IF x.ts >= c THEN Append(Evicted(p, c), x) ELSE Evicted(p, c)
      BY <2>1, <2>3, EvictedAppend
    <2>6. Chosen(Append(p, x), G) = IF x \in G THEN Append(Chosen(p, G), x) ELSE Chosen(p, G)
      BY <2>1, ChosenAppend
    <2>7. Evicted(P(k + 1), c) = Chosen(P(k + 1), G)
      BY <2>1, <2>2, <2>4, <2>5, <2>6
    <2> QED BY <2>2, <2>7
  <1> HIDE DEF T
  <1>4. Len(s) \in T
    BY <1>1, <1>2, <1>3, PrefixInduction
  <1> QED BY <1>1, <1>4 DEF T

(* An event that is not late goes to the end of its window.                *)
LEMMA InsertedLast ==
  ASSUME NEW w, Timely(w), NEW x, x.ts \in Int, Latest(w, x.ts)
  PROVE  Inserted(w, x) = Append(w, x)
  <1> DEFINE n == Len(w)
             S == {0} \cup {i \in DOMAIN w : w[i].ts <= x.ts}
  <1>1. n \in Nat /\ DOMAIN w = 1..n /\ IsSeq(w) /\ \A i \in 1..n : w[i] \in Range(w)
    BY TimelyFacts, SeqFacts
  <1>2. S = 0..n
    BY <1>1 DEF Latest
  <1>3. Max(S) = n
    <2> HIDE DEF n, S
    <2>1. IsFiniteSet(0..n)
      BY <1>1, FS_Interval
    <2>2. 0..n \subseteq Int /\ 0..n # {}
      BY <1>1
    <2>3. Max(0..n) \in 0..n /\ \A y \in 0..n : Max(0..n) >= y
      BY <2>1, <2>2, MaxOfFinite
    <2> QED BY <1>1, <1>2, <2>3
  <1>4. Inserted(w, x) = InsertAt(w, Max(S) + 1, x)
    BY DEF Inserted
  <1>5. InsertAt(w, n + 1, x) = SubSeq(w, 1, (n + 1) - 1) \o <<x>> \o SubSeq(w, n + 1, n)
    BY Zenon DEF InsertAt
  <1> HIDE DEF S
  <1>6. w \in Seq(Range(w) \cup {x}) /\ x \in Range(w) \cup {x}
    BY <1>1, SeqMonotonic DEF IsSeq
  <1>7. SubSeq(w, 1, (n + 1) - 1) = w /\ SubSeq(w, n + 1, n) = <<>>
    <2>1. (n + 1) - 1 = n
      BY <1>1
    <2>2. SubSeq(w, 1, n) = w
      BY <1>1, PrefixWhole
    <2>3. \A i \in (n + 1)..n : w[i] \in Range(w)
      BY <1>1
    <2>4. SubSeq(w, n + 1, n) \in Seq(Range(w)) /\ Len(SubSeq(w, n + 1, n)) = 0
      BY <1>1, <2>3, SubSeqProperties
    <2> QED BY <2>1, <2>2, <2>4, EmptySeq
  <1>8. w \o <<x>> \o <<>> = Append(w, x)
    BY <1>6
  <1> QED BY <1>3, <1>4, <1>5, <1>7, <1>8
LEMMA AddedInOrder ==
  ASSUME NEW windows, NEW key, NEW x, NEW span \in Nat, Timely(At(windows, key, <<>>)),
         x.ts \in Int, Latest(At(windows, key, <<>>), x.ts)
  PROVE  Added(windows, key, x, span) =
           Put(windows, key, Evicted(Append(At(windows, key, <<>>), x), x.ts - span))
  <1> DEFINE w == At(windows, key, <<>>)
  <1>1. Inserted(w, x) = Append(w, x)
    BY InsertedLast
  <1>2. Last(Append(w, x)) = x
    <2>1. Len(Append(w, x)) = Len(w) + 1 /\ Append(w, x)[Len(w) + 1] = x
      BY TimelyFacts, AppendIsSeq
    <2> QED BY <2>1 DEF Last
  <1>3. Added(windows, key, x, span) = Put(windows, key, Evicted(Inserted(w, x), Last(Inserted(w, x)).ts - span))
    BY Zenon DEF Added
  <1> HIDE DEF w
  <1> QED BY <1>1, <1>2, <1>3 DEF w

(* A detector's windows over a history h: I are the events it looks at, f  *)
(* gives the key of each.                                                  *)
Kept(windows, h, I, f, span) ==
  /\ \A k \in DOMAIN windows : windows[k] = Within(Chosen(h, {x \in I : f[x] = k}), span)
  /\ \A x \in I : f[x] \in DOMAIN windows

LEMMA KeptTimely ==
  ASSUME NEW h, Timely(h), NEW windows, NEW I, NEW f, NEW span, Kept(windows, h, I, f, span), NEW key
  PROVE  LET w == At(windows, key, <<>>)
         IN  /\ Timely(w) /\ Range(w) \subseteq Range(h)
             /\ I \subseteq Range(h) => w = Within(Chosen(h, {x \in I : f[x] = key}), span)
  <1> DEFINE A == Chosen(h, {x \in I : f[x] = key})
  <1>1. Timely(Within(A, span)) /\ Range(Within(A, span)) \subseteq Range(h)
    <2>1. Timely(A) /\ Range(A) \subseteq Range(h)
      BY TimelyChosen
    <2> HIDE DEF A
    <2> DEFINE G == {e \in Range(A) : e.ts >= Max({x.ts : x \in Range(A)}) - span}
    <2>2. Timely(Chosen(A, G)) /\ Range(Chosen(A, G)) \subseteq Range(A)
      BY <2>1, TimelyChosen
    <2>3. Within(A, span) = Chosen(A, G)
      BY DEF Within
    <2> QED BY <2>1, <2>2, <2>3
  <1>2. CASE key \in DOMAIN windows
    BY <1>1, <1>2 DEF Kept, At
  <1>3. CASE key \notin DOMAIN windows
    <2>1. At(windows, key, <<>>) = <<>> /\ Range(<<>>) = {}
      BY <1>3, EmptyIsSeq DEF At
    <2>2. ASSUME I \subseteq Range(h) PROVE Within(A, span) = <<>>
      <3>1. \A x \in Range(h) : x \notin {y \in I : f[y] = key}
        BY <1>3 DEF Kept
      <3>2. A = <<>>
        BY <3>1, TimelyFacts, ChosenNone
      <3>3. Within(<<>>, span) = <<>>
        BY ChosenEmpty DEF Within
      <3> QED BY <3>2, <3>3
    <2> QED BY <2>1, <2>2, TimelyEmpty
  <1> QED BY <1>2, <1>3

LEMMA LatestOf ==
  ASSUME NEW A, Timely(A), NEW x \in Range(A), Latest(A, x.ts)
  PROVE  Max({y.ts : y \in Range(A)}) = x.ts
  <1> DEFINE S == {y.ts : y \in Range(A)}
             Greatest(m) == m \in S /\ \A t \in S : m >= t
  <1>1. \A y \in Range(A) : y.ts \in Int /\ y.ts <= x.ts
    BY TimelyFacts DEF Latest
  <1>2. Greatest(x.ts) /\ S \subseteq Int
    BY <1>1
  <1>3. Max(S) = CHOOSE m \in S : \A t \in S : m >= t
    BY DEF Max
  <1> HIDE DEF S
  <1>4. Greatest(Max(S))
    BY <1>2, <1>3
  <1>5. Max(S) >= x.ts /\ x.ts >= Max(S) /\ Max(S) \in Int /\ x.ts \in Int
    BY <1>2, <1>4
  <1> QED BY <1>5 DEF S
LEMMA WithinAppend ==
  ASSUME NEW A, Timely(A), NEW x, x.ts \in Int, Latest(A, x.ts), NEW span \in Nat
  PROVE  Within(Append(A, x), span) = Evicted(Append(Within(A, span), x), x.ts - span)
  <1> DEFINE c == x.ts - span
             newest == Max({y.ts : y \in Range(A)})
             G == After(A, newest - span)
             w == Chosen(A, G)
  <1>0. IsSeq(A) /\ c \in Int /\ x.ts >= c /\ IsSeq(Append(A, x)) /\ Range(Append(A, x)) = Range(A) \cup {x}
    BY TimelyFacts, AppendIsSeq
  <1>1. Within(A, span) = w
    BY DEF Within, After
  <1>2. Within(Append(A, x), span) = Chosen(Append(A, x), After(Append(A, x), c))
    <2>1. Timely(Append(A, x)) /\ Latest(Append(A, x), x.ts) /\ x \in Range(Append(A, x))
      BY <1>0, TimelyAppend
    <2>2. Max({y.ts : y \in Range(Append(A, x))}) = x.ts
      BY <2>1, LatestOf
    <2> QED BY <2>2 DEF Within, After
  <1>3. Timely(w) /\ Range(w) \subseteq Range(A)
    BY TimelyChosen
  <1>4. Latest(w, x.ts)
    BY <1>3 DEF Latest
  <1>5. Evicted(Append(w, x), c) = Append(Evicted(w, c), x)
    <2>1. IsSeq(w) /\ \A y \in Range(w) : y.ts \in Int
      BY <1>3, TimelyFacts
    <2> HIDE DEF w, c
    <2> QED BY <1>0, <1>4, <2>1, EvictedAppend
  <1>6. Evicted(w, c) = Chosen(w, After(w, c))
    <2> HIDE DEF w, c
    <2> QED BY <1>0, <1>3, EvictedIsChosen
  <1>7. Chosen(w, After(w, c)) = Chosen(A, G \cap After(w, c))
    BY <1>0, ChosenTwice
  <1>8. Chosen(A, G \cap After(w, c)) = Chosen(A, After(Append(A, x), c))
    <2>1. ASSUME NEW y \in Range(A) PROVE y \in G \cap After(w, c) <=> y \in After(Append(A, x), c)
      <3>1. y \in After(Append(A, x), c) <=> y.ts >= c
        BY <1>0 DEF After
      <3>2. ASSUME y.ts >= c PROVE y \in G
        <4>1. newest \in Int /\ newest <= x.ts
          <5>1. A # <<>>
            BY EmptyIsSeq
          <5>2. Last(A) \in Range(A) /\ Latest(A, Last(A).ts)
            BY <5>1, TimelyFacts
          <5>3. newest = Last(A).ts
            BY <5>2, LatestOf
          <5> QED BY <5>2, <5>3, TimelyFacts DEF Latest
        <4> QED BY <3>2, <4>1, TimelyFacts DEF After
      <3>3. ASSUME y \in G PROVE y \in Range(w)
        BY <3>3, <1>0, ChosenHas
      <3> QED BY <3>1, <3>2, <3>3 DEF After
    <2> HIDE DEF G, w, c
    <2> QED BY <1>0, <2>1, ChosenAgree
  <1>9. Chosen(Append(A, x), After(Append(A, x), c)) = Append(Chosen(A, After(Append(A, x), c)), x)
    <2>1. x \in After(Append(A, x), c)
      BY <1>0 DEF After
    <2> QED BY <1>0, <2>1, ChosenAppend
  <1> QED BY <1>1, <1>2, <1>5, <1>6, <1>7, <1>8, <1>9

(* One more event, looked at under key g[e] or not looked at.              *)
LEMMA KeptAdds ==
  ASSUME NEW h, Timely(h), NEW e, e.ts \in Int, Latest(h, e.ts), NEW span \in Nat,
         NEW I, I \subseteq Range(h), NEW f, NEW J, J = I \cup {e}, e \in Range(h) => e \in I,
         NEW g, \A x \in I : f[x] = g[x], NEW windows, Kept(windows, h, I, f, span)
  PROVE  Kept(Added(windows, g[e], e, span), Append(h, e), J, g, span)
  <1> DEFINE key == g[e]
             w == At(windows, key, <<>>)
             of(k) == {x \in I : f[x] = k}
             ofJ(k) == {x \in J : g[x] = k}
             new == Evicted(Append(w, e), e.ts - span)
             after == Put(windows, key, new)
  <1>1. IsSeq(h) /\ Timely(w) /\ Range(w) \subseteq Range(h) /\ w = Within(Chosen(h, of(key)), span)
    <2>1. IsSeq(h)
      BY TimelyFacts
    <2> HIDE DEF key
    <2> HIDE DEF w
    <2>2. LET u == At(windows, key, <<>>)
          IN  /\ Timely(u) /\ Range(u) \subseteq Range(h)
              /\ I \subseteq Range(h) => u = Within(Chosen(h, {x \in I : f[x] = key}), span)
      BY KeptTimely, SMTT(30)
    <2>3. Timely(w) /\ Range(w) \subseteq Range(h) /\ w = Within(Chosen(h, of(key)), span)
      BY <2>2 DEF w
    <2> QED BY <2>1, <2>3
  <1>2. Added(windows, key, e, span) = after
    <2>1. Latest(w, e.ts)
      BY <1>1 DEF Latest
    <2> QED BY <1>1, <2>1, AddedInOrder
  <1>3. \A k : \A x \in Range(h) : x \in ofJ(k) <=> x \in of(k)
    OBVIOUS
  <1>4. \A k : Chosen(h, ofJ(k)) = Chosen(h, of(k))
    <2> TAKE k
    <2>1. \A x \in Range(h) : x \in ofJ(k) <=> x \in of(k)
      BY <1>3
    <2> HIDE DEF of, ofJ
    <2> QED BY <1>1, <2>1, ChosenAgree
  <1>5. \A k : Chosen(Append(h, e), ofJ(k)) = IF k = key THEN Append(Chosen(h, of(k)), e) ELSE Chosen(h, of(k))
    <2> TAKE k
    <2>1. e \in ofJ(k) <=> k = key
      OBVIOUS
    <2>2. Chosen(Append(h, e), ofJ(k)) = IF e \in ofJ(k) THEN Append(Chosen(h, ofJ(k)), e) ELSE Chosen(h, ofJ(k))
      <3> HIDE DEF ofJ
      <3> QED BY <1>1, ChosenAppend
    <2>3. Chosen(h, ofJ(k)) = Chosen(h, of(k))
      BY <1>4
    <2> HIDE DEF of, ofJ, key
    <2> QED BY <2>1, <2>2, <2>3
  <1>6. new = Within(Append(Chosen(h, of(key)), e), span)
    <2> DEFINE A == Chosen(h, of(key))
    <2>1. Timely(A) /\ Range(A) \subseteq Range(h)
      BY TimelyChosen
    <2>2. Latest(A, e.ts)
      BY <2>1 DEF Latest
    <2>3. w = Within(A, span)
      BY <1>1
    <2> HIDE DEF A, w
    <2>4. Within(Append(A, e), span) = Evicted(Append(Within(A, span), e), e.ts - span)
      BY <2>1, <2>2, WithinAppend
    <2> QED BY <2>3, <2>4 DEF A
  <1>7. DOMAIN after = DOMAIN windows \cup {key} /\ \A k \in DOMAIN after : after[k] = IF k = key THEN new ELSE windows[k]
    BY DEF Put
  <1>8. \A k \in DOMAIN windows : windows[k] = Within(Chosen(h, of(k)), span)
    BY DEF Kept
  <1>9. \A x \in J : g[x] \in DOMAIN windows \cup {key}
    BY DEF Kept
  <1> HIDE DEF of, ofJ, new, after, key
  <1>10. \A k \in DOMAIN after : after[k] = Within(Chosen(Append(h, e), ofJ(k)), span)
    BY <1>5, <1>6, <1>7, <1>8
  <1> QED BY <1>2, <1>7, <1>9, <1>10 DEF Kept, ofJ, key
LEMMA KeptSkips ==
  ASSUME NEW h, IsSeq(h), NEW e, NEW I, e \notin I, NEW f, NEW g, \A x \in I : f[x] = g[x],
         NEW windows, NEW span, Kept(windows, h, I, f, span)
  PROVE  Kept(windows, Append(h, e), I, g, span)
  <1> DEFINE of(k) == {x \in I : f[x] = k}
             ofg(k) == {x \in I : g[x] = k}
  <1>1. \A k : ofg(k) = of(k) /\ e \notin of(k)
    OBVIOUS
  <1>2. \A k \in DOMAIN windows : windows[k] = Within(Chosen(h, of(k)), span)
    BY DEF Kept
  <1>3. \A x \in I : g[x] \in DOMAIN windows
    BY DEF Kept
  <1> HIDE DEF of, ofg
  <1>4. \A k : Chosen(Append(h, e), ofg(k)) = Chosen(h, of(k))
    BY <1>1, ChosenAppend
  <1>5. \A k \in DOMAIN windows : windows[k] = Within(Chosen(Append(h, e), ofg(k)), span)
    BY <1>2, <1>4
  <1> QED BY <1>3, <1>5 DEF Kept, ofg

-----------------------------------------------------------------------------
(* The windows that are filled in order of time: which events each looks   *)
(* at under a profile's setup, under which key, and for how long.          *)

Windowed == {"contacts", "events", "slow", "reflection", "beacons", "queries", "failed", "model", "lexical",
             "sessions"}
Looks(setup, d, e) ==
  CASE d = "contacts" -> e.kind = "connection" /\ "recon" \in setup.enabled /\ e.src \notin AuthorizedSources
    [] d = "events" -> e.kind = "connection" /\ "ddos" \in setup.enabled /\ e.protocol \in {"tcp", "udp"}
    [] d = "slow" -> /\ e.kind = "connection" /\ "ddos" \in setup.enabled
                     /\ e.protocol = "tcp" /\ e.service = "http"
    [] d = "reflection" -> /\ e.kind = "connection" /\ "ddos" \in setup.enabled
                           /\ e.protocol = "udp" /\ setup.strict
    [] d = "beacons" -> /\ e.kind = "connection" /\ "c2" \in setup.enabled /\ e.dport # 53 /\ e.service # "dns"
                        /\ ~\E r \in TrustedPeriodic : RuleMatches(r, e)
    [] d = "queries" -> e.kind = "dns" /\ "dns" \in setup.enabled
    [] d = "failed" -> e.kind = "dns" /\ "dns" \in setup.enabled /\ ~Allowed(e)
    [] d = "model" -> e.kind = "dns" /\ "dns" \in setup.enabled /\ WithOutcome(e)
    [] d = "lexical" -> e.kind = "dns" /\ "dns" \in setup.enabled /\ Lexical(e)
    [] d = "sessions" -> e.kind = "encrypted" /\ "encrypted" \in setup.enabled /\ e.features # None /\ e.fp # None
KeyOf(d, e) ==
  CASE d = "contacts" -> e.src [] d = "events" -> e.dst [] d = "slow" -> e.dst
    [] d = "reflection" -> e.src
    [] d = "beacons" -> <<e.src, e.dst, e.dport, e.protocol>>
    [] d = "queries" -> <<e.src, e.root>> [] d = "failed" -> e.src
    [] d = "model" -> e.src [] d = "lexical" -> e.src
    [] d = "sessions" -> <<e.src, e.dst, e.fp>>
SpanOf(d) ==
  CASE d = "contacts" -> ReconConfig.window [] d = "events" -> DDoSConfig.window
    [] d = "slow" -> DDoSConfig.slowWindow [] d = "reflection" -> DDoSConfig.window
    [] d = "beacons" -> C2Config.window
    [] d = "queries" -> DNSConfig.window [] d = "failed" -> DNSConfig.window
    [] d = "model" -> DNSConfig.window [] d = "lexical" -> DNSConfig.window
    [] d = "sessions" -> EncryptedConfig.window
Looked(setup, d, h) == {x \in Range(h) : Looks(setup, d, x)}
Keys(d, h) == [x \in Range(h) |-> KeyOf(d, x)]
Exactly(setup, d, windows, h) == Kept(windows, h, Looked(setup, d, h), Keys(d, h), SpanOf(d))

LEMMA SpansPositive == \A d \in Windowed : SpanOf(d) \in Nat
  BY ReconConfigAssumption, DDoSConfigAssumption, C2ConfigAssumption, DNSConfigAssumption, EncryptedSpanAssumption
     DEF Windowed, SpanOf, ReconConfigValid, DDoSConfigValid, C2ConfigValid, DNSConfigValid
LEMMA ExactlyMeans ==
  ASSUME NEW setup, NEW d, NEW windows, NEW h
  PROVE  Exactly(setup, d, windows, h) <=>
           /\ \A k \in DOMAIN windows :
                windows[k] = Within(Chosen(h, {x \in Range(h) : Looks(setup, d, x) /\ KeyOf(d, x) = k}), SpanOf(d))
           /\ \A x \in Range(h) : Looks(setup, d, x) => KeyOf(d, x) \in DOMAIN windows
  <1>1. ASSUME NEW k
        PROVE  {x \in Looked(setup, d, h) : Keys(d, h)[x] = k} =
                 {x \in Range(h) : Looks(setup, d, x) /\ KeyOf(d, x) = k}
    BY DEF Looked, Keys
  <1>2. (\A x \in Looked(setup, d, h) : Keys(d, h)[x] \in DOMAIN windows)
          <=> (\A x \in Range(h) : Looks(setup, d, x) => KeyOf(d, x) \in DOMAIN windows)
    BY DEF Looked, Keys
  <1> QED BY <1>1, <1>2 DEF Exactly, Kept
LEMMA ExactlyStep ==
  ASSUME NEW setup, NEW d \in Windowed, NEW h, Timely(h), NEW e, e.ts \in Int, Latest(h, e.ts),
         NEW windows, Exactly(setup, d, windows, h), NEW new,
         new = IF Looks(setup, d, e) THEN Added(windows, KeyOf(d, e), e, SpanOf(d)) ELSE windows
  PROVE  Exactly(setup, d, new, Append(h, e))
  <1> DEFINE I == Looked(setup, d, h)
             J == Looked(setup, d, Append(h, e))
             f == Keys(d, h)
             g == Keys(d, Append(h, e))
  <1>1. IsSeq(h) /\ Range(Append(h, e)) = Range(h) \cup {e} /\ SpanOf(d) \in Nat
    BY TimelyFacts, AppendIsSeq, SpansPositive
  <1>2. I \subseteq Range(h) /\ (\A x \in I : f[x] = g[x]) /\ g[e] = KeyOf(d, e)
    BY <1>1 DEF Looked, Keys
  <1>3. (Looks(setup, d, e) => J = I \cup {e} /\ (e \in Range(h) => e \in I))
        /\ (~Looks(setup, d, e) => J = I /\ e \notin I)
    BY <1>1 DEF Looked
  <1>4. Kept(windows, h, I, f, SpanOf(d))
    BY DEF Exactly
  <1> HIDE DEF I, J, f, g
  <1>5. CASE Looks(setup, d, e)
    <2>1. Kept(Added(windows, g[e], e, SpanOf(d)), Append(h, e), J, g, SpanOf(d))
      BY <1>1, <1>2, <1>3, <1>4, <1>5, KeptAdds
    <2> QED BY <1>2, <1>5, <2>1 DEF Exactly, J, g
  <1>6. CASE ~Looks(setup, d, e)
    <2>1. Kept(windows, Append(h, e), I, g, SpanOf(d))
      BY <1>1, <1>2, <1>3, <1>4, <1>6, KeptSkips
    <2> QED BY <1>3, <1>6, <2>1 DEF Exactly, J, g
  <1> QED BY <1>5, <1>6

(* What a detector makes of its windows.                                   *)
Grown(setup, d, windows, e) ==
  IF Looks(setup, d, e) THEN Added(windows, KeyOf(d, e), e, SpanOf(d)) ELSE windows

LEMMA ReconWindows ==
  ASSUME NEW setup, "recon" \in setup.enabled, NEW h, Timely(h), NEW e, e.kind = "connection",
         e.ts \in Int, Latest(h, e.ts), NEW state, Exactly(setup, "contacts", state.contacts, h)
  PROVE  ReconProcess(state, e).state.contacts = Grown(setup, "contacts", state.contacts, e)
  <1> DEFINE w == At(state.contacts, e.src, <<>>)
             c == Evicted(Append(w, e), e.ts - ReconConfig.window)
  <1>1. ReconProcess(state, e).state.contacts =
          IF e.src \in AuthorizedSources THEN state.contacts ELSE Put(state.contacts, e.src, c)
    BY DEF ReconProcess, Answer
  <1>2. Looks(setup, "contacts", e) <=> e.src \notin AuthorizedSources
    BY DEF Looks
  <1>3. KeyOf("contacts", e) = e.src /\ SpanOf("contacts") = ReconConfig.window /\ ReconConfig.window \in Nat
    BY ReconConfigAssumption DEF KeyOf, SpanOf, ReconConfigValid
  <1>4. Timely(w) /\ Range(w) \subseteq Range(h)
    BY KeptTimely DEF Exactly
  <1>5. Latest(w, e.ts)
    BY <1>4 DEF Latest
  <1>6. Added(state.contacts, e.src, e, ReconConfig.window) = Put(state.contacts, e.src, c)
    BY <1>3, <1>4, <1>5, AddedInOrder
  <1> QED BY <1>1, <1>2, <1>3, <1>6 DEF Grown
LEMMA DDoSWindows ==
  ASSUME NEW setup, "ddos" \in setup.enabled, NEW e, e.kind = "connection", NEW state
  PROVE  /\ DDoSProcess(state, e, setup.strict).state.events = Grown(setup, "events", state.events, e)
         /\ DDoSProcess(state, e, setup.strict).state.slow = Grown(setup, "slow", state.slow, e)
         /\ DDoSProcess(state, e, setup.strict).state.reflection = Grown(setup, "reflection", state.reflection, e)
  <1> DEFINE events == Added(state.events, e.dst, e, DDoSConfig.window)
             web == e.protocol = "tcp" /\ e.service = "http"
             slow == IF web THEN Added(state.slow, e.dst, e, DDoSConfig.slowWindow) ELSE state.slow
             reflecting == e.protocol = "udp" /\ setup.strict
             reflection == IF reflecting THEN Added(state.reflection, e.src, e, DDoSConfig.window)
                           ELSE state.reflection
  <1>1. DDoSProcess(state, e, setup.strict).state.events = IF e.protocol \notin {"tcp", "udp"} THEN state.events ELSE events
    BY DEF DDoSProcess, Answer
  <1>2. DDoSProcess(state, e, setup.strict).state.slow = IF e.protocol \notin {"tcp", "udp"} THEN state.slow ELSE slow
    BY DEF DDoSProcess, Answer
  <1>r. DDoSProcess(state, e, setup.strict).state.reflection =
          IF e.protocol \notin {"tcp", "udp"} THEN state.reflection ELSE reflection
    BY DEF DDoSProcess, Answer
  <1>3. /\ Looks(setup, "events", e) <=> e.protocol \in {"tcp", "udp"}
        /\ Looks(setup, "slow", e) <=> web
        /\ Looks(setup, "reflection", e) <=> reflecting
    BY DEF Looks
  <1>4. /\ KeyOf("events", e) = e.dst /\ KeyOf("slow", e) = e.dst /\ KeyOf("reflection", e) = e.src
        /\ SpanOf("events") = DDoSConfig.window /\ SpanOf("slow") = DDoSConfig.slowWindow
        /\ SpanOf("reflection") = DDoSConfig.window
    BY DEF KeyOf, SpanOf
  <1> QED BY <1>1, <1>2, <1>r, <1>3, <1>4 DEF Grown
LEMMA C2Windows ==
  ASSUME NEW setup, "c2" \in setup.enabled, NEW e, e.kind = "connection", NEW state, NEW met
  PROVE  C2Process(state, e, met).state.windows = Grown(setup, "beacons", state.windows, e)
  <1> DEFINE key == <<e.src, e.dst, e.dport, e.protocol>>
             exempt == e.dport = 53 \/ e.service = "dns" \/ \E r \in TrustedPeriodic : RuleMatches(r, e)
  <1>1. C2Process(state, e, met).state.windows =
          IF exempt THEN state.windows ELSE Added(state.windows, key, e, C2Config.window)
    BY DEF C2Process, Answer
  <1>2. Looks(setup, "beacons", e) <=> ~exempt
    BY DEF Looks
  <1>3. KeyOf("beacons", e) = key /\ SpanOf("beacons") = C2Config.window
    BY DEF KeyOf, SpanOf
  <1> QED BY <1>1, <1>2, <1>3 DEF Grown
LEMMA DNSWindows ==
  ASSUME NEW setup, "dns" \in setup.enabled, NEW e, e.kind = "dns", NEW state
  PROVE  /\ DNSProcess(state, e).state.queries = Grown(setup, "queries", state.queries, e)
         /\ DNSProcess(state, e).state.failed = Grown(setup, "failed", state.failed, e)
         /\ DNSProcess(state, e).state.model = Grown(setup, "model", state.model, e)
         /\ DNSProcess(state, e).state.lexical = Grown(setup, "lexical", state.lexical, e)
  <1>1. DNSProcess(state, e).state.queries = Added(state.queries, <<e.src, e.root>>, e, DNSConfig.window)
    BY DEF DNSProcess, Answer
  <1>2. DNSProcess(state, e).state.failed =
          IF ~Allowed(e) THEN Added(state.failed, e.src, e, DNSConfig.window) ELSE state.failed
    BY DEF DNSProcess, Answer
  <1>m. DNSProcess(state, e).state.model =
          IF WithOutcome(e) THEN Added(state.model, e.src, e, DNSConfig.window) ELSE state.model
    BY DEF DNSProcess, Answer
  <1>l. DNSProcess(state, e).state.lexical =
          IF Lexical(e) THEN Added(state.lexical, e.src, e, DNSConfig.window) ELSE state.lexical
    BY DEF DNSProcess, Answer
  <1>3. Looks(setup, "queries", e) /\ (Looks(setup, "failed", e) <=> ~Allowed(e))
        /\ (Looks(setup, "model", e) <=> WithOutcome(e)) /\ (Looks(setup, "lexical", e) <=> Lexical(e))
    BY DEF Looks
  <1>4. /\ KeyOf("queries", e) = <<e.src, e.root>> /\ KeyOf("failed", e) = e.src
        /\ KeyOf("model", e) = e.src /\ KeyOf("lexical", e) = e.src
        /\ SpanOf("queries") = DNSConfig.window /\ SpanOf("failed") = DNSConfig.window
        /\ SpanOf("model") = DNSConfig.window /\ SpanOf("lexical") = DNSConfig.window
    BY DEF KeyOf, SpanOf
  <1> QED BY <1>1, <1>2, <1>m, <1>l, <1>3, <1>4 DEF Grown
LEMMA EncryptedWindows ==
  ASSUME NEW setup, "encrypted" \in setup.enabled, NEW e, e.kind = "encrypted", NEW state
  PROVE  EncryptedProcess(state, e).state.windows = Grown(setup, "sessions", state.windows, e)
  <1> DEFINE key == <<e.src, e.dst, e.fp>>
             bare == e.features = None \/ e.fp = None
  <1>1. EncryptedProcess(state, e).state.windows =
          IF bare THEN state.windows ELSE Added(state.windows, key, e, EncryptedConfig.window)
    BY DEF EncryptedProcess, Answer
  <1>2. Looks(setup, "sessions", e) <=> ~bare
    BY DEF Looks
  <1>3. KeyOf("sessions", e) = key /\ SpanOf("sessions") = EncryptedConfig.window
    BY DEF KeyOf, SpanOf
  <1> QED BY <1>1, <1>2, <1>3 DEF Grown

-----------------------------------------------------------------------------
(* A session's time and its windows.                                       *)

EventSound(e) == e.ts \in Int /\ {"ts", "kind"} \subseteq DOMAIN e
TimeInv ==
  /\ profile \in Profiles /\ Clocked(history) /\ (latest = None \/ latest \in Int)
  /\ Setup.enabled # {"exfiltration"} =>
       /\ Timely(history) /\ (latest = None => history = <<>>)
       /\ latest # None => Latest(history, latest)
IdleInv ==
  /\ On("recon") \/ recon = ReconFresh
  /\ On("ddos") \/ ddos = DDoSFresh
  /\ On("c2") \/ c2 = C2Fresh
  /\ On("dns") \/ dns = DNSFresh
  /\ On("encrypted") \/ encrypted = EncryptedFresh
WindowsInv ==
  Setup.enabled # {"exfiltration"} =>
    /\ Exactly(Setup, "contacts", recon.contacts, history)
    /\ Exactly(Setup, "events", ddos.events, history)
    /\ Exactly(Setup, "slow", ddos.slow, history)
    /\ Exactly(Setup, "reflection", ddos.reflection, history)
    /\ Exactly(Setup, "beacons", c2.windows, history)
    /\ Exactly(Setup, "queries", dns.queries, history)
    /\ Exactly(Setup, "failed", dns.failed, history)
    /\ Exactly(Setup, "model", dns.model, history)
    /\ Exactly(Setup, "lexical", dns.lexical, history)
    /\ Exactly(Setup, "sessions", encrypted.windows, history)
SessionInv == TimeInv /\ IdleInv /\ WindowsInv

LEMMA SessionInit == Init => SessionInv
  <1> SUFFICES ASSUME Init PROVE SessionInv
    OBVIOUS
  <1>1. history = <<>> /\ latest = None /\ profile \in Profiles
    BY DEF Init
  <1>2. TimeInv
    BY <1>1, TimelyEmpty DEF TimeInv, Timely
  <1>3. IdleInv
    BY DEF Init, IdleInv
  <1>4. \A d : Exactly(Setup, d, <<>>, <<>>)
    BY EmptyIsSeq DEF Exactly, Kept, Looked
  <1>5. /\ recon.contacts = <<>> /\ ddos.events = <<>> /\ ddos.slow = <<>> /\ ddos.reflection = <<>>
        /\ c2.windows = <<>> /\ dns.queries = <<>> /\ dns.failed = <<>> /\ dns.model = <<>> /\ dns.lexical = <<>>
        /\ encrypted.windows = <<>>
    BY DEF Init, ReconFresh, DDoSFresh, C2Fresh, DNSFresh, EncryptedFresh
  <1>6. WindowsInv
    BY <1>1, <1>4, <1>5 DEF WindowsInv
  <1> QED BY <1>2, <1>3, <1>6 DEF SessionInv

(* Every event has a time and a kind.                                      *)
LEMMA EventsSound ==
  ASSUME TimeInv, Arrives
  PROVE  \E e : EventSound(e) /\ (ProcessConnection(e) \/ ProcessDNS(e) \/ ProcessEncrypted(e))
  <1>1. PICK shape \in Setup.shapes, gap \in Setup.gaps, flow \in Flow :
          LET e == Put(Put(shape, "ts", Now + gap), "flow", flow)
          IN  ProcessConnection(e) \/ ProcessDNS(e) \/ ProcessEncrypted(e)
    BY Zenon DEF Arrives
  <1>2. "kind" \in DOMAIN shape /\ gap \in Int /\ None \notin Int /\ Now \in Int
    BY TrafficAssumption DEF TimeInv, TrafficValid, Setup, Now
  <1> DEFINE t == Now + gap
             bare == Put(shape, "ts", t)
             e == Put(bare, "flow", flow)
  <1>3. t \in Int /\ DOMAIN bare = DOMAIN shape \cup {"ts"} /\ bare["ts"] = t
    BY <1>2 DEF Put
  <1>4. DOMAIN e = DOMAIN bare \cup {"flow"} /\ e["ts"] = bare["ts"]
    BY <1>3 DEF Put
  <1>5. EventSound(e)
    BY <1>2, <1>3, <1>4 DEF EventSound
  <1> HIDE DEF e
  <1>6. ProcessConnection(e) \/ ProcessDNS(e) \/ ProcessEncrypted(e)
    BY <1>1 DEF e
  <1> QED BY <1>5, <1>6

LEMMA TimeStep ==
  ASSUME TimeInv, NEW e, e.ts \in Int, Accepts(e), NEW x, x.ts = e.ts,
         profile' = profile, latest' = e.ts, history' = Append(history, x)
  PROVE  /\ TimeInv'
         /\ Setup.enabled # {"exfiltration"} => Timely(history) /\ Latest(history, x.ts)
  <1>1. Setup' = Setup /\ None \notin Int
    BY TrafficAssumption DEF Setup
  <1>2. Clocked(Append(history, x))
    <2>1. IsSeq(history) /\ \A i \in 1..Len(history) : history[i].ts \in Int
      BY DEF TimeInv, Clocked
    <2>2. /\ IsSeq(Append(history, x)) /\ Len(Append(history, x)) = Len(history) + 1
          /\ Append(history, x)[Len(history) + 1] = x /\ Len(history) \in Nat
          /\ \A i \in 1..Len(history) : Append(history, x)[i] = history[i]
      BY <2>1, AppendIsSeq, SeqFacts
    <2>3. \A i \in 1..(Len(history) + 1) : i \in 1..Len(history) \/ i = Len(history) + 1
      BY <2>2
    <2> QED BY <2>1, <2>2, <2>3 DEF Clocked
  <1>3. ASSUME Setup.enabled # {"exfiltration"} PROVE Timely(history) /\ Latest(history, x.ts)
    <2>1. Timely(history)
      BY <1>3 DEF TimeInv
    <2>2. CASE latest = None
      BY <1>3, <2>1, <2>2, TimelyEmpty DEF TimeInv
    <2>3. CASE latest # None
      <3>1. latest \in Int /\ latest <= x.ts /\ Latest(history, latest)
        BY <1>3, <2>3 DEF TimeInv, Accepts
      <3>2. \A y \in Range(history) : y.ts \in Int /\ y.ts <= latest
        BY <2>1, <3>1, TimelyFacts DEF Latest
      <3> QED BY <2>1, <3>1, <3>2 DEF Latest
    <2> QED BY <2>2, <2>3
  <1>4. Setup.enabled # {"exfiltration"} => Timely(Append(history, x)) /\ Latest(Append(history, x), e.ts)
    BY <1>3, TimelyAppend
  <1> QED BY <1>1, <1>2, <1>3, <1>4 DEF TimeInv

(* What an event of each kind changes.                                     *)
LEMMA ConnectionStates ==
  ASSUME NEW e, ProcessConnection(e)
  PROVE  /\ Accepts(e) /\ e.kind = "connection"
         /\ UNCHANGED <<profile, finished, report, session, context, dns, features, encrypted>>
         /\ latest' = e.ts /\ history' = Append(history, e)
         /\ recon' = IF On("recon") THEN ReconProcess(recon, e).state ELSE recon
         /\ ddos' = IF On("ddos") THEN DDoSProcess(ddos, e, Setup.strict).state ELSE ddos
         /\ \E met : c2' = IF On("c2") THEN C2Process(c2, e, met).state ELSE c2
  <1> DEFINE s == [recon |-> recon, ddos |-> ddos, c2 |-> c2, exfil |-> exfil]
             sessions == {m \in FreshMetadata(e) : m \in Between(e)}
             done == Connection(s, e, sessions)
             uncooled == Connection([d \in DOMAIN s |-> Uncooled(s[d])], e, sessions)
  <1>1. /\ Accepts(e) /\ e.kind = "connection"
        /\ recon' = done.recon.state /\ ddos' = done.ddos.state /\ c2' = done.c2.state
        /\ Records(e, WithNames(Raised(done), e), Raised(uncooled))
        /\ UNCHANGED <<context, dns, features, encrypted>>
    BY Zenon DEF ProcessConnection
  <1> HIDE DEF uncooled
  <1>2. /\ UNCHANGED <<profile, finished, report, session>>
        /\ latest' = e.ts /\ history' = Append(history, e)
    BY <1>1 DEF Records
  <1>3. s.recon = recon /\ s.ddos = ddos /\ s.c2 = c2
    OBVIOUS
  <1> HIDE DEF s, sessions
  <1>4. /\ done.recon.state = IF On("recon") THEN ReconProcess(recon, e).state ELSE recon
        /\ done.ddos.state = IF On("ddos") THEN DDoSProcess(ddos, e, Setup.strict).state ELSE ddos
        /\ done.c2.state = IF On("c2") THEN C2Process(c2, e, sessions).state ELSE c2
    BY <1>3 DEF Connection, Answer
  <1> QED BY <1>1, <1>2, <1>4
LEMMA DNSStates ==
  ASSUME NEW e, ProcessDNS(e)
  PROVE  /\ Accepts(e) /\ e.kind = "dns"
         /\ UNCHANGED <<profile, finished, report, session, recon, ddos, c2, exfil, features, encrypted>>
         /\ latest' = e.ts /\ history' = Append(history, e)
         /\ dns' = IF On("dns") THEN DNSProcess(dns, e).state ELSE dns
  BY DEF ProcessDNS, Records, Answer
LEMMA EncryptedStates ==
  ASSUME NEW e, ProcessEncrypted(e), EventSound(e)
  PROVE  \E x : /\ Accepts(e) /\ x.kind = "encrypted" /\ x.ts = e.ts
                /\ UNCHANGED <<profile, finished, report, session, recon, ddos, c2, dns, exfil>>
                /\ latest' = e.ts /\ history' = Append(history, x)
                /\ encrypted' = IF On("encrypted") THEN EncryptedProcess(encrypted, x).state ELSE encrypted
  <1> DEFINE rich == Enrich(features, e, ~Setup.derived)
             x == rich.event
             done == IF On("encrypted") THEN EncryptedProcess(encrypted, x) ELSE Answer(encrypted, <<>>)
             uncooled == IF On("encrypted") THEN EncryptedProcess(Uncooled(encrypted), x).alerts ELSE <<>>
  <1>1. /\ Accepts(e) /\ e.kind = "encrypted" /\ encrypted' = done.state
        /\ Records(x, WithNames(done.alerts, e), uncooled)
        /\ UNCHANGED <<context, recon, ddos, c2, dns, exfil>>
    BY Zenon DEF ProcessEncrypted
  <1>2. \E value : x = Put(e, "features", value)
    BY DEF Enrich, Enriched
  <1>3. x.kind = e.kind /\ x.ts = e.ts
    BY <1>2 DEF Put, EventSound
  <1>4. done.state = IF On("encrypted") THEN EncryptedProcess(encrypted, x).state ELSE encrypted
    BY DEF Answer
  <1> HIDE DEF x, done, uncooled
  <1>5. UNCHANGED <<profile, finished, report, session>> /\ latest' = x.ts /\ history' = Append(history, x)
    BY <1>1 DEF Records
  <1> QED BY <1>1, <1>3, <1>4, <1>5

LEMMA ExactlyGrows ==
  ASSUME NEW setup, NEW h, Timely(h), NEW e, e.ts \in Int, Latest(h, e.ts)
  PROVE  \A d \in Windowed : \A windows :
           Exactly(setup, d, windows, h) => Exactly(setup, d, Grown(setup, d, windows, e), Append(h, e))
  BY ExactlyStep DEF Grown

LEMMA WindowsGrow ==
  ASSUME WindowsInv, Setup' = Setup, NEW e, e.ts \in Int, history' = Append(history, e),
         Setup.enabled # {"exfiltration"} =>
           /\ Timely(history) /\ Latest(history, e.ts)
           /\ recon'.contacts = Grown(Setup, "contacts", recon.contacts, e)
           /\ ddos'.events = Grown(Setup, "events", ddos.events, e)
           /\ ddos'.slow = Grown(Setup, "slow", ddos.slow, e)
           /\ ddos'.reflection = Grown(Setup, "reflection", ddos.reflection, e)
           /\ c2'.windows = Grown(Setup, "beacons", c2.windows, e)
           /\ dns'.queries = Grown(Setup, "queries", dns.queries, e)
           /\ dns'.failed = Grown(Setup, "failed", dns.failed, e)
           /\ dns'.model = Grown(Setup, "model", dns.model, e)
           /\ dns'.lexical = Grown(Setup, "lexical", dns.lexical, e)
           /\ encrypted'.windows = Grown(Setup, "sessions", encrypted.windows, e)
  PROVE  WindowsInv'
  <1> DEFINE on == Setup
  <1>1. ASSUME on.enabled # {"exfiltration"}
        PROVE  /\ Exactly(on, "contacts", recon'.contacts, history')
               /\ Exactly(on, "events", ddos'.events, history')
               /\ Exactly(on, "slow", ddos'.slow, history')
               /\ Exactly(on, "reflection", ddos'.reflection, history')
               /\ Exactly(on, "beacons", c2'.windows, history')
               /\ Exactly(on, "queries", dns'.queries, history')
               /\ Exactly(on, "failed", dns'.failed, history')
               /\ Exactly(on, "model", dns'.model, history')
               /\ Exactly(on, "lexical", dns'.lexical, history')
               /\ Exactly(on, "sessions", encrypted'.windows, history')
    <2>1. /\ Exactly(on, "contacts", recon.contacts, history)
          /\ Exactly(on, "events", ddos.events, history)
          /\ Exactly(on, "slow", ddos.slow, history)
          /\ Exactly(on, "reflection", ddos.reflection, history)
          /\ Exactly(on, "beacons", c2.windows, history)
          /\ Exactly(on, "queries", dns.queries, history)
          /\ Exactly(on, "failed", dns.failed, history)
          /\ Exactly(on, "model", dns.model, history)
          /\ Exactly(on, "lexical", dns.lexical, history)
          /\ Exactly(on, "sessions", encrypted.windows, history)
      BY <1>1 DEF WindowsInv
    <2>2. \A d \in Windowed : \A windows :
            Exactly(on, d, windows, history) => Exactly(on, d, Grown(on, d, windows, e), history')
      BY <1>1, ExactlyGrows
    <2> QED BY <1>1, <2>1, <2>2 DEF Windowed
  <1> QED BY <1>1 DEF WindowsInv

LEMMA ArrivalStep == SessionInv /\ Arrives => SessionInv'
  <1> SUFFICES ASSUME SessionInv, Arrives PROVE SessionInv'
    OBVIOUS
  <1>1. PICK e : EventSound(e) /\ (ProcessConnection(e) \/ ProcessDNS(e) \/ ProcessEncrypted(e))
    BY EventsSound DEF SessionInv
  <1> DEFINE on == Setup
  <1>0. e.ts \in Int /\ TimeInv /\ IdleInv /\ WindowsInv
    BY <1>1 DEF EventSound, SessionInv
  <1>2. CASE ProcessConnection(e)
    <2>1. PICK met :
            /\ Accepts(e) /\ e.kind = "connection" /\ UNCHANGED <<profile, dns, encrypted>>
            /\ latest' = e.ts /\ history' = Append(history, e)
            /\ recon' = IF On("recon") THEN ReconProcess(recon, e).state ELSE recon
            /\ ddos' = IF On("ddos") THEN DDoSProcess(ddos, e, Setup.strict).state ELSE ddos
            /\ c2' = IF On("c2") THEN C2Process(c2, e, met).state ELSE c2
      BY <1>2, ConnectionStates
    <2>2. TimeInv' /\ (on.enabled # {"exfiltration"} => Timely(history) /\ Latest(history, e.ts))
      BY <1>0, <2>1, TimeStep
    <2>3. Setup' = Setup /\ \A d : On(d)' = On(d)
      BY <2>1 DEF Setup, On
    <2>4. IdleInv'
      BY <1>0, <2>1, <2>3 DEF IdleInv
    <2>5. ASSUME on.enabled # {"exfiltration"}
          PROVE  /\ Timely(history) /\ Latest(history, e.ts)
                 /\ recon'.contacts = Grown(on, "contacts", recon.contacts, e)
                 /\ ddos'.events = Grown(on, "events", ddos.events, e)
                 /\ ddos'.slow = Grown(on, "slow", ddos.slow, e)
                 /\ ddos'.reflection = Grown(on, "reflection", ddos.reflection, e)
                 /\ c2'.windows = Grown(on, "beacons", c2.windows, e)
                 /\ dns'.queries = Grown(on, "queries", dns.queries, e)
                 /\ dns'.failed = Grown(on, "failed", dns.failed, e)
                 /\ dns'.model = Grown(on, "model", dns.model, e)
                 /\ dns'.lexical = Grown(on, "lexical", dns.lexical, e)
                 /\ encrypted'.windows = Grown(on, "sessions", encrypted.windows, e)
      <3>1. Timely(history) /\ Latest(history, e.ts)
        BY <2>2, <2>5
      <3>2. Exactly(on, "contacts", recon.contacts, history)
        BY <1>0, <2>5 DEF WindowsInv
      <3>3. \A d : Looks(on, d, e) /\ d \in Windowed =>
               /\ d = "contacts" => On("recon")
               /\ d \in {"events", "slow", "reflection"} => On("ddos")
               /\ d = "beacons" => On("c2")
               /\ d \notin {"queries", "failed", "model", "lexical", "sessions"}
        BY <2>1 DEF Looks, On, Windowed
      <3>4. recon'.contacts = Grown(on, "contacts", recon.contacts, e)
        <4>1. CASE On("recon")
          BY <1>0, <2>1, <3>1, <3>2, <4>1, ReconWindows DEF On
        <4>2. CASE ~On("recon")
          BY <2>1, <3>3, <4>2 DEF Grown, Windowed
        <4> QED BY <4>1, <4>2
      <3>5. /\ ddos'.events = Grown(on, "events", ddos.events, e) /\ ddos'.slow = Grown(on, "slow", ddos.slow, e)
            /\ ddos'.reflection = Grown(on, "reflection", ddos.reflection, e)
        <4>1. CASE On("ddos")
          BY <2>1, <4>1, DDoSWindows DEF On
        <4>2. CASE ~On("ddos")
          BY <2>1, <3>3, <4>2 DEF Grown, Windowed
        <4> QED BY <4>1, <4>2
      <3>6. c2'.windows = Grown(on, "beacons", c2.windows, e)
        <4>1. CASE On("c2")
          BY <2>1, <4>1, C2Windows DEF On
        <4>2. CASE ~On("c2")
          BY <2>1, <3>3, <4>2 DEF Grown, Windowed
        <4> QED BY <4>1, <4>2
      <3>7. /\ dns'.queries = Grown(on, "queries", dns.queries, e)
            /\ dns'.failed = Grown(on, "failed", dns.failed, e)
            /\ dns'.model = Grown(on, "model", dns.model, e)
            /\ dns'.lexical = Grown(on, "lexical", dns.lexical, e)
            /\ encrypted'.windows = Grown(on, "sessions", encrypted.windows, e)
        BY <2>1, <3>3 DEF Grown, Windowed
      <3> QED BY <3>1, <3>4, <3>5, <3>6, <3>7
    <2>6. WindowsInv'
      BY <1>0, <2>1, <2>3, <2>5, WindowsGrow
    <2> QED BY <2>2, <2>4, <2>6 DEF SessionInv
  <1>3. CASE ProcessDNS(e)
    <2>1. /\ Accepts(e) /\ e.kind = "dns" /\ UNCHANGED <<profile, recon, ddos, c2, encrypted>>
          /\ latest' = e.ts /\ history' = Append(history, e)
          /\ dns' = IF On("dns") THEN DNSProcess(dns, e).state ELSE dns
      BY <1>3, DNSStates
    <2>2. TimeInv' /\ (on.enabled # {"exfiltration"} => Timely(history) /\ Latest(history, e.ts))
      BY <1>0, <2>1, TimeStep
    <2>3. Setup' = Setup /\ \A d : On(d)' = On(d)
      BY <2>1 DEF Setup, On
    <2>4. IdleInv'
      BY <1>0, <2>1, <2>3 DEF IdleInv
    <2>5. /\ dns'.queries = Grown(on, "queries", dns.queries, e)
          /\ dns'.failed = Grown(on, "failed", dns.failed, e)
          /\ dns'.model = Grown(on, "model", dns.model, e)
          /\ dns'.lexical = Grown(on, "lexical", dns.lexical, e)
      <3>1. CASE On("dns")
        BY <2>1, <3>1, DNSWindows DEF On
      <3>2. CASE ~On("dns")
        <4>1. \A d \in {"queries", "failed", "model", "lexical"} : ~Looks(on, d, e)
          BY <3>2 DEF Looks, On
        <4> QED BY <2>1, <3>2, <4>1 DEF Grown
      <3> QED BY <3>1, <3>2
    <2>6. /\ recon'.contacts = Grown(on, "contacts", recon.contacts, e)
          /\ ddos'.events = Grown(on, "events", ddos.events, e) /\ ddos'.slow = Grown(on, "slow", ddos.slow, e)
          /\ ddos'.reflection = Grown(on, "reflection", ddos.reflection, e)
          /\ c2'.windows = Grown(on, "beacons", c2.windows, e)
          /\ encrypted'.windows = Grown(on, "sessions", encrypted.windows, e)
      BY <2>1 DEF Grown, Looks
    <2>7. WindowsInv'
      BY <1>0, <2>1, <2>2, <2>3, <2>5, <2>6, WindowsGrow
    <2> QED BY <2>2, <2>4, <2>7 DEF SessionInv
  <1>4. CASE ProcessEncrypted(e)
    <2>1. PICK x : /\ Accepts(e) /\ x.kind = "encrypted" /\ x.ts = e.ts
                   /\ UNCHANGED <<profile, recon, ddos, c2, dns>>
                   /\ latest' = e.ts /\ history' = Append(history, x)
                   /\ encrypted' = IF On("encrypted") THEN EncryptedProcess(encrypted, x).state ELSE encrypted
      BY <1>1, <1>4, EncryptedStates
    <2>2. TimeInv' /\ (on.enabled # {"exfiltration"} => Timely(history) /\ Latest(history, x.ts))
      BY <1>0, <2>1, TimeStep
    <2>3. Setup' = Setup /\ \A d : On(d)' = On(d)
      BY <2>1 DEF Setup, On
    <2>4. IdleInv'
      BY <1>0, <2>1, <2>3 DEF IdleInv
    <2>5. encrypted'.windows = Grown(on, "sessions", encrypted.windows, x)
      <3>1. CASE On("encrypted")
        BY <2>1, <3>1, EncryptedWindows DEF On
      <3>2. CASE ~On("encrypted")
        <4>1. ~Looks(on, "sessions", x)
          BY <3>2 DEF Looks, On
        <4> QED BY <2>1, <3>2, <4>1 DEF Grown
      <3> QED BY <3>1, <3>2
    <2>6. /\ recon'.contacts = Grown(on, "contacts", recon.contacts, x)
          /\ ddos'.events = Grown(on, "events", ddos.events, x) /\ ddos'.slow = Grown(on, "slow", ddos.slow, x)
          /\ ddos'.reflection = Grown(on, "reflection", ddos.reflection, x)
          /\ c2'.windows = Grown(on, "beacons", c2.windows, x)
          /\ dns'.queries = Grown(on, "queries", dns.queries, x)
          /\ dns'.failed = Grown(on, "failed", dns.failed, x)
          /\ dns'.model = Grown(on, "model", dns.model, x)
          /\ dns'.lexical = Grown(on, "lexical", dns.lexical, x)
      BY <2>1 DEF Grown, Looks
    <2>7. WindowsInv'
      BY <1>0, <2>1, <2>2, <2>3, <2>5, <2>6, WindowsGrow
    <2> QED BY <2>2, <2>4, <2>7 DEF SessionInv
  <1> QED BY <1>1, <1>2, <1>3, <1>4

LEMMA SessionStep == SessionInv /\ [Next]_vars => SessionInv'
  <1> SUFFICES ASSUME SessionInv, [Next]_vars PROVE SessionInv'
    OBVIOUS
  <1>0. TimeInv /\ IdleInv /\ WindowsInv
    BY DEF SessionInv
  <1>1. CASE Arrives
    BY <1>1, ArrivalStep
  <1>2. CASE Complete \/ UNCHANGED vars
    <2>1. UNCHANGED <<profile, latest, history, recon, ddos, c2, dns, encrypted>>
      BY <1>2 DEF Complete, vars, detectors
    <2>2. Setup' = Setup /\ \A d : On(d)' = On(d)
      BY <2>1 DEF Setup, On
    <2>3. TimeInv'
      BY <1>0, <2>1, <2>2 DEF TimeInv
    <2>4. IdleInv'
      BY <1>0, <2>1, <2>2 DEF IdleInv
    <2>5. WindowsInv'
      BY <1>0, <2>1, <2>2 DEF WindowsInv
    <2> QED BY <2>3, <2>4, <2>5 DEF SessionInv
  <1>3. CASE Resume
    <2>1. /\ Setup.enabled = {"exfiltration"} /\ latest' = None /\ UNCHANGED <<profile, history>>
          /\ recon' = ReconFresh /\ ddos' = DDoSFresh /\ c2' = C2Fresh /\ dns' = DNSFresh
          /\ encrypted' = EncryptedFresh
      BY <1>3 DEF Resume
    <2>2. Setup' = Setup
      BY <2>1 DEF Setup
    <2>3. TimeInv'
      BY <1>0, <2>1, <2>2 DEF TimeInv
    <2>4. IdleInv'
      BY <2>1 DEF IdleInv
    <2>5. WindowsInv'
      BY <2>1, <2>2 DEF WindowsInv
    <2> QED BY <2>3, <2>4, <2>5 DEF SessionInv
  <1> QED BY <1>1, <1>2, <1>3 DEF Next

LEMMA SessionHolds == Spec => []SessionInv
  <1> QED BY SessionInit, SessionStep, PTL DEF Spec

(* A window property of the session says Exactly of that window.           *)
LEMMA ExactlyGives ==
  ASSUME NEW d, NEW windows, Exactly(Setup, d, windows, history)
  PROVE  /\ \A k \in DOMAIN windows :
              windows[k] = Within(Chosen(history, {x \in Range(history) : Looks(Setup, d, x) /\ KeyOf(d, x) = k}), SpanOf(d))
         /\ \A x \in Range(history) : Looks(Setup, d, x) => KeyOf(d, x) \in DOMAIN windows
  BY ExactlyMeans

LEMMA SessionWindows == SessionInv => SessionWindowsExact
  <1> SUFFICES ASSUME SessionInv PROVE SessionWindowsExact
    OBVIOUS
  <1> DEFINE on == Setup
  <1>0. IdleInv /\ WindowsInv
    BY DEF SessionInv
  <1>1. \A d \in Windowed : \A x : Looks(on, d, x) => on.enabled # {"exfiltration"}
    BY DEF Looks, Windowed
  <1>2. ASSUME on.enabled = {"exfiltration"}
        PROVE  /\ recon.contacts = <<>> /\ ddos.events = <<>> /\ ddos.slow = <<>> /\ ddos.reflection = <<>>
               /\ c2.windows = <<>> /\ dns.queries = <<>> /\ dns.failed = <<>> /\ dns.model = <<>> /\ dns.lexical = <<>>
               /\ encrypted.windows = <<>>
    BY <1>0, <1>2 DEF IdleInv, On, ReconFresh, DDoSFresh, C2Fresh, DNSFresh, EncryptedFresh
  <1>3. ASSUME NEW d \in Windowed, on.enabled = {"exfiltration"}, NEW h
        PROVE  Exactly(on, d, <<>>, h)
    <2>1. Looked(on, d, h) = {}
      BY <1>1, <1>3 DEF Looked
    <2> QED BY <2>1, EmptyIsSeq DEF Exactly, Kept
  <1>4. /\ Exactly(on, "contacts", recon.contacts, history)
        /\ Exactly(on, "events", ddos.events, history)
        /\ Exactly(on, "slow", ddos.slow, history)
        /\ Exactly(on, "reflection", ddos.reflection, history)
        /\ Exactly(on, "beacons", c2.windows, history)
        /\ Exactly(on, "queries", dns.queries, history)
        /\ Exactly(on, "failed", dns.failed, history)
        /\ Exactly(on, "model", dns.model, history)
        /\ Exactly(on, "lexical", dns.lexical, history)
        /\ Exactly(on, "sessions", encrypted.windows, history)
    <2>1. CASE on.enabled = {"exfiltration"}
      BY <1>2, <1>3, <2>1 DEF Windowed
    <2>2. CASE on.enabled # {"exfiltration"}
      BY <1>0, <2>2 DEF WindowsInv
    <2> QED BY <2>1, <2>2
  <1>5. Exact(recon.contacts, LAMBDA e : e.src, LAMBDA e : Connects(e, "recon") /\ e.src \notin AuthorizedSources, ReconConfig.window)
    <2>1. \A e : Looks(on, "contacts", e) <=> Connects(e, "recon") /\ e.src \notin AuthorizedSources
      BY DEF Looks, Connects, Queried, On
    <2>2. (\A e : KeyOf("contacts", e) = e.src) /\ SpanOf("contacts") = ReconConfig.window
      BY DEF KeyOf, SpanOf
    <2>3. \A k : {e \in Range(history) : Looks(on, "contacts", e) /\ KeyOf("contacts", e) = k} =
                  {e \in Range(history) : (Connects(e, "recon") /\ e.src \notin AuthorizedSources) /\ e.src = k}
      BY <2>1, <2>2
    <2>4. /\ \A k \in DOMAIN recon.contacts : recon.contacts[k] = Within(Chosen(history,
                 {e \in Range(history) : Looks(on, "contacts", e) /\ KeyOf("contacts", e) = k}), SpanOf("contacts"))
          /\ \A e \in Range(history) : Looks(on, "contacts", e) => KeyOf("contacts", e) \in DOMAIN recon.contacts
      BY <1>4, ExactlyGives
    <2>5. \A k \in DOMAIN recon.contacts : recon.contacts[k] = Within(Chosen(history,
              {e \in Range(history) : (Connects(e, "recon") /\ e.src \notin AuthorizedSources) /\ e.src = k}), ReconConfig.window)
      BY <2>2, <2>3, <2>4
    <2>6. \A e \in Range(history) : Connects(e, "recon") /\ e.src \notin AuthorizedSources => e.src \in DOMAIN recon.contacts
      BY <2>1, <2>2, <2>4
    <2> QED BY <2>5, <2>6 DEF Exact, Expected
  <1>6. Exact(ddos.events, LAMBDA e : e.dst, LAMBDA e : Connects(e, "ddos") /\ e.protocol \in {"tcp", "udp"}, DDoSConfig.window)
    <2>1. \A e : Looks(on, "events", e) <=> Connects(e, "ddos") /\ e.protocol \in {"tcp", "udp"}
      BY DEF Looks, Connects, Queried, On
    <2>2. (\A e : KeyOf("events", e) = e.dst) /\ SpanOf("events") = DDoSConfig.window
      BY DEF KeyOf, SpanOf
    <2>3. \A k : {e \in Range(history) : Looks(on, "events", e) /\ KeyOf("events", e) = k} =
                  {e \in Range(history) : (Connects(e, "ddos") /\ e.protocol \in {"tcp", "udp"}) /\ e.dst = k}
      BY <2>1, <2>2
    <2>4. /\ \A k \in DOMAIN ddos.events : ddos.events[k] = Within(Chosen(history,
                 {e \in Range(history) : Looks(on, "events", e) /\ KeyOf("events", e) = k}), SpanOf("events"))
          /\ \A e \in Range(history) : Looks(on, "events", e) => KeyOf("events", e) \in DOMAIN ddos.events
      BY <1>4, ExactlyGives
    <2>5. \A k \in DOMAIN ddos.events : ddos.events[k] = Within(Chosen(history,
              {e \in Range(history) : (Connects(e, "ddos") /\ e.protocol \in {"tcp", "udp"}) /\ e.dst = k}), DDoSConfig.window)
      BY <2>2, <2>3, <2>4
    <2>6. \A e \in Range(history) : Connects(e, "ddos") /\ e.protocol \in {"tcp", "udp"} => e.dst \in DOMAIN ddos.events
      BY <2>1, <2>2, <2>4
    <2> QED BY <2>5, <2>6 DEF Exact, Expected
  <1>7. Exact(ddos.slow, LAMBDA e : e.dst, LAMBDA e : Connects(e, "ddos") /\ e.protocol = "tcp" /\ e.service = "http", DDoSConfig.slowWindow)
    <2>1. \A e : Looks(on, "slow", e) <=> Connects(e, "ddos") /\ e.protocol = "tcp" /\ e.service = "http"
      BY DEF Looks, Connects, Queried, On
    <2>2. (\A e : KeyOf("slow", e) = e.dst) /\ SpanOf("slow") = DDoSConfig.slowWindow
      BY DEF KeyOf, SpanOf
    <2>3. \A k : {e \in Range(history) : Looks(on, "slow", e) /\ KeyOf("slow", e) = k} =
                  {e \in Range(history) : (Connects(e, "ddos") /\ e.protocol = "tcp" /\ e.service = "http") /\ e.dst = k}
      BY <2>1, <2>2
    <2>4. /\ \A k \in DOMAIN ddos.slow : ddos.slow[k] = Within(Chosen(history,
                 {e \in Range(history) : Looks(on, "slow", e) /\ KeyOf("slow", e) = k}), SpanOf("slow"))
          /\ \A e \in Range(history) : Looks(on, "slow", e) => KeyOf("slow", e) \in DOMAIN ddos.slow
      BY <1>4, ExactlyGives
    <2>5. \A k \in DOMAIN ddos.slow : ddos.slow[k] = Within(Chosen(history,
              {e \in Range(history) : (Connects(e, "ddos") /\ e.protocol = "tcp" /\ e.service = "http") /\ e.dst = k}), DDoSConfig.slowWindow)
      BY <2>2, <2>3, <2>4
    <2>6. \A e \in Range(history) : Connects(e, "ddos") /\ e.protocol = "tcp" /\ e.service = "http" => e.dst \in DOMAIN ddos.slow
      BY <2>1, <2>2, <2>4
    <2> QED BY <2>5, <2>6 DEF Exact, Expected
  <1>8. Exact(c2.windows, LAMBDA e : <<e.src, e.dst, e.dport, e.protocol>>,
              LAMBDA e : /\ Connects(e, "c2") /\ e.dport # 53 /\ e.service # "dns"
                         /\ ~\E r \in TrustedPeriodic : RuleMatches(r, e), C2Config.window)
    <2>1. \A e : Looks(on, "beacons", e) <=> Connects(e, "c2") /\ e.dport # 53 /\ e.service # "dns" /\ ~(\E r \in TrustedPeriodic : RuleMatches(r, e))
      BY DEF Looks, Connects, Queried, On
    <2>2. (\A e : KeyOf("beacons", e) = <<e.src, e.dst, e.dport, e.protocol>>) /\ SpanOf("beacons") = C2Config.window
      BY DEF KeyOf, SpanOf
    <2>3. \A k : {e \in Range(history) : Looks(on, "beacons", e) /\ KeyOf("beacons", e) = k} =
                  {e \in Range(history) : (Connects(e, "c2") /\ e.dport # 53 /\ e.service # "dns" /\ ~(\E r \in TrustedPeriodic : RuleMatches(r, e))) /\ <<e.src, e.dst, e.dport, e.protocol>> = k}
      BY <2>1, <2>2
    <2>4. /\ \A k \in DOMAIN c2.windows : c2.windows[k] = Within(Chosen(history,
                 {e \in Range(history) : Looks(on, "beacons", e) /\ KeyOf("beacons", e) = k}), SpanOf("beacons"))
          /\ \A e \in Range(history) : Looks(on, "beacons", e) => KeyOf("beacons", e) \in DOMAIN c2.windows
      BY <1>4, ExactlyGives
    <2>5. \A k \in DOMAIN c2.windows : c2.windows[k] = Within(Chosen(history,
              {e \in Range(history) : (Connects(e, "c2") /\ e.dport # 53 /\ e.service # "dns" /\ ~(\E r \in TrustedPeriodic : RuleMatches(r, e))) /\ <<e.src, e.dst, e.dport, e.protocol>> = k}), C2Config.window)
      BY <2>2, <2>3, <2>4
    <2>6. \A e \in Range(history) : Connects(e, "c2") /\ e.dport # 53 /\ e.service # "dns" /\ ~(\E r \in TrustedPeriodic : RuleMatches(r, e)) => <<e.src, e.dst, e.dport, e.protocol>> \in DOMAIN c2.windows
      BY <2>1, <2>2, <2>4
    <2> QED BY <2>5, <2>6 DEF Exact, Expected
  <1>9. Exact(dns.queries, LAMBDA e : <<e.src, e.root>>, LAMBDA e : Queried(e), DNSConfig.window)
    <2>1. \A e : Looks(on, "queries", e) <=> Queried(e)
      BY DEF Looks, Connects, Queried, On
    <2>2. (\A e : KeyOf("queries", e) = <<e.src, e.root>>) /\ SpanOf("queries") = DNSConfig.window
      BY DEF KeyOf, SpanOf
    <2>3. \A k : {e \in Range(history) : Looks(on, "queries", e) /\ KeyOf("queries", e) = k} =
                  {e \in Range(history) : (Queried(e)) /\ <<e.src, e.root>> = k}
      BY <2>1, <2>2
    <2>4. /\ \A k \in DOMAIN dns.queries : dns.queries[k] = Within(Chosen(history,
                 {e \in Range(history) : Looks(on, "queries", e) /\ KeyOf("queries", e) = k}), SpanOf("queries"))
          /\ \A e \in Range(history) : Looks(on, "queries", e) => KeyOf("queries", e) \in DOMAIN dns.queries
      BY <1>4, ExactlyGives
    <2>5. \A k \in DOMAIN dns.queries : dns.queries[k] = Within(Chosen(history,
              {e \in Range(history) : (Queried(e)) /\ <<e.src, e.root>> = k}), DNSConfig.window)
      BY <2>2, <2>3, <2>4
    <2>6. \A e \in Range(history) : Queried(e) => <<e.src, e.root>> \in DOMAIN dns.queries
      BY <2>1, <2>2, <2>4
    <2> QED BY <2>5, <2>6 DEF Exact, Expected
  <1>10. Exact(dns.failed, LAMBDA e : e.src, LAMBDA e : Queried(e) /\ ~Allowed(e), DNSConfig.window)
    <2>1. \A e : Looks(on, "failed", e) <=> Queried(e) /\ ~Allowed(e)
      BY DEF Looks, Connects, Queried, On
    <2>2. (\A e : KeyOf("failed", e) = e.src) /\ SpanOf("failed") = DNSConfig.window
      BY DEF KeyOf, SpanOf
    <2>3. \A k : {e \in Range(history) : Looks(on, "failed", e) /\ KeyOf("failed", e) = k} =
                  {e \in Range(history) : (Queried(e) /\ ~Allowed(e)) /\ e.src = k}
      BY <2>1, <2>2
    <2>4. /\ \A k \in DOMAIN dns.failed : dns.failed[k] = Within(Chosen(history,
                 {e \in Range(history) : Looks(on, "failed", e) /\ KeyOf("failed", e) = k}), SpanOf("failed"))
          /\ \A e \in Range(history) : Looks(on, "failed", e) => KeyOf("failed", e) \in DOMAIN dns.failed
      BY <1>4, ExactlyGives
    <2>5. \A k \in DOMAIN dns.failed : dns.failed[k] = Within(Chosen(history,
              {e \in Range(history) : (Queried(e) /\ ~Allowed(e)) /\ e.src = k}), DNSConfig.window)
      BY <2>2, <2>3, <2>4
    <2>6. \A e \in Range(history) : Queried(e) /\ ~Allowed(e) => e.src \in DOMAIN dns.failed
      BY <2>1, <2>2, <2>4
    <2> QED BY <2>5, <2>6 DEF Exact, Expected
  <1>11. Exact(encrypted.windows, LAMBDA e : <<e.src, e.dst, e.fp>>, LAMBDA e : e.kind = "encrypted" /\ On("encrypted") /\ e.features # None /\ e.fp # None, EncryptedConfig.window)
    <2>1. \A e : Looks(on, "sessions", e) <=> e.kind = "encrypted" /\ On("encrypted") /\ e.features # None /\ e.fp # None
      BY DEF Looks, Connects, Queried, On
    <2>2. (\A e : KeyOf("sessions", e) = <<e.src, e.dst, e.fp>>) /\ SpanOf("sessions") = EncryptedConfig.window
      BY DEF KeyOf, SpanOf
    <2>3. \A k : {e \in Range(history) : Looks(on, "sessions", e) /\ KeyOf("sessions", e) = k} =
                  {e \in Range(history) : (e.kind = "encrypted" /\ On("encrypted") /\ e.features # None /\ e.fp # None) /\ <<e.src, e.dst, e.fp>> = k}
      BY <2>1, <2>2
    <2>4. /\ \A k \in DOMAIN encrypted.windows : encrypted.windows[k] = Within(Chosen(history,
                 {e \in Range(history) : Looks(on, "sessions", e) /\ KeyOf("sessions", e) = k}), SpanOf("sessions"))
          /\ \A e \in Range(history) : Looks(on, "sessions", e) => KeyOf("sessions", e) \in DOMAIN encrypted.windows
      BY <1>4, ExactlyGives
    <2>5. \A k \in DOMAIN encrypted.windows : encrypted.windows[k] = Within(Chosen(history,
              {e \in Range(history) : (e.kind = "encrypted" /\ On("encrypted") /\ e.features # None /\ e.fp # None) /\ <<e.src, e.dst, e.fp>> = k}), EncryptedConfig.window)
      BY <2>2, <2>3, <2>4
    <2>6. \A e \in Range(history) : e.kind = "encrypted" /\ On("encrypted") /\ e.features # None /\ e.fp # None => <<e.src, e.dst, e.fp>> \in DOMAIN encrypted.windows
      BY <2>1, <2>2, <2>4
    <2> QED BY <2>5, <2>6 DEF Exact, Expected
  <1>12. Exact(ddos.reflection, LAMBDA e : e.src, LAMBDA e : Connects(e, "ddos") /\ e.protocol = "udp" /\ Setup.strict, DDoSConfig.window)
    <2>1. \A e : Looks(on, "reflection", e) <=> Connects(e, "ddos") /\ e.protocol = "udp" /\ Setup.strict
      BY DEF Looks, Connects, Queried, On
    <2>2. (\A e : KeyOf("reflection", e) = e.src) /\ SpanOf("reflection") = DDoSConfig.window
      BY DEF KeyOf, SpanOf
    <2>3. \A k : {e \in Range(history) : Looks(on, "reflection", e) /\ KeyOf("reflection", e) = k} =
                  {e \in Range(history) : (Connects(e, "ddos") /\ e.protocol = "udp" /\ Setup.strict) /\ e.src = k}
      BY <2>1, <2>2
    <2>4. /\ \A k \in DOMAIN ddos.reflection : ddos.reflection[k] = Within(Chosen(history,
                 {e \in Range(history) : Looks(on, "reflection", e) /\ KeyOf("reflection", e) = k}), SpanOf("reflection"))
          /\ \A e \in Range(history) : Looks(on, "reflection", e) => KeyOf("reflection", e) \in DOMAIN ddos.reflection
      BY <1>4, ExactlyGives
    <2>5. \A k \in DOMAIN ddos.reflection : ddos.reflection[k] = Within(Chosen(history,
              {e \in Range(history) : (Connects(e, "ddos") /\ e.protocol = "udp" /\ Setup.strict) /\ e.src = k}), DDoSConfig.window)
      BY <2>2, <2>3, <2>4
    <2>6. \A e \in Range(history) : Connects(e, "ddos") /\ e.protocol = "udp" /\ Setup.strict => e.src \in DOMAIN ddos.reflection
      BY <2>1, <2>2, <2>4
    <2> QED BY <2>5, <2>6 DEF Exact, Expected
  <1>13. Exact(dns.model, LAMBDA e : e.src, LAMBDA e : Queried(e) /\ WithOutcome(e), DNSConfig.window)
    <2>1. \A e : Looks(on, "model", e) <=> Queried(e) /\ WithOutcome(e)
      BY DEF Looks, Connects, Queried, On
    <2>2. (\A e : KeyOf("model", e) = e.src) /\ SpanOf("model") = DNSConfig.window
      BY DEF KeyOf, SpanOf
    <2>3. \A k : {e \in Range(history) : Looks(on, "model", e) /\ KeyOf("model", e) = k} =
                  {e \in Range(history) : (Queried(e) /\ WithOutcome(e)) /\ e.src = k}
      BY <2>1, <2>2
    <2>4. /\ \A k \in DOMAIN dns.model : dns.model[k] = Within(Chosen(history,
                 {e \in Range(history) : Looks(on, "model", e) /\ KeyOf("model", e) = k}), SpanOf("model"))
          /\ \A e \in Range(history) : Looks(on, "model", e) => KeyOf("model", e) \in DOMAIN dns.model
      BY <1>4, ExactlyGives
    <2>5. \A k \in DOMAIN dns.model : dns.model[k] = Within(Chosen(history,
              {e \in Range(history) : (Queried(e) /\ WithOutcome(e)) /\ e.src = k}), DNSConfig.window)
      BY <2>2, <2>3, <2>4
    <2>6. \A e \in Range(history) : Queried(e) /\ WithOutcome(e) => e.src \in DOMAIN dns.model
      BY <2>1, <2>2, <2>4
    <2> QED BY <2>5, <2>6 DEF Exact, Expected
  <1>14. Exact(dns.lexical, LAMBDA e : e.src, LAMBDA e : Queried(e) /\ Lexical(e), DNSConfig.window)
    <2>1. \A e : Looks(on, "lexical", e) <=> Queried(e) /\ Lexical(e)
      BY DEF Looks, Connects, Queried, On
    <2>2. (\A e : KeyOf("lexical", e) = e.src) /\ SpanOf("lexical") = DNSConfig.window
      BY DEF KeyOf, SpanOf
    <2>3. \A k : {e \in Range(history) : Looks(on, "lexical", e) /\ KeyOf("lexical", e) = k} =
                  {e \in Range(history) : (Queried(e) /\ Lexical(e)) /\ e.src = k}
      BY <2>1, <2>2
    <2>4. /\ \A k \in DOMAIN dns.lexical : dns.lexical[k] = Within(Chosen(history,
                 {e \in Range(history) : Looks(on, "lexical", e) /\ KeyOf("lexical", e) = k}), SpanOf("lexical"))
          /\ \A e \in Range(history) : Looks(on, "lexical", e) => KeyOf("lexical", e) \in DOMAIN dns.lexical
      BY <1>4, ExactlyGives
    <2>5. \A k \in DOMAIN dns.lexical : dns.lexical[k] = Within(Chosen(history,
              {e \in Range(history) : (Queried(e) /\ Lexical(e)) /\ e.src = k}), DNSConfig.window)
      BY <2>2, <2>3, <2>4
    <2>6. \A e \in Range(history) : Queried(e) /\ Lexical(e) => e.src \in DOMAIN dns.lexical
      BY <2>1, <2>2, <2>4
    <2> QED BY <2>5, <2>6 DEF Exact, Expected
  <1> QED BY <1>5, <1>6, <1>7, <1>8, <1>9, <1>10, <1>11, <1>12, <1>13, <1>14 DEF SessionWindowsExact, Exact, Expected

-----------------------------------------------------------------------------
(* The kept state of the exfiltration detector: a window whose events lie  *)
(* within its span of the last one is what adding them again gives.        *)

LEMMA TimelyConcat ==
  ASSUME NEW a, Timely(a), NEW b, Timely(b), \A x \in Range(a) : \A y \in Range(b) : x.ts <= y.ts
  PROVE  Timely(a \o b) /\ Len(a \o b) = Len(a) + Len(b) /\ Range(a \o b) \subseteq Range(a) \cup Range(b)
  <1> DEFINE S == Range(a) \cup Range(b)
             t == a \o b
             m == Len(a)
             n == Len(b)
  <1>1. /\ a \in Seq(S) /\ b \in Seq(S) /\ m \in Nat /\ n \in Nat /\ IsSeq(a) /\ IsSeq(b)
        /\ (\A i \in 1..m : a[i] \in Range(a)) /\ (\A i \in 1..n : b[i] \in Range(b))
    BY SeqFacts, SeqMonotonic DEF Timely, Clocked, IsSeq
  <1>2. Len(t) = m + n /\ \A i \in 1..(m + n) : t[i] = IF i <= m THEN a[i] ELSE b[i - m]
    BY <1>1, ConcatProperties
  <1>3. IsSeq(t) /\ Range(t) \subseteq S
    BY <1>1, ConcatIsSeq
  <1>4. (\A i \in 1..m : a[i].ts \in Int) /\ (\A i \in 1..n : b[i].ts \in Int)
        /\ (\A i, j \in 1..m : i <= j => a[i].ts <= a[j].ts) /\ (\A i, j \in 1..n : i <= j => b[i].ts <= b[j].ts)
    BY DEF Timely, Clocked
  <1>5. \A i \in 1..(m + n) : (i <= m => i \in 1..m) /\ (~(i <= m) => i - m \in 1..n)
    BY <1>1
  <1> HIDE DEF t, m, n
  <1>6. ASSUME NEW i \in 1..(m + n) PROVE t[i].ts \in Int
    BY <1>2, <1>4, <1>5
  <1>7. ASSUME NEW i \in 1..(m + n), NEW j \in 1..(m + n), i <= j PROVE t[i].ts <= t[j].ts
    <2>1. CASE j <= m
      <3>1. i <= m
        BY <1>1, <1>7, <2>1
      <3> QED BY <1>2, <1>4, <1>5, <1>7, <2>1, <3>1
    <2>2. CASE ~(j <= m) /\ i <= m
      <3>1. t[i] \in Range(a) /\ t[j] \in Range(b)
        BY <1>1, <1>2, <1>5, <2>2
      <3> QED BY <3>1
    <2>3. CASE ~(j <= m) /\ ~(i <= m)
      <3>1. i - m <= j - m
        BY <1>1, <1>7
      <3> QED BY <1>2, <1>4, <1>5, <2>3, <3>1
    <2> QED BY <2>1, <2>2, <2>3
  <1> QED BY <1>2, <1>3, <1>6, <1>7 DEF Timely, Clocked, t, m, n
LEMMA TimelyPart ==
  ASSUME NEW s, Timely(s), NEW m \in Nat, m >= 1, NEW n \in Int, n <= Len(s)
  PROVE  Timely(SubSeq(s, m, n)) /\ \A x \in Range(SubSeq(s, m, n)) : \E i \in m..n : s[i] = x
  <1> DEFINE t == SubSeq(s, m, n)
  <1>1. IsSeq(s) /\ Len(s) \in Nat /\ \A i \in 1..Len(s) : s[i] \in Range(s)
    BY SeqFacts DEF Timely, Clocked
  <1>2. IsSeq(t)
    BY <1>1, SubSeqIsSeq
  <1>3. Len(t) = (IF m <= n THEN n - m + 1 ELSE 0) /\ \A i \in 1..(n - m + 1) : t[i] = s[m + i - 1]
    BY <1>1, SubSeqProperties
  <1> HIDE DEF t
  <1>4. Len(t) \in Nat /\ \A i \in 1..Len(t) : t[i] = s[m + i - 1] /\ m + i - 1 \in m..n /\ m + i - 1 \in 1..Len(s)
    BY <1>1, <1>3
  <1>5. Clocked(t)
    BY <1>2, <1>4 DEF Timely, Clocked
  <1>6. ASSUME NEW i \in 1..Len(t), NEW j \in 1..Len(t), i <= j PROVE t[i].ts <= t[j].ts
    <2>1. m + i - 1 <= m + j - 1
      BY <1>6
    <2> QED BY <1>4, <2>1 DEF Timely
  <1>7. ASSUME NEW x \in Range(t) PROVE \E i \in m..n : s[i] = x
    <2>1. PICK i \in 1..Len(t) : t[i] = x
      BY <1>2, FoundAt
    <2> QED BY <1>4, <2>1
  <1> QED BY <1>5, <1>6, <1>7 DEF Timely, t
(* A late event goes to its place in time.                                 *)
LEMMA InsertedParts ==
  ASSUME NEW w, Timely(w), NEW x, x.ts \in Int
  PROVE  \E left, right : /\ w = left \o right /\ Inserted(w, x) = left \o <<x>> \o right
                         /\ Timely(left) /\ Timely(right) /\ (\A y \in Range(left) : y.ts <= x.ts)
                         /\ (\A y \in Range(right) : x.ts < y.ts)
  <1> DEFINE n == Len(w)
             early == {i \in DOMAIN w : w[i].ts <= x.ts}
             k == Max({0} \cup early)
             left == SubSeq(w, 1, k)
             right == SubSeq(w, k + 1, n)
  <1>1. IsSeq(w) /\ n \in Nat /\ DOMAIN w = 1..n /\ \A i \in 1..n : w[i].ts \in Int
    BY TimelyFacts DEF Timely, Clocked
  <1>2. k \in 0..n /\ k \in {0} \cup early /\ \A i \in early : i <= k
    <2> DEFINE S == {0} \cup early
    <2>0. IsFiniteSet(0..n)
      BY <1>1, FS_Interval
    <2>1. S \subseteq 0..n /\ S \in SUBSET (0..n) /\ S # {} /\ IsFiniteSet(0..n)
      BY <1>1, <2>0
    <2>2. IsFiniteSet(S) /\ S \subseteq Int
      BY <1>1, <2>1, FS_Subset
    <2> HIDE DEF S
    <2>3. Max(S) \in S /\ \A i \in S : Max(S) >= i
      BY <2>1, <2>2, MaxOfFinite
    <2>4. \A i \in S : i \in Int
      BY <2>2
    <2>5. k = Max(S) /\ early \subseteq S
      BY DEF S
    <2> HIDE DEF k
    <2>6. k \in S /\ k \in 0..n /\ \A i \in early : i <= k
      BY <2>1, <2>3, <2>4, <2>5
    <2> QED BY <2>6 DEF S
  <1>3. \A i \in 1..k : w[i].ts <= x.ts
    <2>1. CASE k = 0
      BY <2>1
    <2>2. CASE k \in early
      <3>1. w[k].ts <= x.ts /\ k \in 1..n
        BY <1>1, <2>2
      <3> HIDE DEF k, early
      <3>2. \A i \in 1..k : i \in 1..n /\ i <= k
        BY <1>1, <3>1
      <3>3. \A i \in 1..k : w[i].ts <= w[k].ts
        BY <3>1, <3>2 DEF Timely
      <3> QED BY <1>1, <3>1, <3>2, <3>3
    <2> QED BY <1>2, <2>1, <2>2
  <1>4. \A i \in (k + 1)..n : x.ts < w[i].ts
    <2> HIDE DEF k
    <2> TAKE i \in (k + 1)..n
    <2>1. i \in 1..n /\ ~(i <= k)
      BY <1>1, <1>2
    <2>2. i \notin early
      BY <1>2, <2>1
    <2> QED BY <1>1, <2>1, <2>2
  <1>5. Inserted(w, x) = left \o <<x>> \o right
    <2>1. Inserted(w, x) = InsertAt(w, k + 1, x)
      BY DEF Inserted
    <2> HIDE DEF k
    <2>2. InsertAt(w, k + 1, x) = SubSeq(w, 1, (k + 1) - 1) \o <<x>> \o SubSeq(w, k + 1, Len(w))
      BY Zenon DEF InsertAt
    <2>3. (k + 1) - 1 = k
      BY <1>2
    <2> QED BY <2>1, <2>2, <2>3
  <1> HIDE DEF k, n
  <1>6. Timely(left) /\ \A y \in Range(left) : y.ts <= x.ts
    <2>1. k \in Int /\ k <= n
      BY <1>1, <1>2
    <2>2. Timely(left) /\ \A y \in Range(left) : \E i \in 1..k : w[i] = y
      BY <2>1, TimelyPart DEF n
    <2> HIDE DEF left
    <2> QED BY <1>3, <2>2
  <1>7. Timely(right) /\ \A y \in Range(right) : x.ts < y.ts
    <2>1. k + 1 \in Nat /\ k + 1 >= 1 /\ n \in Int /\ n <= Len(w)
      BY <1>1, <1>2 DEF n
    <2>2. Timely(right) /\ \A y \in Range(right) : \E i \in (k + 1)..n : w[i] = y
      BY <2>1, TimelyPart
    <2> HIDE DEF right
    <2> QED BY <1>4, <2>2
  <1>8. w = left \o right
    <2>1. /\ Len(left) = k /\ IsSeq(left) /\ \A i \in 1..k : left[i] = w[i]
          /\ Len(right) = n - k /\ IsSeq(right) /\ \A i \in 1..(n - k) : right[i] = w[k + i]
      <3>1. IsSeq(left) /\ IsSeq(right)
        BY <1>6, <1>7 DEF Timely, Clocked
      <3>2. n = Len(w) /\ \A i \in 1..n : w[i] \in Range(w)
        BY <1>1, SeqFacts DEF n
      <3>3. /\ Len(left) = (IF 1 <= k THEN k - 1 + 1 ELSE 0)
            /\ \A i \in 1..(k - 1 + 1) : left[i] = w[1 + i - 1]
        BY <1>1, <1>2, <3>2, SubSeqProperties
      <3>4. /\ Len(right) = (IF k + 1 <= n THEN n - (k + 1) + 1 ELSE 0)
            /\ \A i \in 1..(n - (k + 1) + 1) : right[i] = w[(k + 1) + i - 1]
        BY <1>1, <1>2, <3>2, SubSeqProperties
      <3> HIDE DEF left, right
      <3>5. Len(left) = k /\ \A i \in 1..k : left[i] = w[i]
        <4>1. k \in Nat /\ k - 1 + 1 = k /\ (k = 0 \/ 1 <= k) /\ \A i \in 1..k : 1 + i - 1 = i
          BY <1>1, <1>2
        <4> QED BY <3>3, <4>1
      <3>6. Len(right) = n - k /\ \A i \in 1..(n - k) : right[i] = w[k + i]
        BY <1>1, <1>2, <3>4
      <3> QED BY <3>1, <3>5, <3>6
    <2>2. /\ IsSeq(left \o right) /\ Len(left \o right) = Len(left) + Len(right)
          /\ \A i \in 1..(Len(left) + Len(right)) :
               (left \o right)[i] = IF i <= Len(left) THEN left[i] ELSE right[i - Len(left)]
      BY <2>1, ConcatParts
    <2> DEFINE u == left \o right
    <2> HIDE DEF u, left, right
    <2>3. IsSeq(u) /\ Len(u) = n /\ \A i \in 1..n : u[i] = w[i]
      <3>1. k \in Nat /\ n \in Nat /\ k <= n
        BY <1>1, <1>2
      <3>2. IsSeq(u) /\ Len(u) = n /\ \A i \in 1..n : u[i] = IF i <= k THEN left[i] ELSE right[i - k]
        BY <2>1, <2>2, <3>1 DEF u
      <3>3. ASSUME NEW i \in 1..n PROVE u[i] = w[i]
        <4>1. CASE i <= k
          BY <2>1, <3>1, <3>2, <4>1
        <4>2. CASE ~(i <= k)
          <5>1. i - k \in 1..(n - k) /\ k + (i - k) = i
            BY <3>1, <4>2
          <5> QED BY <2>1, <3>2, <4>2, <5>1
        <4> QED BY <4>1, <4>2
      <3> QED BY <3>2, <3>3
    <2>4. u \in Seq(Range(u) \cup Range(w)) /\ w \in Seq(Range(u) \cup Range(w))
      BY <1>1, <2>3, SeqMonotonic DEF IsSeq
    <2>5. u = w
      BY <2>3, <2>4, SeqEqual DEF n
    <2> QED BY <2>5 DEF u
  <1> QED BY <1>5, <1>6, <1>7, <1>8
LEMMA InsertedTimely ==
  ASSUME NEW w, Timely(w), NEW x, x.ts \in Int
  PROVE  Timely(Inserted(w, x)) /\ Inserted(w, x) # <<>>
  <1>5. PICK left, right : /\ Inserted(w, x) = left \o <<x>> \o right
                           /\ Timely(left) /\ Timely(right) /\ (\A y \in Range(left) : y.ts <= x.ts)
                           /\ (\A y \in Range(right) : x.ts < y.ts)
    BY InsertedParts
  <1>6. Timely(left) /\ \A y \in Range(left) : y.ts <= x.ts
    BY <1>5
  <1>7. Timely(right) /\ \A y \in Range(right) : x.ts < y.ts
    BY <1>5
  <1>8. Timely(<<x>>) /\ Range(<<x>>) = {x} /\ Len(<<x>>) = 1
    <2>1. <<x>> = Append(<<>>, x) /\ IsSeq(<<>>) /\ Range(<<>>) = {}
      BY EmptyIsSeq
    <2>2. Timely(Append(<<>>, x))
      BY TimelyEmpty, TimelyAppend
    <2>3. Range(Append(<<>>, x)) = Range(<<>>) \cup {x}
      BY <2>1, AppendIsSeq, Zenon
    <2> QED BY <2>1, <2>2, <2>3
  <1> DEFINE front == left \o <<x>>
  <1>9. Timely(front) /\ Len(front) = Len(left) + 1 /\ Range(front) \subseteq Range(left) \cup {x}
    BY <1>6, <1>8, TimelyConcat
  <1>10. \A y \in Range(front) : \A z \in Range(right) : y.ts <= z.ts
    <2> SUFFICES ASSUME NEW y \in Range(front), NEW z \in Range(right) PROVE y.ts <= z.ts
      OBVIOUS
    <2>1. y \in Range(left) \/ y = x
      BY <1>9
    <2>2. y.ts \in Int /\ z.ts \in Int /\ y.ts <= x.ts /\ x.ts < z.ts
      BY <1>6, <1>7, <2>1, TimelyFacts
    <2> QED BY <2>2
  <1> HIDE DEF front
  <1>11. Timely(front \o right) /\ Len(front \o right) = Len(front) + Len(right)
    BY <1>7, <1>9, <1>10, TimelyConcat
  <1>12. Len(left) \in Nat /\ Len(right) \in Nat
    BY <1>6, <1>7, TimelyFacts
  <1>13. front \o right # <<>>
    BY <1>9, <1>11, <1>12
  <1> QED BY <1>5, <1>11, <1>13 DEF front

InSpan(w, span) == Timely(w) /\ w # <<>> /\ \A x \in Range(w) : x.ts >= Last(w).ts - span

LEMMA EvictedActive ==
  ASSUME NEW v, Timely(v), v # <<>>, NEW span \in Nat
  PROVE  InSpan(Evicted(v, Last(v).ts - span), span)
  <1> DEFINE c == Last(v).ts - span
             G == After(v, c)
             u == Chosen(v, G)
             top == Last(v).ts
  <1>1. IsSeq(v) /\ Last(v) \in Range(v) /\ top \in Int /\ c \in Int /\ top >= c /\ Latest(v, top)
    BY TimelyFacts
  <1>2. Evicted(v, c) = u
    <2> HIDE DEF c
    <2> QED BY <1>1, EvictedIsChosen
  <1>3. Timely(u) /\ Range(u) \subseteq G \cap Range(v)
    <2> HIDE DEF G
    <2> QED BY <1>1, TimelyChosen, ChosenIsSeq
  <1>4. Last(v) \in Range(u)
    <2>1. Last(v) \in G
      BY <1>1 DEF After
    <2> HIDE DEF G
    <2> QED BY <1>1, <2>1, ChosenHas
  <1>5. \A x \in Range(u) : x.ts \in Int /\ x.ts >= c /\ x.ts <= top
    BY <1>1, <1>3, TimelyFacts DEF After, Latest
  <1> HIDE DEF u
  <1>6. u # <<>>
    BY <1>4, EmptyIsSeq
  <1>7. Last(u) \in Range(u)
    BY <1>3, <1>6, TimelyFacts
  <1>8. \A x \in Range(u) : x.ts >= Last(u).ts - span
    <2> DEFINE end == Last(u).ts
    <2>1. end \in Int /\ end <= top
      BY <1>5, <1>7
    <2> HIDE DEF end, top
    <2>2. end - span <= top - span /\ c = top - span
      BY <1>1, <2>1 DEF top
    <2> QED BY <1>1, <1>5, <2>1, <2>2 DEF end
  <1> QED BY <1>2, <1>3, <1>6, <1>8 DEF InSpan
LEMMA ActiveWhole ==
  ASSUME NEW v, Timely(v), v # <<>>, NEW c \in Int, \A x \in Range(v) : x.ts >= c
  PROVE  Evicted(v, c) = v
  <1> DEFINE n == Len(v)
             kept == {i \in DOMAIN v : v[i].ts >= c}
  <1>1. n \in Nat /\ n >= 1 /\ DOMAIN v = 1..n /\ IsSeq(v) /\ \A i \in 1..n : v[i] \in Range(v)
    BY TimelyFacts, SeqFacts
  <1>2. kept = 1..n
    BY <1>1
  <1>3. Evicted(v, c) = IF kept = {} THEN <<>> ELSE SubSeq(v, Min(kept), n)
    BY DEF Evicted
  <1> HIDE DEF kept
  <1>4. Min(kept) = 1 /\ kept # {}
    <2>1. kept \subseteq Nat /\ 1 \in kept
      BY <1>1, <1>2
    <2>2. Min(kept) \in kept /\ \A y \in kept : Min(kept) <= y
      BY <2>1, MinOfNat
    <2>3. Min(kept) \in 1..n /\ Min(kept) <= 1
      BY <1>2, <2>1, <2>2
    <2> QED BY <1>1, <2>1, <2>3
  <1> QED BY <1>1, <1>3, <1>4, PrefixWhole

(* Adding an event to windows leaves every window active.                  *)
LEMMA AddedActive ==
  ASSUME NEW windows, NEW span \in Nat, \A k \in DOMAIN windows : InSpan(windows[k], span),
         NEW key, NEW e, e.ts \in Int
  PROVE  /\ \A k \in DOMAIN Added(windows, key, e, span) : InSpan(Added(windows, key, e, span)[k], span)
         /\ Added(windows, key, e, span) =
              [k \in DOMAIN Added(windows, key, e, span) |-> Added(windows, key, e, span)[k]]
  <1> DEFINE w == At(windows, key, <<>>)
             v == Inserted(w, e)
             new == Evicted(v, Last(v).ts - span)
  <1>1. Timely(w)
    BY TimelyEmpty DEF At, InSpan
  <1>2. Added(windows, key, e, span) = Put(windows, key, new)
    BY Zenon DEF Added
  <1> HIDE DEF w
  <1>3. Timely(v) /\ v # <<>>
    BY <1>1, InsertedTimely
  <1> HIDE DEF v
  <1>4. InSpan(new, span)
    BY <1>3, EvictedActive
  <1> HIDE DEF new
  <1>5. \A k \in DOMAIN Put(windows, key, new) : InSpan(Put(windows, key, new)[k], span)
    BY <1>4 DEF Put
  <1>6. Put(windows, key, new) = [k \in DOMAIN Put(windows, key, new) |-> Put(windows, key, new)[k]]
    BY DEF Put
  <1> QED BY <1>2, <1>5, <1>6

RebuildStep(key, map, e) == Added(map, key, e, ExfilConfig.window)
Anything(c, map) == TRUE
Rebuilding == INSTANCE FoldProofs WITH Op <- RebuildStep, Holds <- Anything

LEMMA ActiveRebuilt ==
  ASSUME NEW w, NEW key, ExfilConfig.window \in Nat, InSpan(w, ExfilConfig.window)
  PROVE  Rebuilt(w, key) = w
  <1> DEFINE span == ExfilConfig.window
             top == Last(w).ts
             P(k) == SubSeq(w, 1, k)
             R(k) == Rebuilding!Result(key, <<>>, P(k))
             T == {k \in Nat : At(R(k), key, <<>>) = P(k) /\ (k > 0 => key \in DOMAIN R(k))}
  <1>1. /\ IsSeq(w) /\ Len(w) \in Nat /\ Len(w) > 0 /\ P(Len(w)) = w /\ P(0) = <<>> /\ Timely(w)
        /\ top \in Int /\ \A x \in Range(w) : x.ts \in Int /\ x.ts <= top /\ x.ts >= top - span
    BY TimelyFacts, PrefixWhole DEF InSpan, Latest
  <1>2. 0 \in T
    <2>1. R(0) = <<>>
      BY <1>1, Rebuilding!FoldEmpty
    <2>2. At(<<>>, key, <<>>) = <<>>
      BY DEF At
    <2>3. At(R(0), key, <<>>) = P(0)
      BY <1>1, <2>1, <2>2, Zenon
    <2> HIDE DEF R, P
    <2> QED BY <2>3
  <1>3. ASSUME NEW k \in 0..Len(w), k < Len(w), k \in T PROVE k + 1 \in T
    <2> DEFINE p == P(k)
               x == w[k + 1]
               S == Range(p) \cup {x}
    <2>1. IsSeq(p) /\ P(k + 1) = Append(p, x) /\ x.ts \in Int /\ Latest(p, x.ts) /\ x \in Range(w)
          /\ k + 1 \in Nat /\ k + 1 > 0
      BY <1>1, <1>3, TimelyPrefix
    <2>2. Timely(p) /\ Range(p) \subseteq Range(w)
      <3>1. k \in Int /\ k <= Len(w)
        BY <1>1
      <3> QED BY <1>1, <3>1, TimelyPart, SubSeqIsSeq
    <2>3. At(R(k), key, <<>>) = p
      BY <1>3
    <2>4. p \in Seq(S) /\ x \in S
      BY <2>1, SeqMonotonic DEF IsSeq
    <2>5. R(k + 1) = Rebuilding!Result(key, <<>>, Append(p, x)) /\ R(k) = Rebuilding!Result(key, <<>>, p)
      BY <2>1
    <2> HIDE DEF P, p, x, S
    <2>6. Rebuilding!Result(key, <<>>, Append(p, x)) = RebuildStep(key, Rebuilding!Result(key, <<>>, p), x)
      BY <2>4, Rebuilding!FoldAppend
    <2> HIDE DEF R
    <2>7. R(k + 1) = Added(R(k), key, x, span)
      BY <2>5, <2>6 DEF RebuildStep
    <2> DEFINE before == R(k)
    <2> HIDE DEF before, span
    <2>8. Added(before, key, x, span) = Put(before, key, Evicted(Append(p, x), x.ts - span))
      <3>1. At(before, key, <<>>) = p
        BY <2>3 DEF before
      <3>2. span \in Nat
        BY DEF span
      <3> QED BY <2>1, <2>2, <3>1, <3>2, AddedInOrder
    <2>9. Evicted(Append(p, x), x.ts - span) = Append(p, x)
      <3>1. Timely(Append(p, x)) /\ Range(Append(p, x)) = Range(p) \cup {x} /\ Append(p, x) # <<>>
        <4>1. Timely(Append(p, x))
          BY <2>1, <2>2, TimelyAppend
        <4>2. Range(Append(p, x)) = Range(p) \cup {x} /\ x \in Range(Append(p, x))
          BY <2>1, AppendIsSeq
        <4>3. Append(p, x) # <<>>
          BY <4>2, EmptyIsSeq, Zenon
        <4> QED BY <4>1, <4>2, <4>3
      <3>2. \A y \in Range(w) : y.ts \in Int /\ y.ts >= top - span
        BY <1>1 DEF span
      <3>3. x.ts - span \in Int /\ x.ts - span <= top - span
        <4>1. span \in Int /\ top \in Int /\ x.ts \in Int /\ x.ts <= top
          BY <1>1, <2>1 DEF span
        <4> QED BY <4>1
      <3> DEFINE cut == x.ts - span
                 floor == top - span
      <3>4. \A y \in Range(Append(p, x)) : y \in Range(w)
        BY <2>1, <2>2, <3>1
      <3>5. floor \in Int /\ cut \in Int /\ cut <= floor
        BY <1>1, <3>3 DEF span
      <3> HIDE DEF cut, floor
      <3>6. \A y \in Range(Append(p, x)) : y.ts >= cut
        BY <3>2, <3>4, <3>5 DEF floor
      <3>7. Evicted(Append(p, x), cut) = Append(p, x)
        BY <3>1, <3>5, <3>6, ActiveWhole
      <3> QED BY <3>7 DEF cut
    <2>10. At(Put(before, key, Append(p, x)), key, <<>>) = Append(p, x) /\ key \in DOMAIN Put(before, key, Append(p, x))
      BY DEF Put, At
    <2>11. R(k + 1) = Put(before, key, Append(p, x))
      BY <2>7, <2>8, <2>9 DEF before
    <2> QED BY <2>1, <2>10, <2>11
  <1> HIDE DEF T
  <1>4. Len(w) \in T
    BY <1>1, <1>2, <1>3, PrefixInduction
  <1>5. At(R(Len(w)), key, <<>>) = w /\ key \in DOMAIN R(Len(w))
    BY <1>1, <1>4 DEF T
  <1>6. R(Len(w)) = Rebuilding!Result(key, <<>>, w)
    BY <1>1
  <1>7. Rebuilt(w, key) = Rebuilding!Result(key, <<>>, w)[key]
    BY DEF Rebuilding!Result, Rebuilding!Folded, Rebuilt, Folded, RebuildStep
  <1> HIDE DEF R
  <1> QED BY <1>5, <1>6, <1>7 DEF At

(* A source's history is no longer than its limit, and remembering its     *)
(* values again forgets none.                                              *)
Short(b) == IsSeq(b) /\ Len(b) <= ExfilConfig.history

LEMMA RememberedShort ==
  ASSUME NEW b, IsSeq(b), NEW value, ExfilConfig.history \in Nat, ExfilConfig.history >= 1
  PROVE  /\ Short(Remembered(b, value))
         /\ Len(b) < ExfilConfig.history => Remembered(b, value) = Append(b, value)
  <1> DEFINE all == Append(b, value)
             n == Len(all)
             h == ExfilConfig.history
             m == Max({1, n - h + 1})
  <1>1. IsSeq(all) /\ n \in Nat /\ n = Len(b) + 1 /\ n >= 1 /\ Len(b) \in Nat /\ h \in Nat /\ h >= 1
    BY AppendIsSeq, SeqFacts
  <1>2. Remembered(b, value) = SubSeq(all, m, n)
    BY DEF Remembered
  <1> HIDE DEF all, h
  <1>3. m = IF 1 >= n - h + 1 THEN 1 ELSE n - h + 1
    BY <1>1, MaxOfTwo
  <1> HIDE DEF m
  <1>4. m \in Nat /\ m >= 1 /\ m <= n /\ n - m + 1 <= h
    BY <1>1, <1>3
  <1>5. IsSeq(SubSeq(all, m, n))
    BY <1>1, <1>4, SubSeqIsSeq
  <1>6. Len(SubSeq(all, m, n)) = n - m + 1
    <2>1. \A i \in m..n : all[i] \in Range(all)
      BY <1>1, <1>4, SeqFacts
    <2> QED BY <1>1, <1>4, <2>1, SubSeqProperties
  <1>7. Len(b) < h => SubSeq(all, m, n) = all
    <2> HAVE Len(b) < h
    <2>1. m = 1
      BY <1>1, <1>3
    <2> QED BY <1>1, <2>1, PrefixWhole
  <1> QED BY <1>2, <1>4, <1>5, <1>6, <1>7 DEF Short, all, h

RememberStep(c, values, value) == Remembered(values, value)
Remembering == INSTANCE FoldProofs WITH Op <- RememberStep, Holds <- Anything

LEMMA ShortRemembered ==
  ASSUME NEW b, Short(b), ExfilConfig.history \in Nat, ExfilConfig.history >= 1
  PROVE  Folded(Remembered, <<>>, b) = b
  <1> DEFINE P(k) == SubSeq(b, 1, k)
             R(k) == Remembering!Result(0, <<>>, P(k))
             T == {k \in Nat : R(k) = P(k)}
  <1>1. IsSeq(b) /\ Len(b) \in Nat /\ P(Len(b)) = b /\ P(0) = <<>> /\ Len(b) <= ExfilConfig.history
    BY SeqFacts, PrefixWhole DEF Short
  <1>2. 0 \in T
    BY <1>1, Remembering!FoldEmpty
  <1>3. ASSUME NEW k \in 0..Len(b), k < Len(b), k \in T PROVE k + 1 \in T
    <2> DEFINE p == P(k)
               x == b[k + 1]
               S == Range(p) \cup {x}
    <2>1. IsSeq(p) /\ P(k + 1) = Append(p, x) /\ Len(p) = k /\ k + 1 \in Nat
      BY <1>1, <1>3, PrefixExtends
    <2>2. p \in Seq(S) /\ x \in S
      BY <2>1, SeqMonotonic DEF IsSeq
    <2>3. R(k + 1) = Remembering!Result(0, <<>>, Append(p, x)) /\ Remembering!Result(0, <<>>, p) = p
      BY <1>3, <2>1
    <2> HIDE DEF P, p, x, S
    <2>4. Remembering!Result(0, <<>>, Append(p, x)) = RememberStep(0, Remembering!Result(0, <<>>, p), x)
      BY <2>2, Remembering!FoldAppend
    <2>5. Len(p) < ExfilConfig.history
      BY <1>1, <1>3, <2>1
    <2>6. Remembered(p, x) = Append(p, x)
      BY <2>1, <2>5, RememberedShort
    <2>7. R(k + 1) = P(k + 1)
      BY <2>1, <2>3, <2>4, <2>6 DEF RememberStep
    <2> QED BY <2>1, <2>7
  <1> HIDE DEF T
  <1>4. Len(b) \in T
    BY <1>1, <1>2, <1>3, PrefixInduction
  <1>5. Remembering!Result(0, <<>>, b) = b
    BY <1>1, <1>4 DEF T
  <1>6. Folded(Remembered, <<>>, b) = Remembering!Result(0, <<>>, b)
    BY DEF Remembering!Result, Remembering!Folded, Folded, RememberStep
  <1> QED BY <1>5, <1>6

(* Cooldowns, one alert after the other.                                   *)
SpaceStep(cooldown, said, a) ==
  IF CooledDown(said.last, a.cool, a.end, cooldown)
  THEN [last |-> Put(said.last, a.cool, a.end), alerts |-> Append(said.alerts, a)]
  ELSE said
Spacing == INSTANCE FoldProofs WITH Op <- SpaceStep, Holds <- Anything

LEMMA SpacedIsResult ==
  \A last, found, cooldown :
    Spaced(last, found, cooldown) = Spacing!Result(cooldown, [last |-> last, alerts |-> <<>>], found)
  BY DEF Spacing!Result, Spacing!Folded, Spaced, Folded, SpaceStep
LEMMA SpacedEmpty == \A last, cooldown : Spaced(last, <<>>, cooldown) = [last |-> last, alerts |-> <<>>]
  BY SpacedIsResult, Spacing!FoldEmpty
LEMMA SpacedAppend ==
  ASSUME NEW last, NEW cooldown, NEW found, IsSeq(found), NEW a
  PROVE  Spaced(last, Append(found, a), cooldown) = SpaceStep(cooldown, Spaced(last, found, cooldown), a)
  <1> DEFINE S == Range(found) \cup {a}
             base == [last |-> last, alerts |-> <<>>]
  <1>1. found \in Seq(S) /\ a \in S
    BY SeqMonotonic DEF IsSeq
  <1>2. /\ Spaced(last, found, cooldown) = Spacing!Result(cooldown, base, found)
        /\ Spaced(last, Append(found, a), cooldown) = Spacing!Result(cooldown, base, Append(found, a))
    BY SpacedIsResult
  <1> HIDE DEF S, base
  <1>3. Spacing!Result(cooldown, base, Append(found, a)) = SpaceStep(cooldown, Spacing!Result(cooldown, base, found), a)
    BY <1>1, Spacing!FoldAppend
  <1> QED BY <1>2, <1>3
LEMMA SpacedOne ==
  ASSUME NEW last, NEW cooldown, NEW a
  PROVE  Spaced(last, <<a>>, cooldown).alerts \in {<<>>, <<a>>}
  <1>1. Append(<<>>, a) = <<a>>
    OBVIOUS
  <1>2. Spaced(last, Append(<<>>, a), cooldown) = SpaceStep(cooldown, Spaced(last, <<>>, cooldown), a)
    <2>1. IsSeq(<<>>)
      BY EmptyIsSeq
    <2>2. \A found : IsSeq(found) =>
            Spaced(last, Append(found, a), cooldown) = SpaceStep(cooldown, Spaced(last, found, cooldown), a)
      BY SpacedAppend
    <2> QED BY <2>1, <2>2
  <1>3. SpaceStep(cooldown, [last |-> last, alerts |-> <<>>], a).alerts \in {<<>>, <<a>>}
    BY <1>1 DEF SpaceStep
  <1> QED BY <1>1, <1>2, <1>3, SpacedEmpty

(* The kept state: what a run exports is what the next one restores.       *)
ExfilSound(state) ==
  /\ state = [windows |-> state.windows, baselines |-> state.baselines,
              first |-> state.first, last |-> state.last]
  /\ state.windows = [k \in DOMAIN state.windows |-> state.windows[k]]
  /\ \A k \in DOMAIN state.windows : InSpan(state.windows[k], ExfilConfig.window)
  /\ state.baselines = [k \in DOMAIN state.baselines |-> state.baselines[k]]
  /\ \A k \in DOMAIN state.baselines : Short(state.baselines[k])

LEMMA ExfilBounds ==
  /\ ExfilConfig.window \in Nat /\ ExfilConfig.history \in Nat /\ ExfilConfig.history >= 1
  BY ExfilConfigAssumption DEF ExfilConfigValid
LEMMA FreshSound == ExfilSound(ExfilFresh)
  BY DEF ExfilSound, ExfilFresh
LEMMA KeptSound ==
  ASSUME NEW state, ExfilSound(state)
  PROVE  Restore(Export(state)) = state
  <1> DEFINE W == [key \in DOMAIN state.windows |-> Rebuilt(state.windows[key], key)]
             B == [src \in DOMAIN state.baselines |-> Folded(Remembered, <<>>, state.baselines[src])]
  <1>1. W = state.windows
    <2>1. \A key \in DOMAIN state.windows : Rebuilt(state.windows[key], key) = state.windows[key]
      BY ExfilBounds, ActiveRebuilt DEF ExfilSound
    <2>2. W = [k \in DOMAIN state.windows |-> state.windows[k]]
      BY <2>1
    <2> QED BY <2>2 DEF ExfilSound
  <1>2. B = state.baselines
    <2>1. \A src \in DOMAIN state.baselines : Folded(Remembered, <<>>, state.baselines[src]) = state.baselines[src]
      BY ExfilBounds, ShortRemembered DEF ExfilSound
    <2>2. B = [k \in DOMAIN state.baselines |-> state.baselines[k]]
      BY <2>1
    <2> QED BY <2>2 DEF ExfilSound
  <1>3. Restore(Export(state)) = [state EXCEPT !.windows = W, !.baselines = B]
    BY DEF Restore, Export
  <1> HIDE DEF W, B
  <1> QED BY <1>1, <1>2, <1>3 DEF ExfilSound
(* An alert names no look-up of its own.                                   *)
Bare(found) ==
  found = <<>> \/ \E a : found = <<a>> /\ a = [k \in DOMAIN a |-> a[k]] /\ a.names = {} /\ "names" \in DOMAIN a
LEMMA ExfilStep ==
  ASSUME NEW state, ExfilSound(state), NEW e, e.ts \in Int
  PROVE  ExfilSound(ExfilProcess(state, e).state) /\ Bare(ExfilProcess(state, e).alerts)
  <1> DEFINE key == <<e.src, e.dst>>
             baseline == At(state.baselines, e.src, <<>>)
             windows == Added(state.windows, key, e, ExfilConfig.window)
             found == IF Huge(e) THEN <<ExfilAlert(<<e>>, e)>>
                      ELSE Rule(/\ Len(windows[key]) >= ExfilConfig.minFlows
                                /\ Outlier(windows[key], DoubleMedian(baseline)),
                                ExfilAlert(windows[key], e))
             said == Spaced(state.last, found, ExfilConfig.cooldown)
             approved == e.dst \in ApprovedBackup \/ \E r \in ApprovedBulk : RuleMatches(r, e)
             first == Put(state.first, key, At(state.first, key, e.ts))
             last == said.last
             baselines == Put(state.baselines, e.src, Remembered(baseline, e.outbound))
             new == [windows |-> windows, baselines |-> baselines, first |-> first, last |-> last]
             alarms == said.alerts
  <1>1. ExfilProcess(state, e) = IF approved THEN Answer(state, <<>>) ELSE Answer(new, alarms)
    BY Zenon DEF ExfilProcess
  <1>2. /\ \A k \in DOMAIN windows : InSpan(windows[k], ExfilConfig.window)
        /\ windows = [k \in DOMAIN windows |-> windows[k]]
    <2>1. \A k \in DOMAIN state.windows : InSpan(state.windows[k], ExfilConfig.window)
      BY DEF ExfilSound
    <2> HIDE DEF key
    <2> QED BY <2>1, ExfilBounds, AddedActive
  <1>3. /\ \A k \in DOMAIN baselines : Short(baselines[k])
        /\ baselines = [k \in DOMAIN baselines |-> baselines[k]]
    <2>1. \A k \in DOMAIN state.baselines : Short(state.baselines[k])
      BY DEF ExfilSound
    <2>2. IsSeq(baseline)
      BY <2>1, EmptyIsSeq DEF At, Short
    <2> HIDE DEF baseline
    <2>3. Short(Remembered(baseline, e.outbound))
      BY <2>2, ExfilBounds, RememberedShort
    <2> DEFINE longer == Remembered(baseline, e.outbound)
    <2> HIDE DEF longer
    <2> QED BY <2>1, <2>3 DEF Put, longer
  <1>4. Bare(alarms)
    <2>1. \A w : LET a == ExfilAlert(w, e)
                 IN  a = [k \in DOMAIN a |-> a[k]] /\ a.names = {} /\ "names" \in DOMAIN a
      BY DEF ExfilAlert, Alert
    <2>2. found = <<>> \/ \E w : found = <<ExfilAlert(w, e)>>
      <3> HIDE DEF windows, baseline
      <3> QED BY DEF Rule
    <2> HIDE DEF found
    <2>3. alarms = <<>> \/ \E w : alarms = <<ExfilAlert(w, e)>>
      BY <2>2, SpacedEmpty, SpacedOne
    <2> QED BY <2>1, <2>3 DEF Bare
  <1> HIDE DEF windows, baselines, first, last, approved, alarms
  <1>5. new.windows = windows /\ new.baselines = baselines
        /\ new = [windows |-> new.windows, baselines |-> new.baselines, first |-> new.first, last |-> new.last]
    OBVIOUS
  <1> HIDE DEF new
  <1>6. ExfilSound(new)
    BY <1>2, <1>3, <1>5 DEF ExfilSound
  <1> QED BY <1>1, <1>4, <1>6 DEF Answer, Bare

LEMMA NamelessIsSeq ==
  ASSUME NEW s, IsSeq(s)
  PROVE  IsSeq(Nameless(s)) /\ Len(Nameless(s)) = Len(s)
         /\ \A i \in 1..Len(s) : Nameless(s)[i] = [s[i] EXCEPT !.names = {}]
  <1> DEFINE t == Nameless(s)
             n == Len(s)
  <1>1. n \in Nat /\ DOMAIN s = 1..n
    BY SeqFacts
  <1>2. t = [i \in 1..n |-> [s[i] EXCEPT !.names = {}]]
    BY <1>1 DEF Nameless
  <1> HIDE DEF t, n
  <1>3. t \in [1..n -> Range(t)] /\ DOMAIN t = 1..n
    BY <1>2 DEF Range
  <1>4. t \in Seq(Range(t)) /\ Len(t) = n
    BY <1>1, <1>3
  <1> QED BY <1>2, <1>4 DEF IsSeq, t, n
(* Naming an alert's look-ups and dropping them again is nothing.          *)
LEMMA NamelessAdds ==
  ASSUME NEW r, IsSeq(r), NEW found, Bare(found), NEW e
  PROVE  /\ IsSeq(r \o WithNames(found, e))
         /\ Nameless(r \o WithNames(found, e)) = Nameless(r) \o found
  <1>0. IsSeq(Nameless(r))
    BY NamelessIsSeq
  <1>1. CASE found = <<>>
    <2>1. WithNames(<<>>, e) = <<>>
      BY DEF WithNames
    <2>2. r \o <<>> = r /\ Nameless(r) \o <<>> = Nameless(r)
      <3>1. \A s : IsSeq(s) => s \o <<>> = s
        BY DEF IsSeq
      <3> QED BY <1>0, <3>1
    <2> QED BY <1>1, <2>1, <2>2
  <1>2. CASE found # <<>>
    <2>1. PICK a : found = <<a>> /\ a = [k \in DOMAIN a |-> a[k]] /\ a.names = {} /\ "names" \in DOMAIN a
      BY <1>2 DEF Bare
    <2> DEFINE g == [a EXCEPT !.names = Named(e)]
    <2>2. WithNames(found, e) = <<g>>
      BY <2>1 DEF WithNames
    <2>3. [g EXCEPT !.names = {}] = a
      <3> DEFINE N == Named(e)
      <3> HIDE DEF N
      <3>1. [[a EXCEPT !.names = N] EXCEPT !.names = {}] = [k \in DOMAIN a |-> a[k]]
        BY <2>1
      <3> QED BY <2>1, <3>1 DEF N
    <2> HIDE DEF g
    <2>4. \A s : IsSeq(s) => \A x : s \o <<x>> = Append(s, x)
      <3> SUFFICES ASSUME NEW s, IsSeq(s), NEW x PROVE s \o <<x>> = Append(s, x)
        OBVIOUS
      <3>1. s \in Seq(Range(s) \cup {x})
        BY SeqMonotonic DEF IsSeq
      <3> QED BY <3>1
    <2>5. r \o <<g>> = Append(r, g) /\ Nameless(r) \o <<a>> = Append(Nameless(r), a)
      BY <1>0, <2>4
    <2> DEFINE u == Append(r, g)
               v == Append(Nameless(r), a)
               n == Len(r)
    <2>6. IsSeq(u) /\ Len(u) = n + 1 /\ u[n + 1] = g /\ n \in Nat /\ \A i \in 1..n : u[i] = r[i]
      BY AppendIsSeq, SeqFacts
    <2>7. Len(Nameless(r)) = n /\ \A i \in 1..n : Nameless(r)[i] = [r[i] EXCEPT !.names = {}]
      BY NamelessIsSeq
    <2>8. IsSeq(v) /\ Len(v) = n + 1 /\ v[n + 1] = a /\ \A i \in 1..n : v[i] = [r[i] EXCEPT !.names = {}]
      <3>1. IsSeq(v) /\ Len(v) = Len(Nameless(r)) + 1 /\ v[Len(Nameless(r)) + 1] = a
            /\ \A i \in 1..Len(Nameless(r)) : v[i] = Nameless(r)[i]
        BY <1>0, AppendIsSeq
      <3> HIDE DEF v
      <3> QED BY <2>7, <3>1
    <2> HIDE DEF u, v, n
    <2>9. IsSeq(Nameless(u)) /\ Len(Nameless(u)) = n + 1
          /\ \A i \in 1..(n + 1) : Nameless(u)[i] = [u[i] EXCEPT !.names = {}]
      BY <2>6, NamelessIsSeq
    <2>10. \A i \in 1..(n + 1) : Nameless(u)[i] = v[i]
      <3>1. \A i \in 1..(n + 1) : i \in 1..n \/ i = n + 1
        BY <2>6
      <3>2. \A i \in 1..n : Nameless(u)[i] = v[i]
        BY <2>6, <2>8, <2>9, <3>1
      <3>3. n + 1 \in 1..(n + 1)
        BY <2>6
      <3>4. Nameless(u)[n + 1] = [g EXCEPT !.names = {}]
        BY <2>6, <2>9, <3>3
      <3> QED BY <2>3, <2>8, <3>1, <3>2, <3>4
    <2>11. Nameless(u) = v
      <3> DEFINE x == Nameless(u)
                 S == Range(x) \cup Range(v)
      <3>1. x \in Seq(S) /\ v \in Seq(S)
        BY <2>8, <2>9, SeqMonotonic DEF IsSeq
      <3>2. Len(x) = Len(v) /\ \A i \in 1..Len(x) : x[i] = v[i]
        BY <2>8, <2>9, <2>10
      <3> HIDE DEF x, S
      <3>3. x = v
        BY <3>1, <3>2, SeqEqual
      <3> QED BY <3>3 DEF x
    <2> QED BY <2>1, <2>2, <2>5, <2>6, <2>11 DEF u, v
  <1> QED BY <1>1, <1>2

-----------------------------------------------------------------------------
(* Restarts of the exfiltration detector.                                  *)

Watching == INSTANCE FoldProofs WITH Op <- Watched, Holds <- Anything
RestartInv ==
  Setup.enabled = {"exfiltration"} =>
    /\ ExfilSound(exfil) /\ IsSeq(raised)
    /\ Uninterrupted = Answer(exfil, Nameless(raised))

LEMMA UninterruptedIsResult == Uninterrupted = Watching!Result(Setup, Answer(ExfilFresh, <<>>), history)
  BY DEF Watching!Result, Watching!Folded, Uninterrupted, Folded
LEMMA UninterruptedStep ==
  ASSUME IsSeq(history), Setup' = Setup, NEW x, history' = Append(history, x)
  PROVE  Uninterrupted' = Watched(Setup, Uninterrupted, x)
  <1> DEFINE S == Range(history) \cup {x}
             base == Answer(ExfilFresh, <<>>)
             scope == Setup
  <1>1. history \in Seq(S) /\ x \in S
    BY SeqMonotonic DEF IsSeq
  <1>2. Uninterrupted' = Watching!Result(scope, base, Append(history, x))
    BY DEF Watching!Result, Watching!Folded, Uninterrupted, Folded
  <1>3. Uninterrupted = Watching!Result(scope, base, history)
    BY UninterruptedIsResult
  <1> HIDE DEF S, base, scope
  <1>4. Watching!Result(scope, base, Append(history, x)) = Watched(scope, Watching!Result(scope, base, history), x)
    BY <1>1, Watching!FoldAppend
  <1> QED BY <1>2, <1>3, <1>4 DEF scope

LEMMA ViewTimed ==
  ASSUME NEW scope, NEW e, EventSound(e), View(scope, e) # None
  PROVE  View(scope, e).ts \in Int
  <1>1. Swapped(e).ts = e.ts
    BY DEF Swapped, EventSound
  <1>2. View(scope, e) = e \/ View(scope, e) = Swapped(e)
    <2> HIDE DEF Direction, Swapped
    <2> QED BY DEF View
  <1> QED BY <1>1, <1>2 DEF EventSound
(* What a connection does to the exfiltration detector's run when no other *)
(* detector is on.                                                         *)
LEMMA ConnectionExfil ==
  ASSUME NEW e, ProcessConnection(e), Setup.enabled = {"exfiltration"}, ExfilSound(exfil), EventSound(e)
  PROVE  /\ e.kind = "connection" /\ history' = Append(history, e) /\ profile' = profile
         /\ \E found : /\ Bare(found) /\ raised' = raised \o WithNames(found, e)
                       /\ IF View(Setup, e) = None THEN exfil' = exfil /\ found = <<>>
                          ELSE /\ exfil' = ExfilProcess(exfil, View(Setup, e)).state
                               /\ found = ExfilProcess(exfil, View(Setup, e)).alerts
  <1> DEFINE s == [recon |-> recon, ddos |-> ddos, c2 |-> c2, exfil |-> exfil]
             sessions == {m \in FreshMetadata(e) : m \in Between(e)}
             done == Connection(s, e, sessions)
             uncooled == Connection([d \in DOMAIN s |-> Uncooled(s[d])], e, sessions)
             v == View(Setup, e)
             found == done.exfil.alerts
  <1>1. /\ e.kind = "connection" /\ exfil' = done.exfil.state
        /\ Records(e, WithNames(Raised(done), e), Raised(uncooled))
    BY Zenon DEF ProcessConnection
  <1> HIDE DEF uncooled
  <1>2. profile' = profile /\ history' = Append(history, e) /\ raised' = raised \o WithNames(Raised(done), e)
    BY <1>1 DEF Records
  <1>3. On("exfiltration") /\ ~On("recon") /\ ~On("ddos") /\ ~On("c2") /\ s.exfil = exfil
    BY DEF On
  <1> HIDE DEF s, sessions
  <1>4. /\ done.recon.alerts = <<>> /\ done.ddos.alerts = <<>> /\ done.c2.alerts = <<>>
        /\ done.exfil = IF v # None THEN ExfilProcess(exfil, v) ELSE Answer(exfil, <<>>)
    BY <1>3 DEF Connection, Answer
  <1>5. Bare(found)
    <2>1. CASE v # None
      <3>1. v.ts \in Int
        BY <2>1, ViewTimed
      <3> HIDE DEF v, done
      <3> QED BY <1>4, <2>1, <3>1, ExfilStep
    <2>2. CASE v = None
      <3> HIDE DEF v, done
      <3> QED BY <1>4, <2>2 DEF Answer, Bare
    <2> QED BY <2>1, <2>2
  <1>6. Raised(done) = found
    <2> HIDE DEF done, v
    <2>1. Raised(done) = <<>> \o <<>> \o <<>> \o found
      BY <1>4 DEF Raised
    <2> HIDE DEF found
    <2>2. found = <<>> \/ \E a : found = <<a>>
      BY <1>5 DEF Bare
    <2>3. <<>> \o <<>> = <<>> /\ <<>> \o found = found
      BY <2>2
    <2> QED BY <2>1, <2>3
  <1>7. IF v = None THEN exfil' = exfil /\ found = <<>>
        ELSE exfil' = ExfilProcess(exfil, v).state /\ found = ExfilProcess(exfil, v).alerts
    <2> HIDE DEF done, v
    <2> QED BY <1>1, <1>4 DEF Answer
  <1> HIDE DEF done, found
  <1>8. raised' = raised \o WithNames(found, e)
    BY <1>2, <1>6
  <1> QED BY <1>1, <1>2, <1>5, <1>7, <1>8

LEMMA OthersExfil ==
  ASSUME NEW e, ProcessDNS(e) \/ ProcessEncrypted(e), Setup.enabled = {"exfiltration"}, EventSound(e), IsSeq(raised)
  PROVE  /\ profile' = profile /\ exfil' = exfil /\ raised' = raised
         /\ \E x : x.kind # "connection" /\ history' = Append(history, x)
  <1>0. ~On("dns") /\ ~On("encrypted")
    BY DEF On
  <1>1. raised \o <<>> = raised
    BY DEF IsSeq
  <1>2. CASE ProcessDNS(e)
    <2>1. e.kind = "dns" /\ exfil' = exfil /\ profile' = profile /\ history' = Append(history, e) /\ raised' = raised \o <<>>
      BY <1>0, <1>2 DEF ProcessDNS, Records, Answer
    <2> QED BY <1>1, <2>1
  <1>3. CASE ProcessEncrypted(e)
    <2> DEFINE rich == Enrich(features, e, ~Setup.derived)
               x == rich.event
               done == IF On("encrypted") THEN EncryptedProcess(encrypted, x) ELSE Answer(encrypted, <<>>)
               uncooled == IF On("encrypted") THEN EncryptedProcess(Uncooled(encrypted), x).alerts ELSE <<>>
    <2>1. e.kind = "encrypted" /\ exfil' = exfil /\ Records(x, WithNames(done.alerts, e), uncooled)
      BY <1>3, Zenon DEF ProcessEncrypted
    <2>2. \E value : x = Put(e, "features", value)
      BY DEF Enrich, Enriched
    <2>3. x.kind = e.kind
      BY <2>2 DEF Put, EventSound
    <2>4. done.alerts = <<>>
      BY <1>0 DEF Answer
    <2> HIDE DEF x, done, uncooled
    <2>5. profile' = profile /\ history' = Append(history, x) /\ raised' = raised \o WithNames(<<>>, e)
      BY <2>1, <2>4 DEF Records
    <2>6. WithNames(<<>>, e) = <<>>
      BY DEF WithNames
    <2> QED BY <1>1, <2>1, <2>3, <2>5, <2>6
  <1> QED BY <1>2, <1>3

LEMMA RestartInit == Init => RestartInv
  <1> SUFFICES ASSUME Init PROVE RestartInv
    OBVIOUS
  <1>1. history = <<>> /\ raised = <<>> /\ exfil = ExfilFresh
    BY DEF Init
  <1>2. Uninterrupted = Answer(ExfilFresh, <<>>)
    BY <1>1, UninterruptedIsResult, Watching!FoldEmpty
  <1>3. Nameless(<<>>) = <<>>
    BY DEF Nameless
  <1> QED BY <1>1, <1>2, <1>3, FreshSound, EmptyIsSeq DEF RestartInv

LEMMA RestartStep ==
  ASSUME SessionInv, RestartInv, [Next]_vars
  PROVE  RestartInv'
  <1>0. TimeInv
    BY DEF SessionInv
  <1>1. Setup' = Setup
    <2>1. profile' = profile
      <3>1. CASE Arrives
        BY <3>1, <1>0, EventsSound DEF ProcessConnection, ProcessDNS, ProcessEncrypted, Records
      <3> QED BY <3>1 DEF Next, Complete, Resume, vars
    <2> QED BY <2>1 DEF Setup
  <1> SUFFICES ASSUME Setup.enabled = {"exfiltration"}
               PROVE  /\ ExfilSound(exfil') /\ IsSeq(raised')
                      /\ Uninterrupted' = Answer(exfil', Nameless(raised'))
    BY <1>1 DEF RestartInv, ExfilSound, Nameless
  <1>2. ExfilSound(exfil) /\ IsSeq(raised) /\ Uninterrupted = Answer(exfil, Nameless(raised))
    BY DEF RestartInv
  <1>3. IsSeq(history)
    BY <1>0 DEF TimeInv, Clocked
  <1>4. CASE Arrives
    <2>1. PICK e : EventSound(e) /\ (ProcessConnection(e) \/ ProcessDNS(e) \/ ProcessEncrypted(e))
      BY <1>0, <1>4, EventsSound
    <2>2. CASE ProcessConnection(e)
      <3> DEFINE v == View(Setup, e)
      <3>1. PICK found :
              /\ e.kind = "connection" /\ history' = Append(history, e)
              /\ Bare(found) /\ raised' = raised \o WithNames(found, e)
              /\ IF v = None THEN exfil' = exfil /\ found = <<>>
                 ELSE exfil' = ExfilProcess(exfil, v).state /\ found = ExfilProcess(exfil, v).alerts
        BY <1>2, <2>1, <2>2, ConnectionExfil
      <3>2. Uninterrupted' = Watched(Setup, Answer(exfil, Nameless(raised)), e)
        BY <1>1, <1>2, <1>3, <3>1, UninterruptedStep
      <3>3. IsSeq(raised') /\ Nameless(raised') = Nameless(raised) \o found
        <4>1. IsSeq(raised \o WithNames(found, e)) /\ Nameless(raised \o WithNames(found, e)) = Nameless(raised) \o found
          BY <1>2, <3>1, NamelessAdds
        <4> QED BY <3>1, <4>1
      <3>4. Watched(Setup, Answer(exfil, Nameless(raised)), e) =
              IF v = None THEN Answer(exfil, Nameless(raised))
              ELSE Answer(ExfilProcess(exfil, v).state, Nameless(raised) \o ExfilProcess(exfil, v).alerts)
        <4> DEFINE before == Nameless(raised)
        <4> HIDE DEF before
        <4>1. Answer(exfil, before).state = exfil /\ Answer(exfil, before).alerts = before
          BY DEF Answer
        <4>2. Watched(Setup, Answer(exfil, before), e) =
                IF v = None THEN Answer(exfil, before)
                ELSE Answer(ExfilProcess(exfil, v).state, before \o ExfilProcess(exfil, v).alerts)
          BY <3>1, <4>1 DEF Watched
        <4> QED BY <4>2 DEF before
      <3>5. CASE v = None
        <4>1. Nameless(raised) \o <<>> = Nameless(raised)
          BY <1>2, NamelessIsSeq DEF IsSeq
        <4> QED BY <1>2, <3>1, <3>2, <3>3, <3>4, <3>5, <4>1
      <3>6. CASE v # None
        <4>1. v.ts \in Int
          BY <2>1, <3>6, ViewTimed
        <4> HIDE DEF v
        <4>2. ExfilSound(ExfilProcess(exfil, v).state)
          BY <1>2, <4>1, ExfilStep
        <4> QED BY <3>1, <3>2, <3>3, <3>4, <3>6, <4>2
      <3> QED BY <3>5, <3>6
    <2>3. CASE ProcessDNS(e) \/ ProcessEncrypted(e)
      <3>1. PICK x : exfil' = exfil /\ raised' = raised /\ x.kind # "connection" /\ history' = Append(history, x)
        BY <1>2, <2>1, <2>3, OthersExfil
      <3>2. Uninterrupted' = Watched(Setup, Uninterrupted, x)
        BY <1>1, <1>3, <3>1, UninterruptedStep
      <3>3. Watched(Setup, Uninterrupted, x) = Uninterrupted
        <4> DEFINE run == Uninterrupted
        <4> HIDE DEF run
        <4>1. Watched(Setup, run, x) = run
          BY <3>1 DEF Watched
        <4> QED BY <4>1 DEF run
      <3> QED BY <1>2, <3>1, <3>2, <3>3
    <2> QED BY <2>1, <2>2, <2>3
  <1>5. CASE Complete \/ Resume \/ UNCHANGED vars
    <2>1. history' = history /\ raised' = raised /\ exfil' = exfil
      <3>1. Restore(Export(exfil)) = exfil
        BY <1>2, KeptSound
      <3> QED BY <1>5, <3>1 DEF Complete, Resume, vars, detectors
    <2>2. Uninterrupted' = Uninterrupted
      <3>1. Uninterrupted' = Watching!Result(Setup', Answer(ExfilFresh, <<>>), history')
        BY DEF Watching!Result, Watching!Folded, Uninterrupted, Folded
      <3> QED BY <1>1, <2>1, <3>1, UninterruptedIsResult
    <2> QED BY <1>2, <2>1, <2>2
  <1> QED BY <1>4, <1>5 DEF Next

(* For every profile of the exfiltration detector alone, any traffic and   *)
(* any number of runs: ending a run and starting the next over the exported*)
(* state loses no window, baseline or cooldown, and raises the alerts one  *)
(* run over all the events would raise (exfiltration.py export_state and   *)
(* restore_state).                                                         *)
THEOREM RestartsAreInvisible == Spec => []RestartsInvisible
  <1>1. Init => SessionInv /\ RestartInv
    BY SessionInit, RestartInit
  <1>2. SessionInv /\ RestartInv /\ [Next]_vars => SessionInv' /\ RestartInv'
    BY SessionStep, RestartStep
  <1>3. RestartInv => RestartsInvisible
    BY DEF RestartInv, RestartsInvisible, Answer
  <1> QED BY <1>1, <1>2, <1>3, PTL DEF Spec

-----------------------------------------------------------------------------
(* The exfiltration windows: each merges the transfers of its key, those a *)
(* later session had at earlier times with those that were there before.   *)

LEMMA OfTimeAmong ==
  ASSUME NEW s, IsSeq(s), NEW S, Range(s) \subseteq S, NEW t
  PROVE  OfTime(s, t) = Chosen(s, {y \in S : y.ts = t})
  BY ChosenAgree DEF OfTime
LEMMA OfTimeEmpty == \A t : OfTime(<<>>, t) = <<>>
  BY ChosenEmpty DEF OfTime
LEMMA OfTimeConcat ==
  ASSUME NEW r, IsSeq(r), NEW s, IsSeq(s), NEW t
  PROVE  OfTime(r \o s, t) = OfTime(r, t) \o OfTime(s, t)
  <1> DEFINE S == Range(r) \cup Range(s)
             G == {y \in S : y.ts = t}
  <1>1. IsSeq(r \o s) /\ Range(r \o s) \subseteq S
    BY ConcatIsSeq
  <1>2. Range(r) \subseteq S /\ Range(s) \subseteq S
    OBVIOUS
  <1> HIDE DEF S
  <1>3. OfTime(r \o s, t) = Chosen(r \o s, G) /\ OfTime(r, t) = Chosen(r, G) /\ OfTime(s, t) = Chosen(s, G)
    BY <1>1, <1>2, OfTimeAmong
  <1> HIDE DEF G
  <1> QED BY <1>3, ChosenConcat
LEMMA OfTimeAppend ==
  ASSUME NEW s, IsSeq(s), NEW x, NEW t
  PROVE  OfTime(Append(s, x), t) = IF x.ts = t THEN Append(OfTime(s, t), x) ELSE OfTime(s, t)
  <1> DEFINE S == Range(s) \cup {x}
             G == {y \in S : y.ts = t}
  <1>1. IsSeq(Append(s, x)) /\ Range(Append(s, x)) \subseteq S
    BY AppendIsSeq
  <1>2. Range(s) \subseteq S /\ (x \in G <=> x.ts = t)
    OBVIOUS
  <1> HIDE DEF S
  <1>3. OfTime(Append(s, x), t) = Chosen(Append(s, x), G) /\ OfTime(s, t) = Chosen(s, G)
    BY <1>1, <1>2, OfTimeAmong
  <1> HIDE DEF G
  <1>4. Chosen(Append(s, x), G) = IF x \in G THEN Append(Chosen(s, G), x) ELSE Chosen(s, G)
    BY ChosenAppend
  <1> QED BY <1>2, <1>3, <1>4
(* There is something of a time exactly when some event has that time.     *)
LEMMA OfTimeSome ==
  ASSUME NEW s, IsSeq(s), NEW t
  PROVE  OfTime(s, t) # <<>> <=> \E y \in Range(s) : y.ts = t
  <1> DEFINE G == {y \in Range(s) : y.ts = t}
  <1>1. OfTime(s, t) = Chosen(s, G)
    BY DEF OfTime
  <1>2. ASSUME NEW y \in Range(s), y.ts = t PROVE Chosen(s, G) # <<>>
    <2>1. y \in Range(Chosen(s, G))
      BY <1>2, ChosenHas
    <2> QED BY <2>1, EmptyIsSeq
  <1>3. ASSUME \A y \in Range(s) : y.ts # t PROVE Chosen(s, G) = <<>>
    BY <1>3, ChosenNone
  <1> QED BY <1>1, <1>2, <1>3
LEMMA OfTimeAfter ==
  ASSUME NEW s, IsSeq(s), NEW c, NEW t
  PROVE  OfTime(Chosen(s, After(s, c)), t) = IF t >= c THEN OfTime(s, t) ELSE <<>>
  <1> DEFINE G == After(s, c)
             H == {y \in Range(s) : y.ts = t}
  <1>1. IsSeq(Chosen(s, G)) /\ Range(Chosen(s, G)) \subseteq Range(s)
    BY ChosenIsSeq
  <1>2. OfTime(Chosen(s, G), t) = Chosen(Chosen(s, G), H)
    <2> DEFINE u == Chosen(s, G)
               S == Range(s)
    <2>1. IsSeq(u) /\ Range(u) \subseteq S
      BY <1>1
    <2> HIDE DEF u, S
    <2>2. OfTime(u, t) = Chosen(u, {y \in S : y.ts = t})
      BY <2>1, OfTimeAmong
    <2> QED BY <2>2 DEF u, S
  <1>3. Chosen(Chosen(s, G), H) = Chosen(s, G \cap H)
    BY ChosenTwice
  <1>4. CASE t >= c
    <2>1. G \cap H = H
      BY <1>4 DEF After
    <2> QED BY <1>2, <1>3, <1>4, <2>1 DEF OfTime
  <1>5. CASE ~(t >= c)
    <2>1. \A y \in Range(s) : y \notin G \cap H
      BY <1>5 DEF After
    <2>2. Chosen(s, G \cap H) = <<>>
      BY <2>1, ChosenNone
    <2> QED BY <1>2, <1>3, <1>5, <2>2
  <1> QED BY <1>4, <1>5
LEMMA OfTimeInserted ==
  ASSUME NEW w, Timely(w), NEW x, x.ts \in Int, NEW t
  PROVE  OfTime(Inserted(w, x), t) = IF x.ts = t THEN Append(OfTime(w, t), x) ELSE OfTime(w, t)
  <1>1. PICK left, right : /\ w = left \o right /\ Inserted(w, x) = left \o <<x>> \o right
                           /\ Timely(left) /\ Timely(right) /\ (\A y \in Range(left) : y.ts <= x.ts)
                           /\ (\A y \in Range(right) : x.ts < y.ts)
    BY InsertedParts
  <1>2. IsSeq(left) /\ IsSeq(right) /\ IsSeq(Append(left, x)) /\ \A y \in Range(right) : y.ts \in Int
    BY <1>1, TimelyFacts, AppendIsSeq
  <1>3. left \o <<x>> = Append(left, x)
    <2>1. left \in Seq(Range(left) \cup {x})
      BY <1>2, SeqMonotonic DEF IsSeq
    <2> QED BY <2>1
  <1> DEFINE l == OfTime(left, t)
             r == OfTime(right, t)
  <1>4. OfTime(w, t) = l \o r
    BY <1>1, <1>2, OfTimeConcat
  <1>5. OfTime(Inserted(w, x), t) = (IF x.ts = t THEN Append(l, x) ELSE l) \o r
    <2>1. OfTime(Append(left, x) \o right, t) = OfTime(Append(left, x), t) \o r
      BY <1>2, OfTimeConcat
    <2>2. OfTime(Append(left, x), t) = IF x.ts = t THEN Append(l, x) ELSE l
      BY <1>2, OfTimeAppend
    <2>3. Inserted(w, x) = Append(left, x) \o right
      BY <1>1, <1>3
    <2> HIDE DEF l, r
    <2> QED BY <2>1, <2>2, <2>3
  <1>6. IsSeq(l)
    BY <1>2, ChosenIsSeq DEF OfTime
  <1>7. x.ts = t => r = <<>>
    BY <1>1, <1>2, OfTimeSome
  <1> HIDE DEF l, r
  <1>8. l \o <<>> = l /\ Append(l, x) \o <<>> = Append(l, x)
    <2>1. IsSeq(Append(l, x))
      BY <1>6, AppendIsSeq
    <2> QED BY <1>6, <2>1 DEF IsSeq
  <1> QED BY <1>4, <1>5, <1>7, <1>8

Newest(s) == Max({y.ts : y \in Range(s)})
LEMMA NewestIs ==
  ASSUME NEW s, Clocked(s), s # <<>>
  PROVE  /\ Newest(s) \in Int /\ (\E y \in Range(s) : y.ts = Newest(s))
         /\ \A y \in Range(s) : y.ts \in Int /\ y.ts <= Newest(s)
  <1> DEFINE f == [y \in Range(s) |-> y.ts]
             S == {f[y] : y \in Range(s)}
  <1>1. IsSeq(s) /\ IsFiniteSet(Range(s)) /\ \A y \in Range(s) : y.ts \in Int
    BY RangeFinite, FoundAt DEF Clocked
  <1>2. Range(s) # {}
    <2>1. Len(s) \in Nat /\ Len(s) # 0 /\ \A i \in 1..Len(s) : s[i] \in Range(s)
      BY <1>1, SeqFacts, EmptySeq DEF IsSeq
    <2>2. 1 \in 1..Len(s)
      BY <2>1
    <2> QED BY <2>1, <2>2
  <1>3. IsFiniteSet(S)
    BY <1>1, ImageFinite
  <1>4. S = {y.ts : y \in Range(s)} /\ S \subseteq Int /\ S # {}
    BY <1>1, <1>2
  <1> HIDE DEF S
  <1>5. Max(S) \in S /\ \A t \in S : Max(S) >= t
    BY <1>3, <1>4, MaxOfFinite
  <1>6. Newest(s) = Max(S)
    BY <1>4 DEF Newest
  <1> HIDE DEF f
  <1> DEFINE m == Newest(s)
  <1>7. m \in Int /\ m \in S /\ \A t \in S : m >= t
    BY <1>4, <1>5, <1>6
  <1> HIDE DEF m
  <1>8. m \in {y.ts : y \in Range(s)} /\ \A y \in Range(s) : m >= y.ts
    BY <1>4, <1>7
  <1> QED BY <1>1, <1>7, <1>8 DEF m

(* A window that merges what arrived, as far as it lies within the span.   *)
MergedIn(w, all, span) ==
  /\ Timely(w) /\ Clocked(all) /\ all # <<>>
  /\ \A t \in Int : OfTime(w, t) = IF t >= Newest(all) - span THEN OfTime(all, t) ELSE <<>>
LEMMA ClockedAppend ==
  ASSUME NEW s, Clocked(s), NEW x, x.ts \in Int
  PROVE  Clocked(Append(s, x)) /\ Append(s, x) # <<>>
  <1> DEFINE t == Append(s, x)
  <1>1. IsSeq(s) /\ Len(s) \in Nat /\ \A i \in 1..Len(s) : s[i].ts \in Int
    BY SeqFacts DEF Clocked
  <1>2. IsSeq(t) /\ Len(t) = Len(s) + 1 /\ t[Len(s) + 1] = x /\ \A i \in 1..Len(s) : t[i] = s[i]
    BY <1>1, AppendIsSeq
  <1> HIDE DEF t
  <1>3. \A i \in 1..Len(t) : i \in 1..Len(s) \/ i = Len(s) + 1
    BY <1>1, <1>2
  <1>4. t # <<>>
    BY <1>1, <1>2, EmptyIsSeq
  <1> QED BY <1>1, <1>2, <1>3, <1>4 DEF Clocked, t
LEMMA MergedStep ==
  ASSUME NEW w, NEW all, NEW span \in Nat, MergedIn(w, all, span) \/ (w = <<>> /\ all = <<>>),
         NEW x, x.ts \in Int
  PROVE  LET u == Inserted(w, x)
         IN  MergedIn(Evicted(u, Last(u).ts - span), Append(all, x), span)
  <1> DEFINE u == Inserted(w, x)
             b == Append(all, x)
             l == Last(u).ts
             n == Newest(b)
             c == l - span
  <1>1. Timely(w) /\ Clocked(all) /\ IsSeq(w) /\ IsSeq(all)
    <2>1. Timely(w) /\ Clocked(all)
      BY TimelyEmpty DEF MergedIn, Timely
    <2> QED BY <2>1 DEF Timely, Clocked
  <1>2. Timely(u) /\ u # <<>> /\ IsSeq(u)
    BY <1>1, InsertedTimely, TimelyFacts
  <1>3. Clocked(b) /\ b # <<>> /\ IsSeq(b) /\ Range(b) = Range(all) \cup {x}
    BY <1>1, ClockedAppend, AppendIsSeq
  <1>4. \A t : /\ OfTime(u, t) = IF x.ts = t THEN Append(OfTime(w, t), x) ELSE OfTime(w, t)
               /\ OfTime(b, t) = IF x.ts = t THEN Append(OfTime(all, t), x) ELSE OfTime(all, t)
    BY <1>1, OfTimeInserted, OfTimeAppend
  <1>5. l \in Int /\ (\E y \in Range(u) : y.ts = l) /\ \A y \in Range(u) : y.ts <= l
    BY <1>2, TimelyFacts DEF Latest
  <1>6. n \in Int /\ (\E y \in Range(b) : y.ts = n) /\ \A y \in Range(b) : y.ts \in Int /\ y.ts <= n
    BY <1>3, NewestIs
  <1>7. \A t \in Int : t >= n - span => OfTime(w, t) = OfTime(all, t)
    <2>1. CASE w = <<>> /\ all = <<>>
      BY <2>1
    <2>2. CASE MergedIn(w, all, span)
      <3>1. Newest(all) \in Int /\ \E y \in Range(all) : y.ts = Newest(all)
        BY <2>2, NewestIs DEF MergedIn
      <3>2. Newest(all) <= n
        BY <1>3, <1>6, <3>1
      <3> HIDE DEF n
      <3>3. \A t \in Int : t >= n - span => t >= Newest(all) - span
        BY <1>6, <3>1, <3>2
      <3> QED BY <2>2, <3>3 DEF MergedIn
    <2> QED BY <2>1, <2>2
  <1> HIDE DEF u, b, n, l, c
  <1>8. l = n
    <2>1. l <= n
      <3>1. OfTime(u, l) # <<>>
        BY <1>2, <1>5, OfTimeSome
      <3>2. CASE x.ts = l
        BY <1>3, <1>6, <3>2
      <3>3. CASE x.ts # l
        <4>1. OfTime(w, l) # <<>>
          BY <1>4, <3>1, <3>3
        <4>2. MergedIn(w, all, span)
          BY <4>1, OfTimeEmpty
        <4>3. OfTime(all, l) # <<>>
          BY <1>5, <4>1, <4>2 DEF MergedIn
        <4>4. \E y \in Range(all) : y.ts = l
          BY <1>1, <4>3, OfTimeSome
        <4> QED BY <1>3, <1>6, <4>4
      <3> QED BY <3>2, <3>3
    <2>2. n <= l
      <3>1. OfTime(b, n) # <<>>
        BY <1>3, <1>6, OfTimeSome
      <3>2. n >= n - span
        BY <1>6
      <3>3. OfTime(u, n) = OfTime(b, n)
        BY <1>4, <1>6, <1>7, <3>2
      <3>4. \E y \in Range(u) : y.ts = n
        BY <1>2, <3>1, <3>3, OfTimeSome
      <3> QED BY <1>5, <3>4
    <2> QED BY <1>5, <1>6, <2>1, <2>2
  <1>9. c \in Int /\ c = n - span
    BY <1>5, <1>8 DEF c
  <1> DEFINE e == Evicted(u, c)
  <1>10. e = Chosen(u, After(u, c)) /\ Timely(e)
    BY <1>2, <1>9, EvictedIsChosen, TimelyChosen
  <1>11. \A t \in Int : OfTime(e, t) = IF t >= n - span THEN OfTime(b, t) ELSE <<>>
    <2> TAKE t \in Int
    <2>1. OfTime(e, t) = IF t >= c THEN OfTime(u, t) ELSE <<>>
      BY <1>2, <1>10, OfTimeAfter
    <2>2. t >= n - span => OfTime(u, t) = OfTime(b, t)
      BY <1>4, <1>7
    <2> QED BY <1>9, <2>1, <2>2
  <1> HIDE DEF e
  <1>12. MergedIn(e, b, span)
    BY <1>3, <1>10, <1>11 DEF MergedIn, n
  <1> QED BY <1>12 DEF e, c, l, u, b

(* The transfers of a key, and the windows that merge them all.            *)
OfKey(T, k) == Chosen(T, {e \in Range(T) : <<e.src, e.dst>> = k})
Merging(windows, T) ==
  /\ \A k \in DOMAIN windows : MergedIn(windows[k], OfKey(T, k), ExfilConfig.window)
  /\ \A e \in Range(T) : <<e.src, e.dst>> \in DOMAIN windows
TransfersInv == Clocked(Transfers) /\ Merging(exfil.windows, Transfers)

LEMMA OfKeyAppend ==
  ASSUME NEW T, IsSeq(T), NEW v, NEW k
  PROVE  OfKey(Append(T, v), k) = IF <<v.src, v.dst>> = k THEN Append(OfKey(T, k), v) ELSE OfKey(T, k)
  <1> DEFINE S == Range(T) \cup {v}
             G == {e \in S : <<e.src, e.dst>> = k}
             H == {e \in Range(T) : <<e.src, e.dst>> = k}
  <1>1. OfKey(Append(T, v), k) = Chosen(Append(T, v), G)
    <2>1. Range(Append(T, v)) = S
      BY AppendIsSeq
    <2> HIDE DEF S
    <2> QED BY <2>1 DEF OfKey
  <1>2. OfKey(T, k) = Chosen(T, G)
    <2>1. \A x \in Range(T) : x \in H <=> x \in G
      OBVIOUS
    <2>2. OfKey(T, k) = Chosen(T, H)
      BY DEF OfKey
    <2> HIDE DEF G, H
    <2> QED BY <2>1, <2>2, ChosenAgree
  <1>3. v \in G <=> <<v.src, v.dst>> = k
    OBVIOUS
  <1> HIDE DEF G
  <1>4. Chosen(Append(T, v), G) = IF v \in G THEN Append(Chosen(T, G), v) ELSE Chosen(T, G)
    BY ChosenAppend
  <1> QED BY <1>1, <1>2, <1>3, <1>4
LEMMA MergingAdds ==
  ASSUME NEW T, Clocked(T), NEW windows, Merging(windows, T), NEW v, v.ts \in Int
  PROVE  /\ Clocked(Append(T, v))
         /\ Merging(Added(windows, <<v.src, v.dst>>, v, ExfilConfig.window), Append(T, v))
  <1> DEFINE key == <<v.src, v.dst>>
             span == ExfilConfig.window
             w == At(windows, key, <<>>)
             u == Inserted(w, v)
             e == Evicted(u, Last(u).ts - span)
             new == Put(windows, key, e)
             U == Append(T, v)
  <1>1. IsSeq(T) /\ Clocked(U) /\ Range(U) = Range(T) \cup {v} /\ span \in Nat
    BY ClockedAppend, AppendIsSeq, ExfilBounds DEF Clocked
  <1>2. MergedIn(w, OfKey(T, key), span) \/ (w = <<>> /\ OfKey(T, key) = <<>>)
    <2>1. CASE key \in DOMAIN windows
      BY <2>1 DEF At, Merging
    <2>2. CASE key \notin DOMAIN windows
      <3>1. w = <<>>
        BY <2>2 DEF At
      <3>2. \A x \in Range(T) : x \notin {y \in Range(T) : <<y.src, y.dst>> = key}
        BY <2>2 DEF Merging
      <3>3. OfKey(T, key) = <<>>
        BY <1>1, <3>2, ChosenNone DEF OfKey
      <3> QED BY <3>1, <3>3
    <2> QED BY <2>1, <2>2
  <1>3. \A k : OfKey(U, k) = IF key = k THEN Append(OfKey(T, k), v) ELSE OfKey(T, k)
    BY <1>1, OfKeyAppend
  <1>4. Added(windows, key, v, span) = new
    BY Zenon DEF Added
  <1> HIDE DEF w
  <1>5. MergedIn(e, Append(OfKey(T, key), v), span)
    <2> DEFINE all == OfKey(T, key)
    <2> HIDE DEF all
    <2>1. MergedIn(w, all, span) \/ (w = <<>> /\ all = <<>>)
      BY <1>2 DEF all
    <2> HIDE DEF span
    <2>2. MergedIn(e, Append(all, v), span)
      BY <1>1, <2>1, MergedStep
    <2> QED BY <2>2 DEF all
  <1> HIDE DEF e, u, U
  <1>6. ASSUME NEW k \in DOMAIN new PROVE MergedIn(new[k], OfKey(U, k), span)
    <2> DEFINE c == key
    <2>1. CASE k = c
      <3>1. new[k] = e /\ OfKey(U, k) = Append(OfKey(T, c), v)
        BY <1>3, <2>1 DEF Put
      <3> QED BY <1>5, <3>1
    <2>2. CASE k # c
      <3>1. k \in DOMAIN windows /\ new[k] = windows[k] /\ OfKey(U, k) = OfKey(T, k)
        BY <1>3, <1>6, <2>2 DEF Put
      <3> QED BY <3>1 DEF Merging
    <2> QED BY <2>1, <2>2
  <1>7. ASSUME NEW x \in Range(U) PROVE <<x.src, x.dst>> \in DOMAIN new
    <2>1. DOMAIN new = DOMAIN windows \cup {key}
      BY DEF Put
    <2> QED BY <1>1, <2>1 DEF Merging
  <1> QED BY <1>1, <1>4, <1>6, <1>7 DEF Merging, U

(* Which events are transfers, and as what they are seen.                  *)
Viewed(scope, s) == [i \in DOMAIN s |-> View(scope, s[i])]
LEMMA ViewedAppend ==
  ASSUME NEW scope, NEW s, IsSeq(s), NEW x
  PROVE  Viewed(scope, Append(s, x)) = Append(Viewed(scope, s), View(scope, x))
  <1> DEFINE n == Len(s)
             t == Viewed(scope, s)
             u == Viewed(scope, Append(s, x))
             v == View(scope, x)
             S == {View(scope, y) : y \in Range(s) \cup {x}}
  <1>1. n \in Nat /\ DOMAIN s = 1..n /\ \A i \in 1..n : s[i] \in Range(s)
    BY SeqFacts
  <1>2. /\ IsSeq(Append(s, x)) /\ Len(Append(s, x)) = n + 1
        /\ Append(s, x)[n + 1] = x /\ \A i \in 1..n : Append(s, x)[i] = s[i]
    BY AppendIsSeq
  <1>3. DOMAIN Append(s, x) = 1..(n + 1)
    BY <1>2, SeqFacts
  <1>4. t = [i \in 1..n |-> View(scope, s[i])] /\ u = [i \in 1..(n + 1) |-> View(scope, Append(s, x)[i])]
    BY <1>1, <1>3 DEF Viewed
  <1>5. v \in S /\ \A i \in 1..n : View(scope, s[i]) \in S
    BY <1>1
  <1> HIDE DEF n, t, u, v, S
  <1>6. \A i \in 1..(n + 1) : i \in 1..n \/ i = n + 1
    BY <1>1
  <1>7. t \in Seq(S) /\ Len(t) = n /\ u \in Seq(S) /\ Len(u) = n + 1
    <2>1. t \in [1..n -> S]
      BY <1>4, <1>5
    <2>2. u \in [1..(n + 1) -> S]
      BY <1>2, <1>4, <1>5, <1>6 DEF v
    <2> QED BY <1>1, <2>1, <2>2
  <1>8. /\ Append(t, v) \in Seq(S) /\ Len(Append(t, v)) = n + 1 /\ Append(t, v)[n + 1] = v
        /\ \A i \in 1..n : Append(t, v)[i] = t[i]
    BY <1>5, <1>7, AppendProperties
  <1>9. \A i \in 1..(n + 1) : u[i] = Append(t, v)[i]
    BY <1>2, <1>4, <1>6, <1>8 DEF v
  <1>10. u = Append(t, v)
    BY <1>7, <1>8, <1>9, SeqEqual
  <1> QED BY <1>10 DEF t, u, v
LEMMA TransfersAppend ==
  ASSUME IsSeq(history), Setup' = Setup, NEW e, history' = Append(history, e)
  PROVE  Transfers' = IF Transfer(e) THEN Append(Transfers, View(Setup, e)) ELSE Transfers
  <1> DEFINE S == Range(history) \cup {e}
             G == {x \in S : Transfer(x)}
             H == {x \in Range(history) : Transfer(x)}
             scope == Setup
             new == Append(history, e)
  <1>1. \A x : Transfer(x)' <=> Transfer(x)
    BY DEF Transfer, Connects, On
  <1>2. Transfers' = Viewed(scope, Chosen(new, G))
    <2>1. Range(new) = S
      BY AppendIsSeq
    <2>2. {x \in Range(new) : Transfer(x)'} = G
      BY <1>1, <2>1
    <2>3. Transfers' = Viewed(Setup', Chosen(history', {x \in Range(history') : Transfer(x)'}))
      BY DEF Transfers, Viewed
    <2> HIDE DEF G, new
    <2> QED BY <2>2, <2>3 DEF new
  <1>3. Transfers = Viewed(scope, Chosen(history, G))
    <2>1. \A x \in Range(history) : x \in H <=> x \in G
      OBVIOUS
    <2>2. Transfers = Viewed(scope, Chosen(history, H))
      BY DEF Transfers, Viewed
    <2> HIDE DEF G, H
    <2>3. Chosen(history, H) = Chosen(history, G)
      BY <2>1, ChosenAgree
    <2> QED BY <2>2, <2>3
  <1>4. e \in G <=> Transfer(e)
    OBVIOUS
  <1> HIDE DEF G, scope
  <1> DEFINE given == Chosen(history, G)
  <1>5. Chosen(new, G) = (IF e \in G THEN Append(given, e) ELSE given) /\ IsSeq(given)
    BY ChosenAppend, ChosenIsSeq
  <1> HIDE DEF given, new
  <1>6. Viewed(scope, Append(given, e)) = Append(Viewed(scope, given), View(scope, e))
    BY <1>5, ViewedAppend
  <1> QED BY <1>2, <1>3, <1>4, <1>5, <1>6 DEF given, scope
LEMMA ExfilWindows ==
  ASSUME NEW state, NEW e
  PROVE  ExfilProcess(state, e).state.windows =
           IF e.dst \in ApprovedBackup \/ \E r \in ApprovedBulk : RuleMatches(r, e) THEN state.windows
           ELSE Added(state.windows, <<e.src, e.dst>>, e, ExfilConfig.window)
  <1> DEFINE key == <<e.src, e.dst>>
             baseline == At(state.baselines, e.src, <<>>)
             windows == Added(state.windows, key, e, ExfilConfig.window)
             found == IF Huge(e) THEN <<ExfilAlert(<<e>>, e)>>
                      ELSE Rule(/\ Len(windows[key]) >= ExfilConfig.minFlows
                                /\ Outlier(windows[key], DoubleMedian(baseline)),
                                ExfilAlert(windows[key], e))
             said == Spaced(state.last, found, ExfilConfig.cooldown)
             approved == e.dst \in ApprovedBackup \/ \E r \in ApprovedBulk : RuleMatches(r, e)
             new == [windows |-> windows,
                     baselines |-> Put(state.baselines, e.src, Remembered(baseline, e.outbound)),
                     first |-> Put(state.first, key, At(state.first, key, e.ts)), last |-> said.last]
             alarms == said.alerts
  <1>1. ExfilProcess(state, e) = IF approved THEN Answer(state, <<>>) ELSE Answer(new, alarms)
    BY Zenon DEF ExfilProcess
  <1>2. new.windows = windows
    OBVIOUS
  <1> HIDE DEF windows, new, alarms, approved
  <1>3. ExfilProcess(state, e).state.windows = IF approved THEN state.windows ELSE windows
    BY <1>1, <1>2 DEF Answer
  <1> QED BY <1>3 DEF windows, approved
LEMMA ConnectionTransfers ==
  ASSUME NEW e, ProcessConnection(e)
  PROVE  LET v == View(Setup, e)
         IN  exfil'.windows = IF Transfer(e) THEN Added(exfil.windows, <<v.src, v.dst>>, v, ExfilConfig.window)
                              ELSE exfil.windows
  <1> DEFINE s == [recon |-> recon, ddos |-> ddos, c2 |-> c2, exfil |-> exfil]
             sessions == {m \in FreshMetadata(e) : m \in Between(e)}
             done == Connection(s, e, sessions)
             v == View(Setup, e)
             approved == v.dst \in ApprovedBackup \/ \E r \in ApprovedBulk : RuleMatches(r, v)
  <1>1. e.kind = "connection" /\ exfil' = done.exfil.state
    BY Zenon DEF ProcessConnection
  <1>2. s.exfil = exfil
    OBVIOUS
  <1> HIDE DEF s, sessions
  <1>3. done.exfil = IF On("exfiltration") /\ v # None THEN ExfilProcess(exfil, v) ELSE Answer(exfil, <<>>)
    BY <1>2 DEF Connection
  <1> HIDE DEF done
  <1>4. Transfer(e) <=> On("exfiltration") /\ v # None /\ ~approved
    BY <1>1 DEF Transfer, Connects
  <1> HIDE DEF v
  <1>5. ExfilProcess(exfil, v).state.windows =
          IF approved THEN exfil.windows ELSE Added(exfil.windows, <<v.src, v.dst>>, v, ExfilConfig.window)
    BY ExfilWindows
  <1> HIDE DEF approved
  <1>6. Answer(exfil, <<>>).state = exfil
    BY DEF Answer
  <1>7. exfil'.windows = IF Transfer(e) THEN Added(exfil.windows, <<v.src, v.dst>>, v, ExfilConfig.window)
                         ELSE exfil.windows
    BY <1>1, <1>3, <1>4, <1>5, <1>6
  <1> QED BY <1>7 DEF v

LEMMA TransfersInit == Init => TransfersInv
  <1> SUFFICES ASSUME Init PROVE TransfersInv
    OBVIOUS
  <1>1. history = <<>> /\ exfil.windows = <<>>
    BY DEF Init, ExfilFresh
  <1>2. Transfers = <<>>
    <2>1. Chosen(history, {e \in Range(history) : Transfer(e)}) = <<>>
      BY <1>1, ChosenEmpty
    <2>2. Transfers = Viewed(Setup, Chosen(history, {e \in Range(history) : Transfer(e)}))
      BY DEF Transfers, Viewed
    <2>3. \A scope : Viewed(scope, <<>>) = <<>>
      BY DEF Viewed
    <2> QED BY <2>1, <2>2, <2>3
  <1> QED BY <1>1, <1>2, TimelyEmpty, EmptyIsSeq DEF TransfersInv, Merging, Timely

LEMMA TransfersStep ==
  ASSUME SessionInv, RestartInv, TransfersInv, [Next]_vars
  PROVE  TransfersInv'
  <1>0. TimeInv /\ IsSeq(history) /\ Clocked(Transfers) /\ Merging(exfil.windows, Transfers)
    BY DEF SessionInv, TimeInv, Clocked, TransfersInv
  <1>1. CASE Arrives
    <2>1. PICK e : EventSound(e) /\ (ProcessConnection(e) \/ ProcessDNS(e) \/ ProcessEncrypted(e))
      BY <1>0, <1>1, EventsSound
    <2>2. CASE ProcessConnection(e)
      <3> DEFINE v == View(Setup, e)
                 T == Transfers
      <3>1. Setup' = Setup /\ history' = Append(history, e)
        BY <2>2, ConnectionStates DEF Setup
      <3>2. T' = IF Transfer(e) THEN Append(T, v) ELSE T
        BY <1>0, <3>1, TransfersAppend
      <3>3. exfil'.windows = IF Transfer(e) THEN Added(exfil.windows, <<v.src, v.dst>>, v, ExfilConfig.window)
                             ELSE exfil.windows
        BY <2>2, ConnectionTransfers
      <3>4. CASE Transfer(e)
        <4>1. v.ts \in Int
          BY <2>1, <3>4, ViewTimed DEF Transfer
        <4> HIDE DEF v
        <4>2. /\ Clocked(Append(T, v))
              /\ Merging(Added(exfil.windows, <<v.src, v.dst>>, v, ExfilConfig.window), Append(T, v))
          BY <1>0, <4>1, MergingAdds
        <4>3. T' = Append(T, v) /\ exfil'.windows = Added(exfil.windows, <<v.src, v.dst>>, v, ExfilConfig.window)
          BY <3>2, <3>3, <3>4
        <4>4. Clocked(T') /\ Merging(exfil'.windows, T')
          BY <4>2, <4>3, Zenon
        <4> QED BY <4>4 DEF TransfersInv, Clocked, Merging
      <3>5. CASE ~Transfer(e)
        <4>1. T' = T /\ exfil'.windows = exfil.windows
          BY <3>2, <3>3, <3>5
        <4>2. Clocked(T') /\ Merging(exfil'.windows, T')
          BY <1>0, <4>1
        <4> QED BY <4>2 DEF TransfersInv, Clocked, Merging
      <3> QED BY <3>4, <3>5
    <2>3. CASE ProcessDNS(e) \/ ProcessEncrypted(e)
      <3>1. PICK x : Setup' = Setup /\ exfil' = exfil /\ x.kind # "connection" /\ history' = Append(history, x)
        <4>1. CASE ProcessDNS(e)
          BY <4>1, DNSStates DEF Setup
        <4>2. CASE ProcessEncrypted(e)
          BY <2>1, <4>2, EncryptedStates DEF Setup
        <4> QED BY <2>3, <4>1, <4>2
      <3>2. ~Transfer(x)
        BY <3>1 DEF Transfer, Connects
      <3>3. Transfers' = Transfers
        BY <1>0, <3>1, <3>2, TransfersAppend
      <3>4. Clocked(Transfers') /\ Merging(exfil'.windows, Transfers')
        BY <1>0, <3>1, <3>3
      <3> QED BY <3>4 DEF TransfersInv, Clocked, Merging
    <2> QED BY <2>1, <2>2, <2>3
  <1>2. CASE Complete \/ Resume \/ UNCHANGED vars
    <2>1. UNCHANGED <<profile, history, exfil>>
      <3>1. ASSUME Resume PROVE Restore(Export(exfil)) = exfil
        BY <3>1, KeptSound DEF Resume, RestartInv
      <3> QED BY <1>2, <3>1 DEF Complete, Resume, vars, detectors
    <2>2. Transfers' = Transfers
      BY <2>1 DEF Transfers, Transfer, Connects, On, Setup
    <2>3. Clocked(Transfers') /\ Merging(exfil'.windows, Transfers')
      BY <1>0, <2>1, <2>2
    <2> QED BY <2>3 DEF TransfersInv, Clocked, Merging
  <1> QED BY <1>1, <1>2 DEF Next

LEMMA TransfersGive == TransfersInv => TransfersExact
  <1> SUFFICES ASSUME TransfersInv PROVE TransfersExact
    OBVIOUS
  <1> DEFINE T == Transfers
             span == ExfilConfig.window
  <1>1. ASSUME NEW k \in DOMAIN exfil.windows PROVE Merges(exfil.windows[k], Within(OfKey(T, k), span))
    <2> DEFINE w == exfil.windows[k]
               all == OfKey(T, k)
               c == Newest(all) - span
               arrived == Within(all, span)
    <2>1. MergedIn(w, all, span) /\ span \in Nat
      BY ExfilBounds DEF TransfersInv, Merging
    <2> HIDE DEF w, all, span
    <2>2. arrived = Chosen(all, After(all, c))
      BY DEF Within, Newest, After
    <2>3. Timely(w) /\ Clocked(all) /\ IsSeq(all) /\ Newest(all) \in Int /\ \A y \in Range(all) : y.ts \in Int
      BY <2>1, NewestIs DEF MergedIn, Clocked
    <2>4. c \in Int
      BY <2>1, <2>3
    <2> HIDE DEF c, arrived
    <2>5. Range(arrived) \subseteq Range(all)
      BY <2>2, <2>3, ChosenIsSeq
    <2>6. \A e \in Range(w) \cup Range(arrived) : e.ts \in Int
      BY <2>3, <2>5, TimelyFacts
    <2>7. \A t : OfTime(arrived, t) = IF t >= c THEN OfTime(all, t) ELSE <<>>
      BY <2>2, <2>3, OfTimeAfter
    <2>8. \A t \in Int : OfTime(w, t) = IF t >= c THEN OfTime(all, t) ELSE <<>>
      BY <2>1 DEF MergedIn, c
    <2>9. \A e \in Range(w) \cup Range(arrived) : OfTime(w, e.ts) = OfTime(arrived, e.ts)
      BY <2>6, <2>7, <2>8
    <2>10. \A i, j \in DOMAIN w : i <= j => w[i].ts <= w[j].ts
      BY <2>3, TimelyFacts DEF Timely
    <2>11. Merges(w, arrived)
      BY <2>9, <2>10 DEF Merges
    <2> QED BY <2>11 DEF w, arrived, all, span
  <1>2. \A e \in Range(T) : <<e.src, e.dst>> \in DOMAIN exfil.windows
    BY DEF TransfersInv, Merging
  <1> QED BY <1>1, <1>2 DEF TransfersExact, OfKey

(* For every profile, detector setting and traffic: each of the eleven     *)
(* windows holds exactly the events of its key that the detector looks at  *)
(* and that lie within its span of the latest one, in order of time and at *)
(* one time of arrival, so that what KeyedSlidingWindow.add and the scan   *)
(* contacts evict is what has left the window and nothing else.  The       *)
(* exfiltration windows merge the transfers of all the runs, however far a *)
(* later run's events lie before those the kept state has already.         *)
THEOREM WindowsAreExact == Spec => []WindowsExact
  <1>1. Init => SessionInv /\ RestartInv /\ TransfersInv
    BY SessionInit, RestartInit, TransfersInit
  <1>2. SessionInv /\ RestartInv /\ TransfersInv /\ [Next]_vars => SessionInv' /\ RestartInv' /\ TransfersInv'
    BY SessionStep, RestartStep, TransfersStep
  <1>3. SessionInv /\ TransfersInv => WindowsExact
    BY SessionWindows, TransfersGive DEF WindowsExact
  <1> QED BY <1>1, <1>2, <1>3, PTL DEF Spec

-----------------------------------------------------------------------------
(* Cooldowns: what each detector remembers of its alerts.                  *)

Pause(family) ==
  CASE family = "recon" -> ReconConfig.cooldown [] family = "ddos" -> DDoSConfig.cooldown
    [] family = "c2" -> C2Config.cooldown [] family = "dns" -> DNSConfig.cooldown
    [] family = "exfil" -> ExfilConfig.cooldown [] OTHER -> EncryptedConfig.cooldown
LEMMA PauseType == \A family : Pause(family) \in Int
  BY CooldownsAssumption DEF Pause
LEMMA PauseOf == \A cool : CooldownOf(cool) = Pause(cool[1])
  BY DEF CooldownOf, Pause

(* Of alerts r and matches m: the two halves of CooldownsHonest.           *)
Heard(r, cool, ts) == \E a \in Range(r) : a.cool = cool /\ ts - a.end < Max({CooldownOf(cool), 1})
Apart(r) ==
  \A i, j \in 1..Len(r) : i < j /\ r[i].cool = r[j].cool => r[j].end - r[i].end >= CooldownOf(r[i].cool)
Alarms(r) == IsSeq(r) /\ \A a \in Range(r) : a.end \in Int
Honest(r, m) == Alarms(r) /\ Apart(r) /\ \A x \in m : Heard(r, x.cool, x.ts)

(* The map of a detector holds the end of the last alert of each key.      *)
Tracks(family, last, r) ==
  /\ \A k \in DOMAIN last : \E a \in Range(r) : a.cool = k /\ a.end = last[k]
  /\ \A a \in Range(r) : a.cool[1] = family => a.cool \in DOMAIN last /\ a.end <= last[a.cool]

LEMMA HonestGives == Honest(raised, matches) => CooldownsHonest
  BY SeqFacts DEF Honest, Apart, Alarms, Heard, CooldownsHonest

(* One alert, offered to a detector that tracks its alerts.                *)
LEMMA OfferedStep ==
  ASSUME NEW family, NEW last, NEW r, Alarms(r), Apart(r), Tracks(family, last, r),
         NEW a, a.cool[1] = family, a.end \in Int,
         Pause(family) >= 0 \/ \A x \in Range(r) : x.end <= a.end
  PROVE  IF CooledDown(last, a.cool, a.end, Pause(family))
         THEN /\ Alarms(Append(r, a)) /\ Apart(Append(r, a))
              /\ Tracks(family, Put(last, a.cool, a.end), Append(r, a))
              /\ Heard(Append(r, a), a.cool, a.end)
         ELSE Heard(r, a.cool, a.end)
  <1> DEFINE c == Pause(family)
             t == Append(r, a)
             n == Len(r)
  <1>1. c \in Int /\ CooldownOf(a.cool) = c
    BY PauseType, PauseOf
  <1>2. /\ IsSeq(t) /\ Range(t) = Range(r) \cup {a} /\ Len(t) = n + 1 /\ t[n + 1] = a
        /\ \A i \in 1..n : t[i] = r[i]
    BY AppendIsSeq DEF Alarms
  <1>3. n \in Nat /\ \A i \in 1..n : r[i] \in Range(r)
    BY SeqFacts DEF Alarms
  <1>4. Max({c, 1}) >= c /\ Max({c, 1}) >= 1 /\ Max({c, 1}) \in Int
    BY <1>1, MaxOfTwo
  <1>5. \A k \in DOMAIN last : last[k] \in Int
    BY DEF Tracks, Alarms
  <1> HIDE DEF c, t, n
  <1>6. ASSUME CooledDown(last, a.cool, a.end, c)
        PROVE  Alarms(t) /\ Apart(t) /\ Tracks(family, Put(last, a.cool, a.end), t) /\ Heard(t, a.cool, a.end)
    <2>1. \A x \in Range(r) : x.cool = a.cool => a.end - x.end >= c
      <3> SUFFICES ASSUME NEW x \in Range(r), x.cool = a.cool PROVE a.end - x.end >= c
        OBVIOUS
      <3>1. x.cool \in DOMAIN last /\ x.end <= last[x.cool] /\ x.end \in Int
        BY DEF Tracks, Alarms
      <3>2. a.end - last[a.cool] >= c
        BY <1>6, <3>1 DEF CooledDown
      <3> QED BY <1>1, <1>5, <3>1, <3>2
    <2>2. \A x \in Range(r) : x.cool = a.cool => x.end <= a.end
      <3>1. CASE c >= 0
        BY <1>1, <2>1, <3>1 DEF Alarms
      <3>2. CASE \A x \in Range(r) : x.end <= a.end
        BY <3>2
      <3> QED BY <3>1, <3>2 DEF c
    <2>3. Alarms(t)
      BY <1>2 DEF Alarms
    <2>4. Apart(t)
      <3> SUFFICES ASSUME NEW i \in 1..(n + 1), NEW j \in 1..(n + 1), i < j, t[i].cool = t[j].cool
                   PROVE  t[j].end - t[i].end >= CooldownOf(t[i].cool)
        BY <1>2 DEF Apart
      <3>1. i \in 1..n /\ t[i] = r[i] /\ (j \in 1..n \/ j = n + 1)
        BY <1>2, <1>3
      <3>2. CASE j \in 1..n
        BY <1>2, <3>1, <3>2 DEF Apart, n
      <3>3. CASE j = n + 1
        BY <1>1, <1>2, <1>3, <2>1, <3>1, <3>3
      <3> QED BY <3>1, <3>2, <3>3
    <2>5. Tracks(family, Put(last, a.cool, a.end), t)
      <3> DEFINE new == Put(last, a.cool, a.end)
      <3>1. /\ DOMAIN new = DOMAIN last \cup {a.cool} /\ new[a.cool] = a.end
            /\ \A k \in DOMAIN last : k # a.cool => new[k] = last[k]
        BY DEF Put
      <3> HIDE DEF new
      <3>2. \A k \in DOMAIN new : \E x \in Range(t) : x.cool = k /\ x.end = new[k]
        BY <1>2, <3>1 DEF Tracks
      <3>3. ASSUME NEW x \in Range(t), x.cool[1] = family
            PROVE  x.cool \in DOMAIN new /\ x.end <= new[x.cool]
        <4>1. CASE x.cool = a.cool
          BY <1>2, <2>2, <3>1, <4>1
        <4>2. CASE x.cool # a.cool
          BY <1>2, <3>1, <3>3, <4>2 DEF Tracks
        <4> QED BY <4>1, <4>2
      <3> QED BY <3>2, <3>3 DEF Tracks, new
    <2>6. Heard(t, a.cool, a.end)
      BY <1>1, <1>2, <1>4 DEF Heard
    <2> QED BY <2>3, <2>4, <2>5, <2>6
  <1>7. ASSUME ~CooledDown(last, a.cool, a.end, c)
        PROVE  Heard(r, a.cool, a.end)
    <2>1. a.cool \in DOMAIN last /\ ~(a.end - last[a.cool] >= c)
      BY <1>7 DEF CooledDown
    <2>2. PICK x \in Range(r) : x.cool = a.cool /\ x.end = last[a.cool]
      BY <2>1 DEF Tracks
    <2>3. a.end - x.end < Max({c, 1})
      BY <1>1, <1>4, <1>5, <2>1, <2>2
    <2> QED BY <1>1, <2>2, <2>3 DEF Heard
  <1> QED BY <1>6, <1>7 DEF c, t

(* All the alerts a detector finds at an event.                            *)
Sound(family, ts, found) ==
  /\ IsSeq(found)
  /\ \A x \in Range(found) : x.cool[1] = family /\ x.end = ts /\ {"cool", "end"} \subseteq DOMAIN x
RaisedFrom(family, last, r, ts, found) ==
  LET said == Spaced(last, found, Pause(family))
      all  == r \o said.alerts
  IN  /\ IsSeq(said.alerts) /\ Range(said.alerts) \subseteq Range(found)
      /\ Alarms(all) /\ Apart(all) /\ Tracks(family, said.last, all)
      /\ \A x \in Range(found) : Heard(all, x.cool, ts)
LEMMA RaisedNone ==
  ASSUME NEW family, NEW last, NEW r, Alarms(r), Apart(r), Tracks(family, last, r), NEW ts
  PROVE  RaisedFrom(family, last, r, ts, <<>>)
  <1> DEFINE said == Spaced(last, <<>>, Pause(family))
  <1>1. said.last = last /\ said.alerts = <<>>
    BY SpacedEmpty
  <1>2. r \o <<>> = r
    BY DEF Alarms, IsSeq
  <1> HIDE DEF said
  <1>3. r \o said.alerts = r
    BY <1>1, <1>2
  <1> QED BY <1>1, <1>3, EmptyIsSeq DEF RaisedFrom, said
LEMMA RaisedMore ==
  ASSUME NEW family, NEW last, NEW r, IsSeq(r), NEW ts \in Int, NEW p, IsSeq(p),
         \A x \in Range(p) : x.end = ts, RaisedFrom(family, last, r, ts, p),
         NEW a, a.cool[1] = family, a.end = ts,
         Pause(family) >= 0 \/ \A x \in Range(r) : x.end <= ts
  PROVE  RaisedFrom(family, last, r, ts, Append(p, a))
  <1> DEFINE c == Pause(family)
             q == Append(p, a)
             before == Spaced(last, p, c)
             after == Spaced(last, q, c)
             rb == r \o before.alerts
             ra == r \o after.alerts
  <1>1. /\ IsSeq(before.alerts) /\ Range(before.alerts) \subseteq Range(p)
        /\ Alarms(rb) /\ Apart(rb) /\ Tracks(family, before.last, rb)
        /\ \A x \in Range(p) : Heard(rb, x.cool, ts)
    BY DEF RaisedFrom
  <1>2. after = SpaceStep(c, before, a)
    BY SpacedAppend
  <1>3. Range(q) = Range(p) \cup {a}
    BY AppendIsSeq
  <1>4. c >= 0 \/ \A x \in Range(rb) : x.end <= a.end
    <2>1. Range(rb) = Range(r) \cup Range(before.alerts)
      BY <1>1, ConcatParts
    <2> HIDE DEF rb, before
    <2> QED BY <1>1, <2>1
  <1> HIDE DEF before, q, after
  <1>5. IF CooledDown(before.last, a.cool, a.end, c)
        THEN /\ Alarms(Append(rb, a)) /\ Apart(Append(rb, a))
             /\ Tracks(family, Put(before.last, a.cool, a.end), Append(rb, a))
             /\ Heard(Append(rb, a), a.cool, a.end)
        ELSE Heard(rb, a.cool, a.end)
    <2> HIDE DEF rb
    <2> QED BY <1>1, <1>4, OfferedStep
  <1>6. /\ IsSeq(after.alerts) /\ Range(after.alerts) \subseteq Range(q)
        /\ Alarms(ra) /\ Apart(ra) /\ Tracks(family, after.last, ra)
        /\ \A x \in Range(q) : Heard(ra, x.cool, ts)
    <2>1. CASE CooledDown(before.last, a.cool, a.end, c)
      <3>1. after.last = Put(before.last, a.cool, a.end) /\ after.alerts = Append(before.alerts, a)
        BY <1>2, <2>1 DEF SpaceStep
      <3>2. IsSeq(after.alerts) /\ Range(after.alerts) = Range(before.alerts) \cup {a}
        BY <1>1, <3>1, AppendIsSeq
      <3>3. ra = Append(rb, a)
        BY <1>1, <3>1, ConcatAppend
      <3> HIDE DEF ra, rb
      <3>4. Range(ra) = Range(rb) \cup {a}
        BY <1>1, <3>3, AppendIsSeq DEF Alarms
      <3>5. \A x \in Range(p) : Heard(ra, x.cool, ts)
        BY <1>1, <3>4 DEF Heard
      <3>6. Heard(ra, a.cool, ts)
        BY <1>5, <2>1, <3>3
      <3> QED BY <1>1, <1>3, <1>5, <2>1, <3>1, <3>2, <3>3, <3>5, <3>6
    <2>2. CASE ~CooledDown(before.last, a.cool, a.end, c)
      <3>1. after = before
        BY <1>2, <2>2 DEF SpaceStep
      <3>2. ra = rb
        BY <3>1
      <3> HIDE DEF ra, rb
      <3> QED BY <1>1, <1>3, <1>5, <2>2, <3>1, <3>2
    <2> QED BY <2>1, <2>2
  <1> QED BY <1>6 DEF RaisedFrom, after, q
LEMMA SpacedStep ==
  ASSUME NEW family, NEW last, NEW r, Alarms(r), Apart(r), Tracks(family, last, r),
         NEW ts \in Int, NEW found, Sound(family, ts, found),
         Pause(family) >= 0 \/ \A x \in Range(r) : x.end <= ts
  PROVE  RaisedFrom(family, last, r, ts, found)
  <1> DEFINE P(k) == SubSeq(found, 1, k)
             T == {k \in Nat : RaisedFrom(family, last, r, ts, P(k))}
  <1>1. IsSeq(found) /\ Len(found) \in Nat /\ P(Len(found)) = found /\ P(0) = <<>>
    BY SeqFacts, PrefixWhole DEF Sound
  <1>2. 0 \in T
    BY <1>1, RaisedNone
  <1>3. ASSUME NEW k \in 0..Len(found), k < Len(found), k \in T PROVE k + 1 \in T
    <2> DEFINE p == P(k)
               a == found[k + 1]
    <2>1. IsSeq(p) /\ P(k + 1) = Append(p, a) /\ k + 1 \in Nat
      BY <1>1, <1>3, PrefixExtends
    <2>2. \A i \in 1..Len(found) : found[i].cool[1] = family /\ found[i].end = ts
      BY SeqFacts DEF Sound
    <2>3. a.cool[1] = family /\ a.end = ts
      BY <1>1, <1>3, <2>2
    <2>4. \A x \in Range(p) : x.end = ts
      <3>1. Len(p) = k /\ k \in Nat /\ \A i \in 1..k : p[i] = found[i]
        BY <1>1, <1>3, PrefixExtends
      <3> HIDE DEF P, p
      <3>2. \A i \in 1..k : p[i].end = ts
        <4>1. \A i \in 1..k : i \in 1..Len(found)
          BY <1>1, <1>3
        <4> QED BY <2>2, <3>1, <4>1
      <3>3. \A x \in Range(p) : \E i \in 1..k : p[i] = x
        BY <2>1, <3>1, FoundAt
      <3> QED BY <3>2, <3>3
    <2>5. RaisedFrom(family, last, r, ts, p)
      BY <1>3
    <2> HIDE DEF p, a
    <2>6. RaisedFrom(family, last, r, ts, Append(p, a))
      BY <2>1, <2>3, <2>4, <2>5, RaisedMore DEF Alarms
    <2> QED BY <2>1, <2>6
  <1> HIDE DEF T
  <1>4. Len(found) \in T
    BY <1>1, <1>2, <1>3, PrefixInduction
  <1> QED BY <1>1, <1>4 DEF T

(* What each detector finds, and what it raises of it.                     *)
Fields(family) ==
  CASE family = "recon" -> {"contacts", "last"}
    [] family = "ddos" -> {"events", "reflection", "slow", "last"}
    [] family = "dns" -> {"model", "lexical", "failed", "queries", "last"}
    [] family = "exfil" -> {"windows", "baselines", "first", "last"}
    [] OTHER -> {"windows", "last"}
Speaks(family, ts, old, new, free) ==
  /\ Fields(family) \subseteq DOMAIN new.state
  /\ \E found :
       /\ Sound(family, ts, found)
       /\ new.state.last = Spaced(old.last, found, Pause(family)).last
       /\ new.alerts = Spaced(old.last, found, Pause(family)).alerts
       /\ free.alerts = Spaced(<<>>, found, Pause(family)).alerts

LEMMA Silence ==
  ASSUME NEW family, NEW old, Fields(family) \subseteq DOMAIN old, NEW ts, NEW new, NEW free,
         new.state = old, new.alerts = <<>>, free.alerts = <<>>
  PROVE  Speaks(family, ts, old, new, free)
  <1>1. Sound(family, ts, <<>>)
    BY EmptyIsSeq DEF Sound
  <1>2. \A last : Spaced(last, <<>>, Pause(family)).last = last /\ Spaced(last, <<>>, Pause(family)).alerts = <<>>
    BY SpacedEmpty
  <1> QED BY <1>1, <1>2 DEF Speaks
LEMMA FieldsOf ==
  /\ Fields("recon") = {"contacts", "last"} /\ Fields("ddos") = {"events", "reflection", "slow", "last"}
  /\ Fields("dns") = {"model", "lexical", "failed", "queries", "last"}
  /\ Fields("exfil") = {"windows", "baselines", "first", "last"}
  /\ Fields("c2") = {"windows", "last"} /\ Fields("encrypted") = {"windows", "last"}
  /\ \A family : "last" \in Fields(family)
  BY DEF Fields
LEMMA UncooledFields ==
  ASSUME NEW state, "last" \in DOMAIN state
  PROVE  /\ Uncooled(state).last = <<>>
         /\ \A x \in DOMAIN state : x # "last" => Uncooled(state)[x] = state[x]
  BY DEF Uncooled
LEMMA AlertIs ==
  ASSUME NEW type, NEW subtype, NEW id, NEW cool, NEW event, NEW dst, NEW start, NEW flows, NEW confidence
  PROVE  LET a == Alert(type, subtype, id, cool, event, dst, start, flows, confidence)
         IN  a.cool = cool /\ a.end = event.ts /\ {"cool", "end"} \subseteq DOMAIN a
  BY DEF Alert
LEMMA RuleIsSeq ==
  ASSUME NEW holds, NEW x
  PROVE  IsSeq(Rule(holds, x)) /\ Range(Rule(holds, x)) \subseteq {x}
  <1>1. IsSeq(<<x>>) /\ Range(<<x>>) = {x}
    <2>1. <<x>> \in Seq({x})
      OBVIOUS
    <2>2. DOMAIN <<x>> = {1} /\ <<x>>[1] = x
      OBVIOUS
    <2> QED BY <2>1, <2>2 DEF IsSeq, Range
  <1> QED BY <1>1, EmptyIsSeq DEF Rule
LEMMA RuleSound ==
  ASSUME NEW family, NEW ts, NEW holds, NEW a,
         a.cool[1] = family, a.end = ts, {"cool", "end"} \subseteq DOMAIN a
  PROVE  Sound(family, ts, Rule(holds, a))
  BY RuleIsSeq DEF Sound
LEMMA EachSound ==
  ASSUME NEW family, NEW ts, NEW hits, IsSeq(hits), NEW found, found = [i \in DOMAIN hits |-> found[i]],
         \A i \in DOMAIN hits : /\ found[i].cool[1] = family /\ found[i].end = ts
                                /\ {"cool", "end"} \subseteq DOMAIN found[i]
  PROVE  Sound(family, ts, found)
  <1>1. Len(hits) \in Nat /\ DOMAIN hits = 1..Len(hits)
    BY SeqFacts
  <1>2. found \in [1..Len(hits) -> Range(found)] /\ DOMAIN found = 1..Len(hits)
    BY <1>1 DEF Range
  <1>3. found \in Seq(Range(found))
    BY <1>1, <1>2
  <1>4. \A x \in Range(found) : \E i \in DOMAIN hits : x = found[i]
    BY <1>1, <1>2 DEF Range
  <1> QED BY <1>3, <1>4 DEF Sound, IsSeq

LEMMA ReconSpeaks ==
  ASSUME NEW state, Fields("recon") \subseteq DOMAIN state, NEW e
  PROVE  Speaks("recon", e.ts, state, ReconProcess(state, e), ReconProcess(Uncooled(state), e))
  <1> DEFINE c == Evicted(Append(At(state.contacts, e.src, <<>>), e), e.ts - ReconConfig.window)
             found == ScanAlerts(c, e)
             said(last) == Spaced(last, found, ReconConfig.cooldown)
             answer(s) == Answer([contacts |-> Put(state.contacts, e.src, c), last |-> said(s.last).last], said(s.last).alerts)
             free == Uncooled(state)
  <1>1. free.last = <<>> /\ free.contacts = state.contacts
    BY FieldsOf, UncooledFields
  <1> HIDE DEF free
  <1>2. CASE e.src \in AuthorizedSources
    <2>1. \A s : ReconProcess(s, e).state = s /\ ReconProcess(s, e).alerts = <<>>
      BY <1>2 DEF ReconProcess, Answer
    <2> QED BY <2>1, Silence
  <1>3. CASE e.src \notin AuthorizedSources
    <2>1. ReconProcess(state, e) = answer(state) /\ ReconProcess(free, e) = answer(free)
      BY <1>1, <1>3 DEF ReconProcess
    <2>2. Sound("recon", e.ts, found)
      <3> DEFINE scans == Scans(c)
      <3>1. IsSeq(scans)
        BY RuleIsSeq, ConcatIsSeq DEF Scans
      <3>2. found = [i \in DOMAIN scans |-> ReconAlert(c, scans[i], e)]
        BY DEF ScanAlerts
      <3> HIDE DEF scans, found, c
      <3>3. \A s : LET a == ReconAlert(c, s, e)
                   IN  a.cool[1] = "recon" /\ a.end = e.ts /\ {"cool", "end"} \subseteq DOMAIN a
        BY DEF ReconAlert, Alert
      <3> QED BY <3>1, <3>2, <3>3, EachSound
    <2>3. Pause("recon") = ReconConfig.cooldown
      BY DEF Pause
    <2> HIDE DEF c, found
    <2> QED BY <1>1, <2>1, <2>2, <2>3, FieldsOf DEF Speaks, Answer, free
  <1> QED BY <1>2, <1>3
LEMMA DDoSSpeaks ==
  ASSUME NEW state, Fields("ddos") \subseteq DOMAIN state, NEW e, NEW strict
  PROVE  Speaks("ddos", e.ts, state, DDoSProcess(state, e, strict), DDoSProcess(Uncooled(state), e, strict))
  <1> DEFINE events == Added(state.events, e.dst, e, DDoSConfig.window)
             web == e.protocol = "tcp" /\ e.service = "http"
             slow == IF web THEN Added(state.slow, e.dst, e, DDoSConfig.slowWindow) ELSE state.slow
             reflecting == e.protocol = "udp" /\ strict
             reflection == IF reflecting THEN Added(state.reflection, e.src, e, DDoSConfig.window)
                           ELSE state.reflection
             hits == IF e.protocol = "tcp"
                     THEN SynFlood(events[e.dst], e) \o (IF web THEN SlowHttp(slow[e.dst], e) ELSE <<>>)
                     ELSE UdpFlood(events[e.dst], e) \o
                          Reflection(IF strict THEN reflection[e.src] ELSE events[e.dst], e, strict)
             found == [i \in DOMAIN hits |-> DDoSAlert(hits[i], e)]
             said(last) == Spaced(last, found, DDoSConfig.cooldown)
             answer(s) == Answer([events |-> events, reflection |-> reflection, slow |-> slow,
                                  last |-> said(s.last).last], said(s.last).alerts)
             free == Uncooled(state)
  <1>1. /\ free.last = <<>> /\ free.events = state.events /\ free.slow = state.slow
        /\ free.reflection = state.reflection
    BY FieldsOf, UncooledFields
  <1> HIDE DEF free
  <1>2. CASE e.protocol \notin {"tcp", "udp"}
    <2>1. \A s : DDoSProcess(s, e, strict).state = s /\ DDoSProcess(s, e, strict).alerts = <<>>
      BY <1>2 DEF DDoSProcess, Answer
    <2> QED BY <2>1, Silence
  <1>3. CASE e.protocol \in {"tcp", "udp"}
    <2>1. DDoSProcess(state, e, strict) = answer(state)
      BY <1>3, Zenon DEF DDoSProcess
    <2>2. DDoSProcess(free, e, strict) = answer(free)
      BY <1>1, <1>3 DEF DDoSProcess
    <2>3. Sound("ddos", e.ts, found)
      <3>1. \A w : /\ IsSeq(SynFlood(w, e)) /\ IsSeq(SlowHttp(w, e))
                   /\ IsSeq(UdpFlood(w, e)) /\ IsSeq(Reflection(w, e, strict))
        <4>1. \A x : IsSeq(<<x>>)
          BY RuleIsSeq DEF Rule
        <4>2. \A subtype, target, relevant, confidence : IsSeq(Hit(subtype, target, relevant, confidence))
          BY <4>1 DEF Hit
        <4> QED BY <4>2, EmptyIsSeq DEF SynFlood, SlowHttp, UdpFlood, Reflection
      <3>2. IsSeq(hits)
        <4> HIDE DEF events, slow, reflection, web
        <4> QED BY <3>1, EmptyIsSeq, ConcatIsSeq
      <3>3. \A hit : LET a == DDoSAlert(hit, e)
                     IN  a.cool[1] = "ddos" /\ a.end = e.ts /\ {"cool", "end"} \subseteq DOMAIN a
        BY DEF DDoSAlert, Alert
      <3>4. found = [i \in DOMAIN hits |-> found[i]] /\ \A i \in DOMAIN hits : found[i] = DDoSAlert(hits[i], e)
        <4> HIDE DEF hits
        <4> QED OBVIOUS
      <3> HIDE DEF hits, found
      <3> QED BY <3>2, <3>3, <3>4, EachSound
    <2>4. Pause("ddos") = DDoSConfig.cooldown
      BY DEF Pause
    <2> HIDE DEF events, slow, reflection, found
    <2> QED BY <1>1, <2>1, <2>2, <2>3, <2>4, FieldsOf DEF Speaks, Answer, free
  <1> QED BY <1>2, <1>3
LEMMA C2Speaks ==
  ASSUME NEW state, Fields("c2") \subseteq DOMAIN state, NEW e, NEW met
  PROVE  Speaks("c2", e.ts, state, C2Process(state, e, met), C2Process(Uncooled(state), e, met))
  <1> DEFINE key == <<e.src, e.dst, e.dport, e.protocol>>
             windows == Added(state.windows, key, e, C2Config.window)
             alarm == C2Alert(windows[key], e, met)
             holds == e.dst \notin AllowedDestinations /\ Beacon(windows[key])
             found == Rule(holds, alarm)
             said(last) == Spaced(last, found, C2Config.cooldown)
             answer(s) == Answer([windows |-> windows, last |-> said(s.last).last], said(s.last).alerts)
             exempt == e.dport = 53 \/ e.service = "dns" \/ \E r \in TrustedPeriodic : RuleMatches(r, e)
             free == Uncooled(state)
  <1>1. free.last = <<>> /\ free.windows = state.windows
    BY FieldsOf, UncooledFields
  <1> HIDE DEF free
  <1>2. CASE exempt
    <2>1. \A s : C2Process(s, e, met).state = s /\ C2Process(s, e, met).alerts = <<>>
      BY <1>2 DEF C2Process, Answer
    <2> QED BY <2>1, Silence
  <1>3. CASE ~exempt
    <2>1. C2Process(state, e, met) = answer(state)
      BY <1>3, Zenon DEF C2Process
    <2>2. C2Process(free, e, met) = answer(free)
      BY <1>1, <1>3 DEF C2Process
    <2>3. Sound("c2", e.ts, found)
      <3>1. alarm.cool[1] = "c2" /\ alarm.end = e.ts /\ {"cool", "end"} \subseteq DOMAIN alarm
        <4> HIDE DEF windows
        <4> QED BY DEF C2Alert, Alert
      <3> HIDE DEF alarm, holds
      <3> QED BY <3>1, RuleSound
    <2>4. Pause("c2") = C2Config.cooldown
      BY DEF Pause
    <2> HIDE DEF windows, found
    <2> QED BY <1>1, <2>1, <2>2, <2>3, <2>4, FieldsOf DEF Speaks, Answer, free
  <1> QED BY <1>2, <1>3
LEMMA EncryptedSpeaks ==
  ASSUME NEW state, Fields("encrypted") \subseteq DOMAIN state, NEW e
  PROVE  Speaks("encrypted", e.ts, state, EncryptedProcess(state, e), EncryptedProcess(Uncooled(state), e))
  <1> DEFINE key == <<e.src, e.dst, e.fp>>
             windows == Added(state.windows, key, e, EncryptedConfig.window)
             alarm == EncryptedAlert(windows[key], e)
             holds == Suspicious(windows[key])
             found == Rule(holds, alarm)
             said(last) == Spaced(last, found, EncryptedConfig.cooldown)
             answer(s) == Answer([windows |-> windows, last |-> said(s.last).last], said(s.last).alerts)
             bare == e.features = None \/ e.fp = None
             free == Uncooled(state)
  <1>1. free.last = <<>> /\ free.windows = state.windows
    BY FieldsOf, UncooledFields
  <1> HIDE DEF free
  <1>2. CASE bare
    <2>1. \A s : EncryptedProcess(s, e).state = s /\ EncryptedProcess(s, e).alerts = <<>>
      BY <1>2 DEF EncryptedProcess, Answer
    <2> QED BY <2>1, Silence
  <1>3. CASE ~bare
    <2>1. EncryptedProcess(state, e) = answer(state)
      BY <1>3, Zenon DEF EncryptedProcess
    <2>2. EncryptedProcess(free, e) = answer(free)
      BY <1>1, <1>3 DEF EncryptedProcess
    <2>3. Sound("encrypted", e.ts, found)
      <3>1. alarm.cool[1] = "encrypted" /\ alarm.end = e.ts /\ {"cool", "end"} \subseteq DOMAIN alarm
        <4> HIDE DEF windows
        <4> QED BY DEF EncryptedAlert, Alert
      <3> HIDE DEF alarm, holds
      <3> QED BY <3>1, RuleSound
    <2>4. Pause("encrypted") = EncryptedConfig.cooldown
      BY DEF Pause
    <2> HIDE DEF windows, found
    <2> QED BY <1>1, <2>1, <2>2, <2>3, <2>4, FieldsOf DEF Speaks, Answer, free
  <1> QED BY <1>2, <1>3
LEMMA ExfilSpeaks ==
  ASSUME NEW state, Fields("exfil") \subseteq DOMAIN state, NEW e
  PROVE  Speaks("exfil", e.ts, state, ExfilProcess(state, e), ExfilProcess(Uncooled(state), e))
  <1> DEFINE key == <<e.src, e.dst>>
             baseline == At(state.baselines, e.src, <<>>)
             windows == Added(state.windows, key, e, ExfilConfig.window)
             found == IF Huge(e) THEN <<ExfilAlert(<<e>>, e)>>
                      ELSE Rule(/\ Len(windows[key]) >= ExfilConfig.minFlows
                                /\ Outlier(windows[key], DoubleMedian(baseline)),
                                ExfilAlert(windows[key], e))
             said(last) == Spaced(last, found, ExfilConfig.cooldown)
             answer(s) == Answer([windows |-> windows,
                                  baselines |-> Put(state.baselines, e.src, Remembered(baseline, e.outbound)),
                                  first |-> Put(state.first, key, At(state.first, key, e.ts)),
                                  last |-> said(s.last).last], said(s.last).alerts)
             approved == e.dst \in ApprovedBackup \/ \E r \in ApprovedBulk : RuleMatches(r, e)
             free == Uncooled(state)
  <1>1. /\ free.last = <<>> /\ free.windows = state.windows /\ free.baselines = state.baselines
        /\ free.first = state.first
    BY FieldsOf, UncooledFields
  <1> HIDE DEF free
  <1>2. CASE approved
    <2>1. \A s : ExfilProcess(s, e).state = s /\ ExfilProcess(s, e).alerts = <<>>
      BY <1>2 DEF ExfilProcess, Answer
    <2> QED BY <2>1, Silence
  <1>3. CASE ~approved
    <2>1. ExfilProcess(state, e) = answer(state)
      BY <1>3, Zenon DEF ExfilProcess
    <2>2. ExfilProcess(free, e) = answer(free)
      BY <1>1, <1>3 DEF ExfilProcess
    <2>3. Sound("exfil", e.ts, found)
      <3>1. \A w : LET a == ExfilAlert(w, e)
                   IN  a.cool[1] = "exfil" /\ a.end = e.ts /\ {"cool", "end"} \subseteq DOMAIN a
        BY DEF ExfilAlert, Alert
      <3>2. \E holds, w : found = Rule(holds, ExfilAlert(w, e))
        <4>1. CASE Huge(e)
          <5>1. found = Rule(TRUE, ExfilAlert(<<e>>, e))
            BY <4>1 DEF Rule
          <5> QED BY <5>1
        <4>2. CASE ~Huge(e)
          <5> HIDE DEF windows, baseline
          <5> QED BY <4>2
        <4> QED BY <4>1, <4>2
      <3> HIDE DEF found
      <3> QED BY <3>1, <3>2, RuleSound
    <2>4. Pause("exfil") = ExfilConfig.cooldown
      BY DEF Pause
    <2> HIDE DEF windows, found, baseline
    <2> QED BY <1>1, <2>1, <2>2, <2>3, <2>4, FieldsOf DEF Speaks, Answer, free
  <1> QED BY <1>2, <1>3
LEMMA DNSSpeaks ==
  ASSUME NEW state, Fields("dns") \subseteq DOMAIN state, NEW e
  PROVE  Speaks("dns", e.ts, state, DNSProcess(state, e), DNSProcess(Uncooled(state), e))
  <1> DEFINE span == DNSConfig.window
             model == IF WithOutcome(e) THEN Added(state.model, e.src, e, span) ELSE state.model
             lexical == IF Lexical(e) THEN Added(state.lexical, e.src, e, span) ELSE state.lexical
             failed == IF ~Allowed(e) THEN Added(state.failed, e.src, e, span) ELSE state.failed
             queries == Added(state.queries, <<e.src, e.root>>, e, span)
             dga == "dga_like_domain"
             findings ==
               Rule(WithOutcome(e) /\ ModelCampaign(model[e.src]),
                    Finding(dga, "model-correlated-campaign", model[e.src], ModelConfidence(model[e.src])))
               \o Rule(Positive(e) /\ ~WithOutcome(e), Finding(dga, e.input, <<e>>, Scored(e)))
               \o Rule(Lexical(e) /\ LexicalCampaign(lexical[e.src]),
                       Finding(dga, "lexical-campaign", lexical[e.src], LexicalConfidence))
               \o Rule(~Allowed(e) /\ FailedCampaign(failed[e.src]),
                       Finding(dga, "failed-domain-campaign", failed[e.src], FailedConfidence(failed[e.src])))
               \o Rule(~Allowed(e) /\ Tunnel(queries[<<e.src, e.root>>]),
                       Finding("dns_tunnelling", e.root, queries[<<e.src, e.root>>],
                            TunnelConfidence(queries[<<e.src, e.root>>])))
             found == [i \in DOMAIN findings |-> DNSAlert(findings[i], e)]
             said(last) == Spaced(last, found, DNSConfig.cooldown)
             answer(s) == Answer([model |-> model, lexical |-> lexical, failed |-> failed, queries |-> queries,
                                  last |-> said(s.last).last], said(s.last).alerts)
             free == Uncooled(state)
  <1>1. /\ free.last = <<>> /\ free.model = state.model /\ free.lexical = state.lexical
        /\ free.failed = state.failed /\ free.queries = state.queries
    BY FieldsOf, UncooledFields
  <1> HIDE DEF free
  <1>2. DNSProcess(state, e) = answer(state)
    BY Zenon DEF DNSProcess
  <1>3. DNSProcess(free, e) = answer(free)
    BY <1>1 DEF DNSProcess
  <1>4. Sound("dns", e.ts, found)
    <2>1. IsSeq(findings)
      <3> HIDE DEF model, lexical, failed, queries
      <3> QED BY RuleIsSeq, ConcatIsSeq
    <2>2. \A f : LET a == DNSAlert(f, e)
                 IN  a.cool[1] = "dns" /\ a.end = e.ts /\ {"cool", "end"} \subseteq DOMAIN a
      BY DEF DNSAlert, Alert
    <2>3. found = [i \in DOMAIN findings |-> found[i]] /\ \A i \in DOMAIN findings : found[i] = DNSAlert(findings[i], e)
      <3> HIDE DEF findings
      <3> QED OBVIOUS
    <2> HIDE DEF findings, found
    <2> QED BY <2>1, <2>2, <2>3, EachSound
  <1>5. Pause("dns") = DNSConfig.cooldown
    BY DEF Pause
  <1> HIDE DEF model, lexical, failed, queries, found
  <1> QED BY <1>1, <1>2, <1>3, <1>4, <1>5, FieldsOf DEF Speaks, Answer, free

(* What an event adds to the alerts and to the matches.                    *)
LEMMA SpacedWithin ==
  ASSUME NEW last, NEW c, NEW found, IsSeq(found)
  PROVE  IsSeq(Spaced(last, found, c).alerts) /\ Range(Spaced(last, found, c).alerts) \subseteq Range(found)
  <1> DEFINE P(k) == SubSeq(found, 1, k)
             said(k) == Spaced(last, P(k), c)
             T == {k \in Nat : IsSeq(said(k).alerts) /\ Range(said(k).alerts) \subseteq Range(found)}
  <1>1. /\ Len(found) \in Nat /\ P(Len(found)) = found /\ P(0) = <<>>
        /\ \A i \in 1..Len(found) : found[i] \in Range(found)
    BY SeqFacts, PrefixWhole
  <1>2. 0 \in T
    <2> HIDE DEF P
    <2>1. said(0) = [last |-> last, alerts |-> <<>>]
      BY <1>1, SpacedEmpty
    <2> QED BY <2>1, EmptyIsSeq
  <1>3. ASSUME NEW k \in 0..Len(found), k < Len(found), k \in T PROVE k + 1 \in T
    <2> DEFINE p == P(k)
               a == found[k + 1]
               before == said(k)
    <2>1. IsSeq(p) /\ P(k + 1) = Append(p, a) /\ k + 1 \in Nat /\ a \in Range(found)
      BY <1>1, <1>3, PrefixExtends
    <2>2. Spaced(last, Append(p, a), c) = SpaceStep(c, Spaced(last, p, c), a)
      <3> HIDE DEF p, a
      <3> QED BY <2>1, SpacedAppend
    <2>3. said(k + 1) = SpaceStep(c, before, a)
      BY <2>1, <2>2
    <2>4. IsSeq(before.alerts) /\ Range(before.alerts) \subseteq Range(found)
      BY <1>3
    <2> HIDE DEF before, a, p
    <2> DEFINE after == said(k + 1)
    <2> HIDE DEF said
    <2>5. after.alerts = before.alerts \/ after.alerts = Append(before.alerts, a)
      BY <2>3 DEF SpaceStep
    <2> HIDE DEF after
    <2>6. IsSeq(after.alerts) /\ Range(after.alerts) \subseteq Range(found)
      <3> DEFINE b == before.alerts
      <3> HIDE DEF b
      <3>1. IsSeq(Append(b, a)) /\ Range(Append(b, a)) = Range(b) \cup {a}
        BY <2>4, AppendIsSeq DEF b
      <3>2. CASE after.alerts = Append(b, a)
        BY <2>1, <2>4, <3>1, <3>2 DEF b
      <3> QED BY <2>4, <2>5, <3>2 DEF b
    <2> QED BY <2>1, <2>6 DEF said, after
  <1> HIDE DEF T
  <1>4. Len(found) \in T
    BY <1>1, <1>2, <1>3, PrefixInduction
  <1> QED BY <1>1, <1>4 DEF T

Ordered(r, ts) == \A x \in Range(r) : x.end <= ts
(* A detector that is off, or has nothing to say of an event.              *)
Quiet(old, new, free) == new.state = old /\ new.alerts = <<>> /\ free.alerts = <<>>
Matches(found) == {[cool |-> a.cool, ts |-> a.end] : a \in Range(found)}
Remembers(family, state, r) == Fields(family) \subseteq DOMAIN state /\ Tracks(family, state.last, r)
(* The alerts grow from r to s: those of other families are as they were.  *)
Grew(family, ts, r, s) ==
  /\ \A other, last : other # family /\ Tracks(other, last, r) => Tracks(other, last, s)
  /\ \A x \in Range(s) : x \in Range(r) \/ x.end = ts
(* Every alert has a key and an end, which naming it will not touch.       *)
Whole(new, free) ==
  /\ IsSeq(new.alerts) /\ IsSeq(free.alerts)
  /\ \A x \in Range(new.alerts) : {"cool", "end"} \subseteq DOMAIN x

LEMMA SpeakStep ==
  ASSUME NEW family, NEW ts \in Int, NEW old, NEW new, NEW free, Speaks(family, ts, old, new, free),
         NEW r, NEW m, Honest(r, m), Remembers(family, old, r),
         Quiet(old, new, free) \/ Pause(family) >= 0 \/ Ordered(r, ts)
  PROVE  /\ Honest(r \o new.alerts, m \cup Matches(free.alerts))
         /\ Remembers(family, new.state, r \o new.alerts)
         /\ Grew(family, ts, r, r \o new.alerts)
         /\ Whole(new, free)
  <1> DEFINE s == r \o new.alerts
  <1>1. PICK found : /\ Sound(family, ts, found)
                     /\ new.state.last = Spaced(old.last, found, Pause(family)).last
                     /\ new.alerts = Spaced(old.last, found, Pause(family)).alerts
                     /\ free.alerts = Spaced(<<>>, found, Pause(family)).alerts
    BY DEF Speaks
  <1>2. /\ IsSeq(found) /\ \A x \in Range(found) : x.cool[1] = family /\ x.end = ts /\ {"cool", "end"} \subseteq DOMAIN x
        /\ IsSeq(r) /\ Fields(family) \subseteq DOMAIN new.state
    BY <1>1 DEF Sound, Honest, Alarms, Speaks
  <1>3. /\ IsSeq(new.alerts) /\ Range(new.alerts) \subseteq Range(found)
        /\ IsSeq(free.alerts) /\ Range(free.alerts) \subseteq Range(found)
    BY <1>1, <1>2, SpacedWithin
  <1>4. Range(s) = Range(r) \cup Range(new.alerts)
    BY <1>2, <1>3, ConcatParts
  <1>5. /\ Alarms(s) /\ Apart(s) /\ Tracks(family, new.state.last, s)
        /\ \A x \in Range(free.alerts) : Heard(s, x.cool, ts)
    <2>1. CASE Quiet(old, new, free)
      <3>1. s = r /\ Range(free.alerts) = {}
        BY <1>2, <2>1, EmptyIsSeq DEF Quiet, IsSeq
      <3> HIDE DEF s
      <3> QED BY <2>1, <3>1 DEF Quiet, Honest, Remembers
    <2>2. CASE Pause(family) >= 0 \/ Ordered(r, ts)
      <3>1. RaisedFrom(family, old.last, r, ts, found)
        BY <1>1, <2>2, SpacedStep DEF Honest, Remembers, Ordered
      <3>2. /\ Alarms(s) /\ Apart(s) /\ Tracks(family, new.state.last, s)
            /\ \A x \in Range(found) : Heard(s, x.cool, ts)
        BY <1>1, <3>1 DEF RaisedFrom
      <3> QED BY <1>3, <3>2
    <2> QED BY <2>1, <2>2
  <1> HIDE DEF s
  <1>6. Honest(s, m \cup Matches(free.alerts))
    <2>1. \A x \in m : Heard(s, x.cool, x.ts)
      BY <1>4 DEF Honest, Heard
    <2>2. \A x \in Matches(free.alerts) : Heard(s, x.cool, x.ts)
      <3> TAKE x \in Matches(free.alerts)
      <3>1. PICK a \in Range(free.alerts) : x = [cool |-> a.cool, ts |-> a.end]
        BY DEF Matches
      <3>2. x.cool = a.cool /\ x.ts = ts
        BY <1>2, <1>3, <3>1
      <3> QED BY <1>5, <3>2
    <2> QED BY <1>5, <2>1, <2>2 DEF Honest
  <1>7. Grew(family, ts, r, s)
    <2>1. ASSUME NEW other, NEW last, other # family, Tracks(other, last, r) PROVE Tracks(other, last, s)
      BY <1>2, <1>3, <1>4, <2>1 DEF Tracks
    <2>2. \A x \in Range(s) : x \in Range(r) \/ x.end = ts
      BY <1>2, <1>3, <1>4
    <2> QED BY <2>1, <2>2 DEF Grew
  <1> QED BY <1>2, <1>3, <1>5, <1>6, <1>7 DEF Remembers, Whole, s

(* Naming the look-ups behind an alert changes neither its key nor its end.*)
Alike(r, s) ==
  /\ IsSeq(r) /\ IsSeq(s) /\ Len(r) = Len(s)
  /\ \A i \in 1..Len(r) : s[i].cool = r[i].cool /\ s[i].end = r[i].end
LEMMA SameKeeps ==
  ASSUME NEW r, NEW s, Alike(r, s)
  PROVE  /\ \A m : Honest(r, m) => Honest(s, m)
         /\ \A family, state : Remembers(family, state, r) => Remembers(family, state, s)
         /\ \A ts : Ordered(r, ts) => Ordered(s, ts)
  <1>1. \A x \in Range(s) : \E y \in Range(r) : y.cool = x.cool /\ y.end = x.end
    BY SeqFacts, FoundAt DEF Alike
  <1>2. \A y \in Range(r) : \E x \in Range(s) : y.cool = x.cool /\ y.end = x.end
    BY SeqFacts, FoundAt DEF Alike
  <1>3. ASSUME NEW m, Honest(r, m) PROVE Honest(s, m)
    <2>1. Alarms(s)
      BY <1>1, <1>3 DEF Honest, Alarms, Alike
    <2>2. Apart(s)
      BY <1>3 DEF Honest, Apart, Alike
    <2>3. \A cool, ts : Heard(r, cool, ts) => Heard(s, cool, ts)
      BY <1>2 DEF Heard
    <2> QED BY <1>3, <2>1, <2>2, <2>3 DEF Honest
  <1>4. ASSUME NEW family, NEW last, Tracks(family, last, r) PROVE Tracks(family, last, s)
    <2>1. \A k \in DOMAIN last : \E a \in Range(s) : a.cool = k /\ a.end = last[k]
      BY <1>2, <1>4 DEF Tracks
    <2>2. \A a \in Range(s) : a.cool[1] = family => a.cool \in DOMAIN last /\ a.end <= last[a.cool]
      BY <1>1, <1>4 DEF Tracks
    <2> QED BY <2>1, <2>2 DEF Tracks
  <1>5. \A ts : Ordered(r, ts) => Ordered(s, ts)
    BY <1>1 DEF Ordered
  <1> QED BY <1>3, <1>4, <1>5 DEF Remembers
LEMMA NamesKeep ==
  ASSUME NEW r, IsSeq(r), NEW found, IsSeq(found), NEW e,
         \A x \in Range(found) : {"cool", "end"} \subseteq DOMAIN x
  PROVE  Alike(r \o found, r \o WithNames(found, e))
  <1> DEFINE named == WithNames(found, e)
             n == Len(found)
             k == Len(r)
  <1>1. n \in Nat /\ DOMAIN found = 1..n /\ \A i \in 1..n : found[i] \in Range(found)
    BY SeqFacts
  <1>2. named = [i \in 1..n |-> [found[i] EXCEPT !.names = Named(e)]]
    BY <1>1 DEF WithNames
  <1> HIDE DEF named, n
  <1>3. IsSeq(named) /\ Len(named) = n
    <2>1. named \in [1..n -> Range(named)] /\ DOMAIN named = 1..n
      BY <1>2 DEF Range
    <2>2. named \in Seq(Range(named)) /\ Len(named) = n
      BY <1>1, <2>1
    <2> QED BY <2>2 DEF IsSeq
  <1>4. \A i \in 1..n : named[i].cool = found[i].cool /\ named[i].end = found[i].end
    <2> TAKE i \in 1..n
    <2>1. {"cool", "end"} \subseteq DOMAIN found[i]
      BY <1>1
    <2> DEFINE x == found[i]
               y == [x EXCEPT !.names = Named(e)]
    <2>2. {"cool", "end"} \subseteq DOMAIN x /\ named[i] = y
      BY <1>2, <2>1
    <2> HIDE DEF x
    <2>3. y.cool = x.cool /\ y.end = x.end
      BY <2>2
    <2> QED BY <2>2, <2>3 DEF x
  <1> DEFINE a == r \o found
             b == r \o named
  <1>5. /\ IsSeq(a) /\ Len(a) = k + n /\ k \in Nat
        /\ \A i \in 1..(k + n) : a[i] = IF i <= k THEN r[i] ELSE found[i - k]
    BY ConcatParts DEF n
  <1>6. /\ IsSeq(b) /\ Len(b) = k + n
        /\ \A i \in 1..(k + n) : b[i] = IF i <= k THEN r[i] ELSE named[i - k]
    BY <1>3, ConcatParts
  <1> HIDE DEF a, b, k
  <1>7. \A i \in 1..(k + n) : b[i].cool = a[i].cool /\ b[i].end = a[i].end
    <2> TAKE i \in 1..(k + n)
    <2>1. CASE i <= k
      BY <1>5, <1>6, <2>1
    <2>2. CASE ~(i <= k)
      <3>1. i - k \in 1..n
        BY <1>1, <1>5, <2>2
      <3> QED BY <1>4, <1>5, <1>6, <2>2, <3>1
    <2> QED BY <2>1, <2>2
  <1> QED BY <1>5, <1>6, <1>7 DEF Alike, a, b, named

(* The connection detectors one after the other.                           *)
Seen(e) == {m \in FreshMetadata(e) : m \in Between(e)}
States == [recon |-> recon, ddos |-> ddos, c2 |-> c2, exfil |-> exfil]
Said(e) == Connection(States, e, Seen(e))
Free(e) == Connection([d \in DOMAIN States |-> Uncooled(States[d])], e, Seen(e))
HaveFields ==
  /\ Fields("recon") \subseteq DOMAIN recon /\ Fields("ddos") \subseteq DOMAIN ddos
  /\ Fields("c2") \subseteq DOMAIN c2 /\ Fields("dns") \subseteq DOMAIN dns
  /\ Fields("exfil") \subseteq DOMAIN exfil /\ Fields("encrypted") \subseteq DOMAIN encrypted

LEMMA ConnectionRecords ==
  ASSUME NEW e, ProcessConnection(e)
  PROVE  /\ recon' = Said(e).recon.state /\ ddos' = Said(e).ddos.state
         /\ c2' = Said(e).c2.state /\ exfil' = Said(e).exfil.state
         /\ UNCHANGED <<profile, dns, encrypted>> /\ latest' = e.ts
         /\ raised' = raised \o WithNames(Raised(Said(e)), e)
         /\ matches' = matches \cup Matches(Raised(Free(e)))
  <1>1. /\ recon' = Said(e).recon.state /\ ddos' = Said(e).ddos.state
        /\ c2' = Said(e).c2.state /\ exfil' = Said(e).exfil.state
        /\ Records(e, WithNames(Raised(Said(e)), e), Raised(Free(e)))
        /\ UNCHANGED <<context, dns, features, encrypted>>
    BY Zenon DEF ProcessConnection, Said, Free, States, Seen
  <1>2. \A found, free : Records(e, found, free) =>
          /\ latest' = e.ts /\ profile' = profile /\ raised' = raised \o found
          /\ matches' = matches \cup Matches(free)
    BY DEF Records, Matches
  <1> QED BY <1>1, <1>2
LEMMA ViewTime ==
  ASSUME NEW scope, NEW e, EventSound(e), View(scope, e) # None
  PROVE  View(scope, e).ts = e.ts
  <1>1. Swapped(e).ts = e.ts
    BY DEF Swapped, EventSound
  <1>2. View(scope, e) = e \/ View(scope, e) = Swapped(e)
    <2> HIDE DEF Direction, Swapped
    <2> QED BY DEF View
  <1> QED BY <1>1, <1>2
LEMMA ConnectionSpeaks ==
  ASSUME NEW e, EventSound(e), HaveFields
  PROVE  /\ Speaks("recon", e.ts, recon, Said(e).recon, Free(e).recon)
         /\ Speaks("ddos", e.ts, ddos, Said(e).ddos, Free(e).ddos)
         /\ Speaks("c2", e.ts, c2, Said(e).c2, Free(e).c2)
         /\ Speaks("exfil", e.ts, exfil, Said(e).exfil, Free(e).exfil)
         /\ On("recon") \/ Quiet(recon, Said(e).recon, Free(e).recon)
         /\ On("ddos") \/ Quiet(ddos, Said(e).ddos, Free(e).ddos)
         /\ On("c2") \/ Quiet(c2, Said(e).c2, Free(e).c2)
  <1> DEFINE s == States
             u == [d \in DOMAIN States |-> Uncooled(States[d])]
             met == Seen(e)
             v == View(Setup, e)
  <1>1. s.recon = recon /\ s.ddos = ddos /\ s.c2 = c2 /\ s.exfil = exfil
    BY DEF States
  <1>2. /\ u.recon = Uncooled(recon) /\ u.ddos = Uncooled(ddos)
        /\ u.c2 = Uncooled(c2) /\ u.exfil = Uncooled(exfil)
    <2>1. DOMAIN States = {"recon", "ddos", "c2", "exfil"}
      BY DEF States
    <2> QED BY <1>1, <2>1
  <1> HIDE DEF s, u, met, v
  <1>3. \A x : /\ Connection(x, e, met).recon = IF On("recon") THEN ReconProcess(x.recon, e) ELSE Answer(x.recon, <<>>)
               /\ Connection(x, e, met).ddos = IF On("ddos") THEN DDoSProcess(x.ddos, e, Setup.strict) ELSE Answer(x.ddos, <<>>)
               /\ Connection(x, e, met).c2 = IF On("c2") THEN C2Process(x.c2, e, met) ELSE Answer(x.c2, <<>>)
               /\ Connection(x, e, met).exfil = IF On("exfiltration") /\ v # None THEN ExfilProcess(x.exfil, v)
                                                ELSE Answer(x.exfil, <<>>)
    BY DEF Connection, v
  <1>4. Said(e) = Connection(s, e, met) /\ Free(e) = Connection(u, e, met)
    BY DEF Said, Free, s, u, met
  <1>5. \A old, new : Answer(old, <<>>).state = old /\ Quiet(old, Answer(old, <<>>), Answer(new, <<>>))
    BY DEF Answer, Quiet
  <1>6. \A family, old, new : Fields(family) \subseteq DOMAIN old
          => Speaks(family, e.ts, old, Answer(old, <<>>), Answer(new, <<>>))
    <2>1. \A old : Answer(old, <<>>).state = old /\ Answer(old, <<>>).alerts = <<>>
      BY DEF Answer
    <2> QED BY <2>1, Silence
  <1>7. /\ Speaks("recon", e.ts, recon, Said(e).recon, Free(e).recon)
        /\ On("recon") \/ Quiet(recon, Said(e).recon, Free(e).recon)
    <2>1. CASE On("recon")
      <3>1. Said(e).recon = ReconProcess(recon, e) /\ Free(e).recon = ReconProcess(Uncooled(recon), e)
        BY <1>1, <1>2, <1>3, <1>4, <2>1
      <3> QED BY <2>1, <3>1, ReconSpeaks DEF HaveFields
    <2>2. CASE ~On("recon")
      <3>1. Said(e).recon = Answer(recon, <<>>) /\ Free(e).recon = Answer(Uncooled(recon), <<>>)
        BY <1>1, <1>2, <1>3, <1>4, <2>2
      <3> QED BY <1>5, <1>6, <3>1 DEF HaveFields
    <2> QED BY <2>1, <2>2
  <1>8. /\ Speaks("ddos", e.ts, ddos, Said(e).ddos, Free(e).ddos)
        /\ On("ddos") \/ Quiet(ddos, Said(e).ddos, Free(e).ddos)
    <2>1. CASE On("ddos")
      <3>1. Said(e).ddos = DDoSProcess(ddos, e, Setup.strict) /\ Free(e).ddos = DDoSProcess(Uncooled(ddos), e, Setup.strict)
        BY <1>1, <1>2, <1>3, <1>4, <2>1
      <3> QED BY <2>1, <3>1, DDoSSpeaks DEF HaveFields
    <2>2. CASE ~On("ddos")
      <3>1. Said(e).ddos = Answer(ddos, <<>>) /\ Free(e).ddos = Answer(Uncooled(ddos), <<>>)
        BY <1>1, <1>2, <1>3, <1>4, <2>2
      <3> QED BY <1>5, <1>6, <3>1 DEF HaveFields
    <2> QED BY <2>1, <2>2
  <1>9. /\ Speaks("c2", e.ts, c2, Said(e).c2, Free(e).c2)
        /\ On("c2") \/ Quiet(c2, Said(e).c2, Free(e).c2)
    <2>1. CASE On("c2")
      <3>1. Said(e).c2 = C2Process(c2, e, met) /\ Free(e).c2 = C2Process(Uncooled(c2), e, met)
        BY <1>1, <1>2, <1>3, <1>4, <2>1
      <3> QED BY <2>1, <3>1, C2Speaks DEF HaveFields
    <2>2. CASE ~On("c2")
      <3>1. Said(e).c2 = Answer(c2, <<>>) /\ Free(e).c2 = Answer(Uncooled(c2), <<>>)
        BY <1>1, <1>2, <1>3, <1>4, <2>2
      <3> QED BY <1>5, <1>6, <3>1 DEF HaveFields
    <2> QED BY <2>1, <2>2
  <1>10. Speaks("exfil", e.ts, exfil, Said(e).exfil, Free(e).exfil)
    <2>1. CASE On("exfiltration") /\ v # None
      <3>1. Said(e).exfil = ExfilProcess(exfil, v) /\ Free(e).exfil = ExfilProcess(Uncooled(exfil), v)
        BY <1>1, <1>2, <1>3, <1>4, <2>1
      <3>2. v.ts = e.ts
        BY <2>1, ViewTime DEF v
      <3>3. Speaks("exfil", v.ts, exfil, ExfilProcess(exfil, v), ExfilProcess(Uncooled(exfil), v))
        BY ExfilSpeaks DEF HaveFields
      <3> QED BY <3>1, <3>2, <3>3
    <2>2. CASE ~(On("exfiltration") /\ v # None)
      <3>1. Said(e).exfil = Answer(exfil, <<>>) /\ Free(e).exfil = Answer(Uncooled(exfil), <<>>)
        BY <1>1, <1>2, <1>3, <1>4, <2>2
      <3> QED BY <1>6, <3>1 DEF HaveFields
    <2> QED BY <2>1, <2>2
  <1> QED BY <1>7, <1>8, <1>9, <1>10
(* Four detectors' alerts put after those there are.                       *)
OneAfterOther(r, a, b, c, d) ==
  LET all == a \o b \o c \o d
  IN  /\ IsSeq(all) /\ Range(all) = Range(a) \cup Range(b) \cup Range(c) \cup Range(d)
      /\ r \o all = (((r \o a) \o b) \o c) \o d
LEMMA ConcatFour ==
  ASSUME NEW r, IsSeq(r), NEW a, IsSeq(a), NEW b, IsSeq(b), NEW c, IsSeq(c), NEW d, IsSeq(d)
  PROVE  OneAfterOther(r, a, b, c, d)
  <1> DEFINE x == a \o b
             y == x \o c
             z == y \o d
  <1>1. x = a \o b /\ y = x \o c /\ z = y \o d
    OBVIOUS
  <1>2. OneAfterOther(r, a, b, c, d) <=>
          /\ IsSeq(z) /\ Range(z) = Range(a) \cup Range(b) \cup Range(c) \cup Range(d)
          /\ r \o z = (((r \o a) \o b) \o c) \o d
    BY Zenon DEF OneAfterOther
  <1> HIDE DEF x, y, z
  <1>3. IsSeq(x) /\ Range(x) = Range(a) \cup Range(b)
    BY <1>1, ConcatRange, Zenon
  <1>4. IsSeq(y) /\ Range(y) = Range(x) \cup Range(c)
    BY <1>1, <1>3, ConcatRange, Zenon
  <1>5. IsSeq(z) /\ Range(z) = Range(y) \cup Range(d)
    BY <1>1, <1>4, ConcatRange, Zenon
  <1>6. r \o x = (r \o a) \o b
    BY <1>1, ConcatMoved, SMTT(30)
  <1>7. r \o y = (r \o x) \o c
    BY <1>1, <1>3, ConcatMoved, SMTT(30)
  <1>8. r \o z = (r \o y) \o d
    BY <1>1, <1>4, ConcatMoved, SMTT(30)
  <1>9. r \o z = (((r \o a) \o b) \o c) \o d
    BY <1>6, <1>7, <1>8, Zenon
  <1> QED BY <1>2, <1>3, <1>4, <1>5, <1>9
LEMMA GrewKeeps ==
  ASSUME NEW family, NEW ts \in Int, NEW r, NEW s, Grew(family, ts, r, s)
  PROVE  /\ \A other, state : other # family /\ Remembers(other, state, r) => Remembers(other, state, s)
         /\ Ordered(r, ts) => Ordered(s, ts)
  BY DEF Grew, Remembers, Ordered

(* The alerts are honest and every detector remembers its own; but for the *)
(* kept state of the command line, they are in order of time.              *)
AllRemember(r) ==
  /\ Remembers("recon", recon, r) /\ Remembers("ddos", ddos, r) /\ Remembers("c2", c2, r)
  /\ Remembers("dns", dns, r) /\ Remembers("exfil", exfil, r) /\ Remembers("encrypted", encrypted, r)
InTime ==
  Setup.enabled # {"exfiltration"} => IF latest = None THEN raised = <<>> ELSE Ordered(raised, latest)
HonestInv == Honest(raised, matches) /\ AllRemember(raised) /\ InTime

LEMMA HonestInit == Init => HonestInv
  <1> SUFFICES ASSUME Init PROVE HonestInv
    OBVIOUS
  <1>1. /\ raised = <<>> /\ matches = {} /\ latest = None
        /\ recon = ReconFresh /\ ddos = DDoSFresh /\ c2 = C2Fresh /\ dns = DNSFresh
        /\ exfil = ExfilFresh /\ encrypted = EncryptedFresh
    BY DEF Init
  <1>2. Honest(<<>>, {})
    BY EmptyIsSeq DEF Honest, Alarms, Apart
  <1>3. \A family : Tracks(family, <<>>, <<>>)
    BY EmptyIsSeq DEF Tracks
  <1>4. AllRemember(raised)
    BY <1>1, <1>3, FieldsOf
       DEF AllRemember, Remembers, ReconFresh, DDoSFresh, C2Fresh, DNSFresh, ExfilFresh, EncryptedFresh
  <1> QED BY <1>1, <1>2, <1>4 DEF HonestInv, InTime

LEMMA ArrivesInTime ==
  ASSUME TimeInv, InTime, NEW e, e.ts \in Int, Accepts(e), Setup.enabled # {"exfiltration"}
  PROVE  Honest(raised, matches) => Ordered(raised, e.ts)
  <1> SUFFICES ASSUME Honest(raised, matches) PROVE Ordered(raised, e.ts)
    OBVIOUS
  <1>1. CASE latest = None
    BY <1>1, EmptyIsSeq DEF InTime, Ordered
  <1>2. CASE latest # None
    BY <1>2 DEF InTime, Ordered, TimeInv, Accepts, Honest, Alarms
  <1> QED BY <1>1, <1>2

LEMMA ConnectionHonest ==
  ASSUME TimeInv, HonestInv, ExfilConfig.cooldown >= 0, NEW e, EventSound(e), ProcessConnection(e)
  PROVE  HonestInv'
  <1> DEFINE ts == e.ts
             on == Setup.enabled
             r1 == raised \o Said(e).recon.alerts
             r2 == r1 \o Said(e).ddos.alerts
             r3 == r2 \o Said(e).c2.alerts
             r4 == r3 \o Said(e).exfil.alerts
             m1 == matches \cup Matches(Free(e).recon.alerts)
             m2 == m1 \cup Matches(Free(e).ddos.alerts)
             m3 == m2 \cup Matches(Free(e).c2.alerts)
             m4 == m3 \cup Matches(Free(e).exfil.alerts)
  <1>1. /\ Honest(raised, matches) /\ AllRemember(raised) /\ ts \in Int /\ Accepts(e) /\ HaveFields
        /\ on # {"exfiltration"} => Ordered(raised, ts)
    <2>1. Accepts(e) /\ ts \in Int
      BY DEF ProcessConnection, EventSound
    <2>2. on # {"exfiltration"} => Ordered(raised, ts)
      BY <2>1, ArrivesInTime DEF HonestInv
    <2> QED BY <2>1, <2>2 DEF HonestInv, AllRemember, Remembers, HaveFields
  <1>2. /\ recon' = Said(e).recon.state /\ ddos' = Said(e).ddos.state
        /\ c2' = Said(e).c2.state /\ exfil' = Said(e).exfil.state
        /\ UNCHANGED <<profile, dns, encrypted>> /\ latest' = ts
        /\ raised' = raised \o WithNames(Raised(Said(e)), e)
        /\ matches' = matches \cup Matches(Raised(Free(e)))
    BY ConnectionRecords
  <1>3. /\ Speaks("recon", ts, recon, Said(e).recon, Free(e).recon)
        /\ Speaks("ddos", ts, ddos, Said(e).ddos, Free(e).ddos)
        /\ Speaks("c2", ts, c2, Said(e).c2, Free(e).c2)
        /\ Speaks("exfil", ts, exfil, Said(e).exfil, Free(e).exfil)
        /\ on = {"exfiltration"} => /\ Quiet(recon, Said(e).recon, Free(e).recon)
                                    /\ Quiet(ddos, Said(e).ddos, Free(e).ddos)
                                    /\ Quiet(c2, Said(e).c2, Free(e).c2)
    BY <1>1, ConnectionSpeaks DEF On
  <1>4. Pause("exfil") >= 0
    BY DEF Pause
  <1> HIDE DEF ts, on
  <1>5. /\ Honest(r1, m1) /\ Remembers("recon", recon', r1) /\ Whole(Said(e).recon, Free(e).recon)
        /\ Remembers("ddos", ddos, r1) /\ Remembers("c2", c2, r1) /\ Remembers("dns", dns, r1)
        /\ Remembers("exfil", exfil, r1) /\ Remembers("encrypted", encrypted, r1)
        /\ on # {"exfiltration"} => Ordered(r1, ts)
    <2>1. /\ Honest(r1, m1) /\ Remembers("recon", Said(e).recon.state, r1)
          /\ Grew("recon", ts, raised, r1) /\ Whole(Said(e).recon, Free(e).recon)
      BY <1>1, <1>3, SpeakStep DEF AllRemember
    <2> HIDE DEF r1, m1
    <2>2. /\ \A other, state : other # "recon" /\ Remembers(other, state, raised) => Remembers(other, state, r1)
          /\ Ordered(raised, ts) => Ordered(r1, ts)
      BY <1>1, <2>1, GrewKeeps
    <2> QED BY <1>1, <1>2, <2>1, <2>2 DEF AllRemember
  <1> HIDE DEF r1, m1
  <1>6. /\ Honest(r2, m2) /\ Remembers("ddos", ddos', r2) /\ Whole(Said(e).ddos, Free(e).ddos)
        /\ Remembers("recon", recon', r2) /\ Remembers("c2", c2, r2) /\ Remembers("dns", dns, r2)
        /\ Remembers("exfil", exfil, r2) /\ Remembers("encrypted", encrypted, r2)
        /\ on # {"exfiltration"} => Ordered(r2, ts)
    <2>1. /\ Honest(r2, m2) /\ Remembers("ddos", Said(e).ddos.state, r2)
          /\ Grew("ddos", ts, r1, r2) /\ Whole(Said(e).ddos, Free(e).ddos)
      BY <1>1, <1>3, <1>5, SpeakStep
    <2> HIDE DEF r2, m2
    <2>2. /\ \A other, state : other # "ddos" /\ Remembers(other, state, r1) => Remembers(other, state, r2)
          /\ Ordered(r1, ts) => Ordered(r2, ts)
      BY <1>1, <2>1, GrewKeeps
    <2> QED BY <1>2, <1>5, <2>1, <2>2
  <1> HIDE DEF r2, m2
  <1>7. /\ Honest(r3, m3) /\ Remembers("c2", c2', r3) /\ Whole(Said(e).c2, Free(e).c2)
        /\ Remembers("recon", recon', r3) /\ Remembers("ddos", ddos', r3) /\ Remembers("dns", dns, r3)
        /\ Remembers("exfil", exfil, r3) /\ Remembers("encrypted", encrypted, r3)
        /\ on # {"exfiltration"} => Ordered(r3, ts)
    <2>1. /\ Honest(r3, m3) /\ Remembers("c2", Said(e).c2.state, r3)
          /\ Grew("c2", ts, r2, r3) /\ Whole(Said(e).c2, Free(e).c2)
      BY <1>1, <1>3, <1>6, SpeakStep
    <2> HIDE DEF r3, m3
    <2>2. /\ \A other, state : other # "c2" /\ Remembers(other, state, r2) => Remembers(other, state, r3)
          /\ Ordered(r2, ts) => Ordered(r3, ts)
      BY <1>1, <2>1, GrewKeeps
    <2> QED BY <1>2, <1>6, <2>1, <2>2
  <1> HIDE DEF r3, m3
  <1>8. /\ Honest(r4, m4) /\ Remembers("exfil", exfil', r4) /\ Whole(Said(e).exfil, Free(e).exfil)
        /\ Remembers("recon", recon', r4) /\ Remembers("ddos", ddos', r4) /\ Remembers("dns", dns, r4)
        /\ Remembers("c2", c2', r4) /\ Remembers("encrypted", encrypted, r4)
        /\ on # {"exfiltration"} => Ordered(r4, ts)
    <2>1. /\ Honest(r4, m4) /\ Remembers("exfil", Said(e).exfil.state, r4)
          /\ Grew("exfil", ts, r3, r4) /\ Whole(Said(e).exfil, Free(e).exfil)
      BY <1>1, <1>3, <1>4, <1>7, SpeakStep
    <2> HIDE DEF r4, m4
    <2>2. /\ \A other, state : other # "exfil" /\ Remembers(other, state, r3) => Remembers(other, state, r4)
          /\ Ordered(r3, ts) => Ordered(r4, ts)
      BY <1>1, <2>1, GrewKeeps
    <2> QED BY <1>2, <1>7, <2>1, <2>2
  <1> HIDE DEF r4, m4
  <1>9. /\ r4 = raised \o Raised(Said(e)) /\ IsSeq(Raised(Said(e)))
        /\ \A x \in Range(Raised(Said(e))) : {"cool", "end"} \subseteq DOMAIN x
    <2> DEFINE a == Said(e).recon.alerts
               b == Said(e).ddos.alerts
               c == Said(e).c2.alerts
               d == Said(e).exfil.alerts
               all == Raised(Said(e))
    <2>1. all = a \o b \o c \o d /\ r4 = (((raised \o a) \o b) \o c) \o d
      BY DEF Raised, r1, r2, r3, r4
    <2>2. /\ IsSeq(a) /\ IsSeq(b) /\ IsSeq(c) /\ IsSeq(d) /\ IsSeq(raised)
          /\ \A x \in Range(a) \cup Range(b) \cup Range(c) \cup Range(d) : {"cool", "end"} \subseteq DOMAIN x
      BY <1>1, <1>5, <1>6, <1>7, <1>8 DEF Whole, Honest, Alarms
    <2> HIDE DEF a, b, c, d, all
    <2>3. /\ IsSeq(all) /\ Range(all) = Range(a) \cup Range(b) \cup Range(c) \cup Range(d)
          /\ raised \o all = (((raised \o a) \o b) \o c) \o d
      <3>1. OneAfterOther(raised, a, b, c, d)
        BY <2>2, ConcatFour
      <3> QED BY <2>1, <3>1, Zenon DEF OneAfterOther
    <2> QED BY <2>1, <2>2, <2>3 DEF all
  <1>10. m4 = matches'
    <2> DEFINE a == Free(e).recon.alerts
               b == Free(e).ddos.alerts
               c == Free(e).c2.alerts
               d == Free(e).exfil.alerts
               all == Raised(Free(e))
    <2>1. all = a \o b \o c \o d /\ m4 = matches \cup Matches(a) \cup Matches(b) \cup Matches(c) \cup Matches(d)
      BY DEF Raised, m1, m2, m3, m4
    <2>2. IsSeq(a) /\ IsSeq(b) /\ IsSeq(c) /\ IsSeq(d)
      BY <1>5, <1>6, <1>7, <1>8 DEF Whole
    <2> HIDE DEF a, b, c, d, all
    <2>3. Range(all) = Range(a) \cup Range(b) \cup Range(c) \cup Range(d)
      <3>1. OneAfterOther(<<>>, a, b, c, d)
        BY <2>2, EmptyIsSeq, ConcatFour
      <3> QED BY <2>1, <3>1, Zenon DEF OneAfterOther
    <2>4. Matches(all) = Matches(a) \cup Matches(b) \cup Matches(c) \cup Matches(d)
      BY <2>3 DEF Matches
    <2> QED BY <1>2, <2>1, <2>4 DEF all
  <1>11. Alike(r4, raised')
    <2> DEFINE found == Raised(Said(e))
    <2> HIDE DEF found
    <2>1. Alike(raised \o found, raised \o WithNames(found, e))
      BY <1>1, <1>9, NamesKeep DEF found, Honest, Alarms
    <2> QED BY <1>2, <1>9, <2>1 DEF found
  <1>12. /\ \A m : Honest(r4, m) => Honest(raised', m)
         /\ \A family, state : Remembers(family, state, r4) => Remembers(family, state, raised')
         /\ \A t : Ordered(r4, t) => Ordered(raised', t)
    BY <1>11, SameKeeps
  <1>13. Honest(raised', matches') /\ AllRemember(raised)'
    <2>1. Honest(raised, matches)'
      BY <1>8, <1>10, <1>12
    <2>2. dns' = dns /\ encrypted' = encrypted
      BY <1>2
    <2>3. /\ Remembers("recon", recon', raised') /\ Remembers("ddos", ddos', raised')
          /\ Remembers("c2", c2', raised') /\ Remembers("dns", dns', raised')
          /\ Remembers("exfil", exfil', raised') /\ Remembers("encrypted", encrypted', raised')
      BY <1>8, <1>12, <2>2
    <2> QED BY <2>1, <2>3 DEF AllRemember
  <1>14. InTime'
    <2>1. Setup' = Setup /\ latest' # None
      BY <1>1, <1>2, TrafficAssumption DEF Setup
    <2>2. Setup.enabled # {"exfiltration"} => Ordered(raised', latest')
      BY <1>2, <1>8, <1>12 DEF on
    <2> QED BY <2>1, <2>2 DEF InTime, Ordered
  <1> QED BY <1>13, <1>14 DEF HonestInv

(* An event for one detector alone.                                        *)
(* What such an event does.                                                *)
OneSpeaks(e, family, old, new, free) ==
  /\ e.ts \in Int /\ Accepts(e) /\ profile' = profile /\ latest' = e.ts
  /\ Remembers(family, old, raised) /\ Speaks(family, e.ts, old, new, free)
  /\ Setup.enabled = {"exfiltration"} => Quiet(old, new, free)
  /\ Whole(new, free) => Alike(raised \o new.alerts, raised')
  /\ matches' = matches \cup Matches(free.alerts)
LEMMA OneHonest ==
  ASSUME TimeInv, HonestInv, NEW e, NEW family, NEW old, NEW new, NEW free,
         OneSpeaks(e, family, old, new, free)
  PROVE  /\ Honest(raised, matches)' /\ InTime' /\ Remembers(family, new.state, raised')
         /\ \A other, state : other # family /\ Remembers(other, state, raised) => Remembers(other, state, raised')
  <1> DEFINE r == raised \o new.alerts
             ts == e.ts
             m == matches \cup Matches(free.alerts)
  <1>1. Honest(raised, matches) /\ ts \in Int /\ (Setup.enabled # {"exfiltration"} => Ordered(raised, ts))
    BY ArrivesInTime DEF HonestInv, OneSpeaks
  <1> HIDE DEF ts
  <1>2. Quiet(old, new, free) \/ Ordered(raised, ts)
    BY <1>1 DEF OneSpeaks
  <1>3. Remembers(family, old, raised) /\ Speaks(family, ts, old, new, free)
    BY DEF ts, OneSpeaks
  <1>4. /\ Honest(r, m) /\ Remembers(family, new.state, r)
        /\ Grew(family, ts, raised, r) /\ Whole(new, free)
    BY <1>1, <1>2, <1>3, SpeakStep
  <1> HIDE DEF r, m
  <1>5. /\ \A other, state : other # family /\ Remembers(other, state, raised) => Remembers(other, state, r)
        /\ Ordered(raised, ts) => Ordered(r, ts)
    BY <1>1, <1>4, GrewKeeps
  <1>6. Alike(r, raised')
    BY <1>4 DEF r, OneSpeaks
  <1>7. /\ \A n : Honest(r, n) => Honest(raised', n)
        /\ \A other, state : Remembers(other, state, r) => Remembers(other, state, raised')
        /\ \A t : Ordered(r, t) => Ordered(raised', t)
    BY <1>6, SameKeeps
  <1>8. Honest(raised, matches)'
    BY <1>4, <1>7 DEF m, OneSpeaks
  <1>9. InTime'
    <2>1. Setup' = Setup /\ latest' # None /\ latest' = ts
      BY <1>1, TrafficAssumption DEF Setup, ts, OneSpeaks
    <2>2. Setup.enabled # {"exfiltration"} => Ordered(raised', latest')
      BY <1>1, <1>5, <1>7, <2>1
    <2> QED BY <2>1, <2>2 DEF InTime, Ordered
  <1> QED BY <1>4, <1>5, <1>7, <1>8, <1>9

LEMMA DNSHonest ==
  ASSUME TimeInv, HonestInv, NEW e, EventSound(e), ProcessDNS(e)
  PROVE  HonestInv'
  <1> DEFINE new == IF On("dns") THEN DNSProcess(dns, e) ELSE Answer(dns, <<>>)
             free == IF On("dns") THEN DNSProcess(Uncooled(dns), e) ELSE Answer(Uncooled(dns), <<>>)
             uncooled == IF On("dns") THEN DNSProcess(Uncooled(dns), e).alerts ELSE <<>>
  <1>1. /\ Accepts(e) /\ dns' = new.state /\ Records(e, new.alerts, uncooled)
        /\ UNCHANGED <<recon, ddos, c2, exfil, features, encrypted>>
    BY Zenon DEF ProcessDNS
  <1>2. \A found, loud : Records(e, found, loud) =>
          /\ latest' = e.ts /\ profile' = profile /\ raised' = raised \o found
          /\ matches' = matches \cup Matches(loud)
    BY DEF Records, Matches
  <1>3. uncooled = free.alerts
    BY DEF Answer
  <1>4. Honest(raised, matches) /\ AllRemember(raised) /\ Fields("dns") \subseteq DOMAIN dns /\ e.ts \in Int
    BY DEF HonestInv, AllRemember, Remembers, EventSound
  <1>5. Speaks("dns", e.ts, dns, new, free) /\ (On("dns") \/ Quiet(dns, new, free))
    <2>1. CASE On("dns")
      BY <1>4, <2>1, DNSSpeaks
    <2>2. CASE ~On("dns")
      <3>1. /\ new.state = dns /\ new.alerts = <<>> /\ free.alerts = <<>>
        BY <2>2 DEF Answer
      <3> HIDE DEF new, free
      <3> QED BY <1>4, <3>1, Silence DEF Quiet
    <2> QED BY <2>1, <2>2
  <1> HIDE DEF new, free, uncooled
  <1>6. /\ latest' = e.ts /\ profile' = profile /\ raised' = raised \o new.alerts
        /\ matches' = matches \cup Matches(free.alerts)
    BY <1>1, <1>2, <1>3
  <1>7. Whole(new, free) => Alike(raised \o new.alerts, raised')
    <2> SUFFICES ASSUME IsSeq(new.alerts) PROVE Alike(raised \o new.alerts, raised')
      BY DEF Whole
    <2>1. IsSeq(raised')
      BY <1>4, <1>6, ConcatRange DEF Honest, Alarms
    <2> QED BY <1>6, <2>1 DEF Alike
  <1>8. Remembers("dns", dns, raised)
    BY <1>4 DEF AllRemember
  <1>9. Setup.enabled = {"exfiltration"} => Quiet(dns, new, free)
    BY <1>5 DEF On
  <1>10. /\ Honest(raised, matches)' /\ InTime' /\ Remembers("dns", new.state, raised')
         /\ \A other, state : other # "dns" /\ Remembers(other, state, raised) => Remembers(other, state, raised')
    <2>1. OneSpeaks(e, "dns", dns, new, free)
      BY <1>1, <1>4, <1>5, <1>6, <1>7, <1>8, <1>9 DEF OneSpeaks
    <2> QED BY <2>1, OneHonest
  <1>11. AllRemember(raised)'
    BY <1>1, <1>4, <1>10 DEF AllRemember
  <1> QED BY <1>10, <1>11 DEF HonestInv

LEMMA EncryptedHonest ==
  ASSUME TimeInv, HonestInv, NEW e, EventSound(e), ProcessEncrypted(e)
  PROVE  HonestInv'
  <1> DEFINE rich == Enrich(features, e, ~Setup.derived)
             x == rich.event
             new == IF On("encrypted") THEN EncryptedProcess(encrypted, x) ELSE Answer(encrypted, <<>>)
             free == IF On("encrypted") THEN EncryptedProcess(Uncooled(encrypted), x)
                     ELSE Answer(Uncooled(encrypted), <<>>)
             uncooled == IF On("encrypted") THEN EncryptedProcess(Uncooled(encrypted), x).alerts ELSE <<>>
  <1>1. /\ Accepts(e) /\ encrypted' = new.state /\ Records(x, WithNames(new.alerts, e), uncooled)
        /\ UNCHANGED <<context, recon, ddos, c2, dns, exfil>>
    BY Zenon DEF ProcessEncrypted
  <1>2. \A found, loud : Records(x, found, loud) =>
          /\ latest' = x.ts /\ profile' = profile /\ raised' = raised \o found
          /\ matches' = matches \cup Matches(loud)
    BY DEF Records, Matches
  <1>3. uncooled = free.alerts
    BY DEF Answer
  <1>4. x.ts = e.ts
    <2>1. \E value : x = Put(e, "features", value)
      BY DEF Enrich, Enriched
    <2> QED BY <2>1 DEF Put, EventSound
  <1> HIDE DEF x
  <1>5. Honest(raised, matches) /\ AllRemember(raised) /\ Fields("encrypted") \subseteq DOMAIN encrypted /\ e.ts \in Int
    BY DEF HonestInv, AllRemember, Remembers, EventSound
  <1>6. Speaks("encrypted", e.ts, encrypted, new, free) /\ (On("encrypted") \/ Quiet(encrypted, new, free))
    <2>1. CASE On("encrypted")
      <3>1. Speaks("encrypted", x.ts, encrypted, EncryptedProcess(encrypted, x),
                   EncryptedProcess(Uncooled(encrypted), x))
        BY <1>5, EncryptedSpeaks
      <3> QED BY <1>4, <2>1, <3>1
    <2>2. CASE ~On("encrypted")
      <3>1. /\ new.state = encrypted /\ new.alerts = <<>> /\ free.alerts = <<>>
        BY <2>2 DEF Answer
      <3> HIDE DEF new, free
      <3> QED BY <1>5, <3>1, Silence DEF Quiet
    <2> QED BY <2>1, <2>2
  <1> HIDE DEF new, free, uncooled
  <1>7. /\ latest' = e.ts /\ profile' = profile /\ raised' = raised \o WithNames(new.alerts, e)
        /\ matches' = matches \cup Matches(free.alerts)
    BY <1>1, <1>2, <1>3, <1>4
  <1>8. Whole(new, free) => Alike(raised \o new.alerts, raised')
    BY <1>5, <1>7, NamesKeep DEF Whole, Honest, Alarms
  <1>9. Remembers("encrypted", encrypted, raised)
    BY <1>5 DEF AllRemember
  <1>10. Setup.enabled = {"exfiltration"} => Quiet(encrypted, new, free)
    BY <1>6 DEF On
  <1>11. /\ Honest(raised, matches)' /\ InTime' /\ Remembers("encrypted", new.state, raised')
         /\ \A other, state : other # "encrypted" /\ Remembers(other, state, raised) => Remembers(other, state, raised')
    <2>1. OneSpeaks(e, "encrypted", encrypted, new, free)
      BY <1>1, <1>5, <1>6, <1>7, <1>8, <1>9, <1>10 DEF OneSpeaks
    <2> QED BY <2>1, OneHonest
  <1>12. AllRemember(raised)'
    BY <1>1, <1>5, <1>11 DEF AllRemember
  <1> QED BY <1>11, <1>12 DEF HonestInv

LEMMA HonestStep ==
  ASSUME SessionInv, HonestInv, ExfilConfig.cooldown >= 0, [Next]_vars
  PROVE  HonestInv'
  <1>0. TimeInv /\ IdleInv
    BY DEF SessionInv
  <1>1. CASE Arrives
    <2>1. PICK e : EventSound(e) /\ (ProcessConnection(e) \/ ProcessDNS(e) \/ ProcessEncrypted(e))
      BY <1>0, <1>1, EventsSound
    <2> QED BY <1>0, <2>1, ConnectionHonest, DNSHonest, EncryptedHonest
  <1>2. CASE Complete \/ UNCHANGED vars
    <2>1. UNCHANGED <<profile, latest, recon, ddos, c2, dns, exfil, encrypted, raised, matches>>
      BY <1>2 DEF Complete, vars, detectors
    <2> QED BY <2>1 DEF HonestInv, AllRemember, InTime, Setup, Honest, Remembers, Tracks, Apart, Alarms, Heard, Ordered
  <1>3. CASE Resume
    <2>1. /\ UNCHANGED <<profile, raised, matches>> /\ Setup.enabled = {"exfiltration"}
          /\ recon' = ReconFresh /\ ddos' = DDoSFresh /\ c2' = C2Fresh /\ dns' = DNSFresh
          /\ encrypted' = EncryptedFresh /\ exfil' = Restore(Export(exfil))
      BY <1>3 DEF Resume
    <2>2. UNCHANGED <<recon, ddos, c2, dns, encrypted>>
      BY <1>0, <2>1 DEF IdleInv, On
    <2>3. Remembers("exfil", exfil', raised)
      <3>1. Restore(Export(exfil)).last = exfil.last /\ Fields("exfil") \subseteq DOMAIN Restore(Export(exfil))
        <4> DEFINE W == [key \in DOMAIN exfil.windows |-> Rebuilt(exfil.windows[key], key)]
                   B == [src \in DOMAIN exfil.baselines |-> Folded(Remembered, <<>>, exfil.baselines[src])]
        <4>1. Restore(Export(exfil)) = [exfil EXCEPT !.windows = W, !.baselines = B]
          BY DEF Restore, Export
        <4>2. Fields("exfil") \subseteq DOMAIN exfil
          BY DEF HonestInv, AllRemember, Remembers
        <4> HIDE DEF W, B
        <4> QED BY <4>1, <4>2, FieldsOf
      <3> QED BY <2>1, <3>1 DEF HonestInv, AllRemember, Remembers
    <2>4. AllRemember(raised)'
      BY <2>1, <2>2, <2>3 DEF HonestInv, AllRemember
    <2>5. Honest(raised, matches)' /\ InTime'
      BY <2>1 DEF HonestInv, InTime, Setup
    <2> QED BY <2>4, <2>5 DEF HonestInv
  <1> QED BY <1>1, <1>2, <1>3 DEF Next

(* For any traffic, profile, thresholds and cooldowns: whenever a rule's   *)
(* pattern is met an alert under its key was raised less than a cooldown   *)
(* before, and two alerts under a key are a cooldown apart (the checks and *)
(* updates of _last_alert in every detector).  The exfiltration detector's *)
(* cooldown must not be negative, which its configuration does not check:  *)
(* the command line's next run may be over older events.                   *)
THEOREM CooldownsAreHonest == ExfilConfig.cooldown >= 0 => (Spec => []CooldownsHonest)
  <1> SUFFICES ASSUME ExfilConfig.cooldown >= 0 PROVE Spec => []CooldownsHonest
    OBVIOUS
  <1>1. Init => SessionInv /\ HonestInv
    BY SessionInit, HonestInit
  <1>2. SessionInv /\ HonestInv /\ [Next]_vars => SessionInv' /\ HonestInv'
    BY SessionStep, HonestStep
  <1>3. HonestInv => CooldownsHonest
    BY HonestGives DEF HonestInv
  <1> QED BY <1>1, <1>2, <1>3, PTL DEF Spec

-----------------------------------------------------------------------------
(* The parts of an alert are what they should be: windows are never empty, *)
(* what is measured is a number, and so are its times and its confidence.  *)

ScoresNumeric ==
  /\ \A e : Score(e) \in Int \cup {None}
  /\ \A vector, prior : {SizeScore(vector, prior), TimingScore(vector, prior)} \subseteq Int \cup {None}

Good(tag, x) ==
  /\ x.ts \in Int
  /\ tag = "connection" => x.outbound \in Int /\ x.inbound \in Int /\ x.packets \in Int
  /\ tag = "scored" => Scored(x) \in Int
  /\ tag = "features" => x.features.size \in Int /\ x.features.timing \in Int
Window(tag, w) == IsSeq(w) /\ w # <<>> /\ \A x \in Range(w) : Good(tag, x)
Windows(tag, map) == \A k \in DOMAIN map : Window(tag, map[k])

LEMMA WindowFacts ==
  ASSUME NEW tag, NEW w, Window(tag, w)
  PROVE  /\ Len(w) \in Nat /\ Len(w) > 0 /\ DOMAIN w = 1..Len(w)
         /\ \A i \in 1..Len(w) : Good(tag, w[i])
         /\ w[1].ts \in Int
  <1>1. Len(w) \in Nat /\ DOMAIN w = 1..Len(w) /\ \A i \in 1..Len(w) : w[i] \in Range(w)
    BY SeqFacts DEF Window
  <1>2. Len(w) > 0
    <2>1. w \in Seq(Range(w)) /\ w # <<>>
      BY DEF Window, IsSeq
    <2> QED BY <1>1, <2>1, EmptySeq
  <1>3. \A i \in 1..Len(w) : Good(tag, w[i])
    BY <1>1 DEF Window
  <1>4. 1 \in 1..Len(w)
    BY <1>1, <1>2
  <1> QED BY <1>1, <1>2, <1>3, <1>4 DEF Good

LEMMA OneWindow ==
  ASSUME NEW tag, NEW e, Good(tag, e)
  PROVE  Window(tag, <<e>>)
  <1>1. IsSeq(<<e>>) /\ Range(<<e>>) = {e} /\ <<e>> # <<>>
    BY DEF IsSeq, Range
  <1> QED BY <1>1 DEF Window

(* What is kept is the end of the window, with the latest event.           *)
LEMMA EvictedWindow ==
  ASSUME NEW tag, NEW w, Window(tag, w), NEW cutoff \in Int, cutoff <= Last(w).ts
  PROVE  Window(tag, Evicted(w, cutoff))
  <1> DEFINE kept == {i \in DOMAIN w : w[i].ts >= cutoff}
             k == Min(kept)
  <1>1. Len(w) \in Nat /\ Len(w) > 0 /\ DOMAIN w = 1..Len(w) /\ Last(w) = w[Len(w)]
    BY WindowFacts DEF Last
  <1>2. Len(w) \in kept /\ kept \subseteq Nat
    <2>1. Len(w) \in 1..Len(w) /\ w[Len(w)].ts \in Int
      BY <1>1, WindowFacts DEF Good
    <2> QED BY <1>1, <2>1
  <1>3. k \in kept
    <2> HIDE DEF kept
    <2> QED BY <1>2, MinOfNat
  <1>4. k \in 1..Len(w)
    BY <1>1, <1>3
  <1>5. Evicted(w, cutoff) = SubSeq(w, k, Len(w))
    BY <1>2 DEF Evicted
  <1> HIDE DEF k, kept
  <1>6. IsSeq(SubSeq(w, k, Len(w))) /\ Range(SubSeq(w, k, Len(w))) \subseteq Range(w)
    BY <1>1, <1>4, SubSeqIsSeq DEF Window
  <1>7. Len(SubSeq(w, k, Len(w))) = Len(w) - k + 1
    <2>1. \A i \in k..Len(w) : w[i] \in Range(w)
      BY <1>1, <1>4, SeqFacts DEF Window
    <2>2. Len(SubSeq(w, k, Len(w))) = IF k <= Len(w) THEN Len(w) - k + 1 ELSE 0
      BY <1>1, <1>4, <2>1, SubSeqProperties
    <2> QED BY <1>1, <1>4, <2>2
  <1>8. SubSeq(w, k, Len(w)) # <<>>
    <2>1. Len(SubSeq(w, k, Len(w))) # 0
      BY <1>1, <1>4, <1>7
    <2> QED BY <2>1, EmptyIsSeq
  <1> QED BY <1>5, <1>6, <1>8 DEF Window
LEMMA JoinedWindow ==
  ASSUME NEW tag, NEW w, IsSeq(w), \A x \in Range(w) : Good(tag, x), NEW e, Good(tag, e)
  PROVE  Window(tag, Append(w, e)) /\ Window(tag, Inserted(w, e)) /\ Last(Append(w, e)) = e
  <1> DEFINE k == Max({0} \cup {i \in DOMAIN w : w[i].ts <= e.ts})
  <1>1. Len(w) \in Nat
    BY SeqFacts
  <1>2. /\ IsSeq(Append(w, e)) /\ Range(Append(w, e)) = Range(w) \cup {e}
        /\ Len(Append(w, e)) = Len(w) + 1 /\ Append(w, e)[Len(w) + 1] = e
    BY AppendIsSeq
  <1>3. k \in 0..Len(w)
    BY LastOf
  <1>4. Inserted(w, e) = InsertAt(w, k + 1, e)
    BY DEF Inserted
  <1> HIDE DEF k
  <1>5. IsSeq(Inserted(w, e)) /\ Range(Inserted(w, e)) = Range(w) \cup {e}
    BY <1>3, <1>4, InsertIsSeq, InsertKeeps
  <1>6. Append(w, e) # <<>> /\ Inserted(w, e) # <<>>
    BY <1>2, <1>5, EmptyIsSeq
  <1> QED BY <1>2, <1>5, <1>6 DEF Window, Last
LEMMA AtWindow ==
  ASSUME NEW tag, NEW map, Windows(tag, map), NEW key
  PROVE  IsSeq(At(map, key, <<>>)) /\ \A x \in Range(At(map, key, <<>>)) : Good(tag, x)
  BY EmptyIsSeq DEF At, Windows, Window
LEMMA PutWindow ==
  ASSUME NEW tag, NEW map, Windows(tag, map), NEW key, NEW w, Window(tag, w)
  PROVE  Windows(tag, Put(map, key, w))
  BY DEF Put, Windows
LEMMA PutIs ==
  ASSUME NEW map, NEW key, NEW w
  PROVE  Put(map, key, w)[key] = w /\ DOMAIN Put(map, key, w) = DOMAIN map \cup {key}
  BY DEF Put
LEMMA AddedWindow ==
  ASSUME NEW tag, NEW map, Windows(tag, map), NEW key, NEW e, Good(tag, e), NEW span \in Nat
  PROVE  Windows(tag, Added(map, key, e, span)) /\ Window(tag, Added(map, key, e, span)[key])
  <1> DEFINE w == Inserted(At(map, key, <<>>), e)
             kept == Evicted(w, Last(w).ts - span)
  <1>1. Window(tag, w)
    BY AtWindow, JoinedWindow
  <1>2. Last(w).ts \in Int
    <2> HIDE DEF w
    <2>1. Len(w) \in 1..Len(w) /\ Last(w) = w[Len(w)]
      BY <1>1, WindowFacts DEF Last
    <2> QED BY <1>1, <2>1, WindowFacts DEF Good
  <1>3. Added(map, key, e, span) = Put(map, key, kept)
    BY Zenon DEF Added
  <1>4. Window(tag, kept)
    <2> HIDE DEF w
    <2>1. Last(w).ts - span \in Int /\ Last(w).ts - span <= Last(w).ts
      BY <1>2
    <2> QED BY <1>1, <2>1, EvictedWindow
  <1> HIDE DEF kept
  <1>5. Windows(tag, Put(map, key, kept))
    BY <1>4, PutWindow
  <1>6. Put(map, key, kept)[key] = kept
    BY DEF Put
  <1> QED BY <1>3, <1>4, <1>5, <1>6, Zenon
LEMMA NoWindows == \A tag : Windows(tag, <<>>)
  BY DEF Windows

(* Numbers made of windows.                                                *)
PacketStep(c, sum, x) == sum + Max({x.packets, 1})
OutboundStep(c, sum, x) == sum + x.outbound
ScoresStep(c, sum, x) == sum + (x.features.size + x.features.timing)
UnusualStep(c, sum, x) == sum + Unusual(c, CHOOSE s \in c : s.flow = x.flow)
Number(c, sum) == sum \in Int
Packets == INSTANCE FoldProofs WITH Op <- PacketStep, Holds <- Number
Outbounds == INSTANCE FoldProofs WITH Op <- OutboundStep, Holds <- Number
ScoreSums == INSTANCE FoldProofs WITH Op <- ScoresStep, Holds <- Number
Unusuals == INSTANCE FoldProofs WITH Op <- UnusualStep, Holds <- Number

LEMMA PacketsNumber ==
  ASSUME NEW w, IsSeq(w), \A x \in Range(w) : Good("connection", x)
  PROVE  Total(w, LAMBDA x : Max({x.packets, 1})) \in Int
  <1>1. Len(w) \in Nat /\ \A i \in 1..Len(w) : w[i].packets \in Int
    BY SeqFacts DEF Good
  <1>2. Number({}, 0)
    BY DEF Number
  <1>3. \A i \in 1..Len(w) : \A acc : Number({}, acc) => Number({}, PacketStep({}, acc, w[i]))
    BY <1>1, MaxOfTwo DEF Number, PacketStep
  <1>4. Number({}, Packets!Result({}, 0, w))
    BY <1>1, <1>2, <1>3, Packets!FoldInvariant
  <1> QED BY <1>4 DEF Number, Packets!Result, Packets!Folded, Total, Folded, PacketStep
LEMMA SentNumber ==
  ASSUME NEW w, IsSeq(w), \A x \in Range(w) : Good("connection", x)
  PROVE  Sent(w) \in Int
  <1>1. Len(w) \in Nat /\ \A i \in 1..Len(w) : w[i].outbound \in Int
    BY SeqFacts DEF Good
  <1>2. Number({}, 0)
    BY DEF Number
  <1>3. \A i \in 1..Len(w) : \A acc : Number({}, acc) => Number({}, OutboundStep({}, acc, w[i]))
    BY <1>1 DEF Number, OutboundStep
  <1>4. Number({}, Outbounds!Result({}, 0, w))
    BY <1>1, <1>2, <1>3, Outbounds!FoldInvariant
  <1> QED BY <1>4 DEF Number, Outbounds!Result, Outbounds!Folded, Sent, Total, Folded, OutboundStep
LEMMA ScoresNumber ==
  ASSUME NEW w, IsSeq(w), \A x \in Range(w) : Good("features", x)
  PROVE  Total(w, LAMBDA x : x.features.size + x.features.timing) \in Int
  <1>1. Len(w) \in Nat /\ \A i \in 1..Len(w) : w[i].features.size \in Int /\ w[i].features.timing \in Int
    BY SeqFacts DEF Good
  <1>2. Number({}, 0)
    BY DEF Number
  <1>3. \A i \in 1..Len(w) : \A acc : Number({}, acc) => Number({}, ScoresStep({}, acc, w[i]))
    BY <1>1 DEF Number, ScoresStep
  <1>4. Number({}, ScoreSums!Result({}, 0, w))
    BY <1>1, <1>2, <1>3, ScoreSums!FoldInvariant
  <1> QED BY <1>4 DEF Number, ScoreSums!Result, ScoreSums!Folded, Total, Folded, ScoresStep
LEMMA PickedIsSeq ==
  ASSUME NEW w, IsSeq(w), NEW good
  PROVE  /\ IsSeq(Chosen(w, good)) /\ Range(Chosen(w, good)) \subseteq Range(w)
         /\ Len(Chosen(w, good)) \in Nat
  BY ChosenIsSeq, SeqFacts
LEMMA MetadataNumber ==
  ASSUME NEW w, IsSeq(w), NEW sessions
  PROVE  MetadataScore(w, sessions) \in Int
  <1> DEFINE met == Picked(w, LAMBDA e : \E s \in sessions : s.flow = e.flow)
             score == Total(met, LAMBDA e : Unusual(sessions, CHOOSE s \in sessions : s.flow = e.flow))
  <1>1. IsSeq(met) /\ Len(met) \in Nat
    BY PickedIsSeq DEF Picked
  <1>2. MetadataScore(w, sessions) = IF met = <<>> THEN 0 ELSE score \div Len(met)
    BY DEF MetadataScore
  <1>3. score \in Int
    <2> HIDE DEF met
    <2>1. Number(sessions, 0)
      BY DEF Number
    <2>2. \A s : Unusual(sessions, s) \in Int
      BY DEF Unusual
    <2>3. \A i \in 1..Len(met) : \A acc :
            Number(sessions, acc) => Number(sessions, UnusualStep(sessions, acc, met[i]))
      BY <2>2 DEF Number, UnusualStep
    <2>4. Number(sessions, Unusuals!Result(sessions, 0, met))
      BY <1>1, <2>1, <2>3, Unusuals!FoldInvariant
    <2> QED BY <2>4 DEF Number, Unusuals!Result, Unusuals!Folded, Total, Folded, UnusualStep
  <1>4. met # <<>> => Len(met) > 0
    <2> HIDE DEF met
    <2>1. met \in Seq(Range(met))
      BY <1>1 DEF IsSeq
    <2> QED BY <1>1, <2>1, EmptySeq
  <1> HIDE DEF met, score
  <1> QED BY <1>1, <1>2, <1>3, <1>4
LEMMA ExcessNumber ==
  ASSUME NEW observed \in Int, NEW threshold \in Nat, threshold > 0
  PROVE  Excess(observed, threshold) \in Int
  <1> DEFINE least == Min({observed - threshold, threshold})
             most == Max({0, least})
  <1>1. least \in Int
    BY DEF Min
  <1> HIDE DEF least
  <1>2. most \in Int
    BY <1>1, MaxOfTwo
  <1>3. Excess(observed, threshold) = (100 * most) \div threshold
    BY DEF Excess, least
  <1> HIDE DEF most
  <1> QED BY <1>2, <1>3

-----------------------------------------------------------------------------
(* Each detector's alerts.                                                 *)

AllFull(found) == IsSeq(found) /\ \A a \in Range(found) : Full(a)
LEMMA AlertFull ==
  ASSUME NEW type, NEW subtype, NEW id, NEW cool, NEW event, event.ts \in Int, NEW dst,
         NEW start \in Int, NEW flows, NEW confidence \in Int,
         type = "reconnaissance" => subtype \notin SynFloods
  PROVE  Full(Alert(type, subtype, id, cool, event, dst, start, flows, confidence))
  BY DEF Full, Alert
LEMMA RuleFull ==
  ASSUME NEW holds, NEW x, holds => Full(x)
  PROVE  AllFull(Rule(holds, x))
  BY RuleIsSeq, EmptyIsSeq DEF AllFull, Rule
LEMMA EachFull ==
  ASSUME NEW hits, IsSeq(hits), NEW found, found = [i \in DOMAIN hits |-> found[i]],
         \A i \in DOMAIN hits : Full(found[i])
  PROVE  AllFull(found)
  <1>1. Len(hits) \in Nat /\ DOMAIN hits = 1..Len(hits)
    BY SeqFacts
  <1>2. found \in [1..Len(hits) -> Range(found)] /\ DOMAIN found = 1..Len(hits)
    BY <1>1 DEF Range
  <1>3. found \in Seq(Range(found))
    BY <1>1, <1>2
  <1>4. \A x \in Range(found) : \E i \in DOMAIN hits : x = found[i]
    BY <1>1, <1>2 DEF Range
  <1> QED BY <1>3, <1>4 DEF AllFull, IsSeq
LEMMA SaidFull ==
  ASSUME NEW last, NEW found, AllFull(found), NEW cooldown
  PROVE  AllFull(Spaced(last, found, cooldown).alerts)
  BY SpacedWithin DEF AllFull
LEMMA NoneFull == AllFull(<<>>)
  BY EmptyIsSeq DEF AllFull
LEMMA ConcatFull ==
  ASSUME NEW r, AllFull(r), NEW s, AllFull(s)
  PROVE  AllFull(r \o s)
  BY ConcatRange DEF AllFull

ScanFits(scan) ==
  /\ scan.subtype \notin SynFloods /\ scan.observed \in Int
  /\ scan.threshold \in Nat /\ scan.threshold > 0
LEMMA ScansFit ==
  ASSUME NEW c, Window("time", c)
  PROVE  IsSeq(Scans(c)) /\ \A scan \in Range(Scans(c)) : ScanFits(scan)
  <1> DEFINE fan == Cardinality(PortsOn(c, BusiestHost(c)))
             ports == Cardinality(PortsOf(c))
             Scan(subtype, observed, threshold, dst) ==
               [subtype |-> subtype, observed |-> observed, threshold |-> threshold, dst |-> dst]
             vertical == Scan("vertical_port_scan", fan, ReconConfig.ports, BusiestHost(c))
             horizontal == Scan("horizontal_host_scan", MostHosts(c), ReconConfig.hosts, None)
             both == Scan("multi_host_port_scan", ports, ReconConfig.ports, None)
  <1>1. Len(c) \in Nat /\ DOMAIN c = 1..Len(c) /\ Len(c) > 0
    BY WindowFacts
  <1>2. \A J \in SUBSET DOMAIN c : IsFiniteSet(J)
    <2>1. IsFiniteSet(1..Len(c))
      BY <1>1, FS_Interval
    <2> QED BY <1>1, <2>1, FS_Subset
  <1>3. \A J \in SUBSET DOMAIN c :
          IsFiniteSet({c[i].dport : i \in J}) /\ IsFiniteSet({c[i].dst : i \in J})
    <2>1. ASSUME NEW J \in SUBSET DOMAIN c
          PROVE  IsFiniteSet({c[i].dport : i \in J}) /\ IsFiniteSet({c[i].dst : i \in J})
      <3> DEFINE f == [i \in J |-> c[i].dport]
                 g == [i \in J |-> c[i].dst]
      <3>1. IsFiniteSet({f[i] : i \in J}) /\ IsFiniteSet({g[i] : i \in J})
        <4> HIDE DEF f, g
        <4> QED BY <1>2, ImageFinite
      <3>2. {f[i] : i \in J} = {c[i].dport : i \in J} /\ {g[i] : i \in J} = {c[i].dst : i \in J}
        OBVIOUS
      <3> QED BY <3>1, <3>2
    <2> QED BY <2>1
  <1>4. IsFiniteSet(PortsOf(c)) /\ \A x : IsFiniteSet(PortsOn(c, x)) /\ IsFiniteSet(HostsAt(c, x))
    <2>1. DOMAIN c \in SUBSET DOMAIN c
      OBVIOUS
    <2>2. \A x : {j \in DOMAIN c : c[j].dst = x} \in SUBSET DOMAIN c /\ {j \in DOMAIN c : c[j].dport = x} \in SUBSET DOMAIN c
      OBVIOUS
    <2> QED BY <1>3, <2>1, <2>2 DEF PortsOf, PortsOn, HostsAt
  <1>5. fan \in Nat /\ ports \in Nat
    BY <1>4, FS_CardinalityType
  <1>6. MostHosts(c) \in Int
    <2> DEFINE f == [p \in PortsOf(c) |-> Cardinality(HostsAt(c, p))]
               N == {f[p] : p \in PortsOf(c)}
    <2>1. IsFiniteSet(N)
      <3> HIDE DEF f
      <3> QED BY <1>4, ImageFinite
    <2>2. PortsOf(c) # {}
      <3>1. 1 \in DOMAIN c
        BY <1>1
      <3> QED BY <3>1 DEF PortsOf
    <2>3. \A p \in PortsOf(c) : f[p] \in Int
      BY <1>4, FS_CardinalityType
    <2>4. N # {} /\ N \subseteq Int
      <3> HIDE DEF f
      <3> QED BY <2>2, <2>3
    <2>5. MostHosts(c) = Max(N)
      BY DEF MostHosts
    <2> HIDE DEF N
    <2> QED BY <2>1, <2>4, <2>5, MaxOfFinite
  <1>7. ScanFits(vertical) /\ ScanFits(horizontal) /\ ScanFits(both)
    <2>1. ReconConfig.ports \in Nat /\ ReconConfig.ports > 0 /\ ReconConfig.hosts \in Nat /\ ReconConfig.hosts > 0
      BY ReconConfigAssumption DEF ReconConfigValid
    <2> HIDE DEF fan, ports
    <2> QED BY <1>5, <1>6, <2>1 DEF ScanFits, SynFloods
  <1> DEFINE one == Rule(fan >= ReconConfig.ports, vertical)
             two == Rule(MostHosts(c) >= ReconConfig.hosts, horizontal)
             three == Rule(ports >= ReconConfig.ports /\ Cardinality(HostsOf(c)) >= 2 /\ fan < ReconConfig.ports, both)
  <1>8. Scans(c) = one \o two \o three
    BY Zenon DEF Scans
  <1>9. /\ IsSeq(one) /\ Range(one) \subseteq {vertical} /\ IsSeq(two) /\ Range(two) \subseteq {horizontal}
        /\ IsSeq(three) /\ Range(three) \subseteq {both}
    <2> HIDE DEF vertical, horizontal, both, fan, ports
    <2> QED BY RuleIsSeq
  <1> HIDE DEF one, two, three, vertical, horizontal, both
  <1>10. IsSeq(one \o two) /\ Range(one \o two) = Range(one) \cup Range(two)
    BY <1>9, ConcatRange
  <1>11. IsSeq(one \o two \o three) /\ Range(one \o two \o three) = Range(one) \cup Range(two) \cup Range(three)
    BY <1>9, <1>10, ConcatRange
  <1> QED BY <1>7, <1>8, <1>9, <1>11
LEMMA ScanAlertsFull ==
  ASSUME NEW c, Window("time", c), NEW e, e.ts \in Int
  PROVE  AllFull(ScanAlerts(c, e))
  <1> DEFINE scans == Scans(c)
             found == ScanAlerts(c, e)
  <1>1. IsSeq(scans) /\ \A scan \in Range(scans) : ScanFits(scan)
    BY ScansFit
  <1>2. found = [i \in DOMAIN scans |-> ReconAlert(c, scans[i], e)]
    BY DEF ScanAlerts
  <1> HIDE DEF scans, found
  <1>3. ASSUME NEW scan, ScanFits(scan) PROVE Full(ReconAlert(c, scan, e))
    <2> DEFINE x == Excess(scan.observed, scan.threshold)
    <2>1. x \in Int
      BY <1>3, ExcessNumber DEF ScanFits
    <2> HIDE DEF x
    <2>2. 70 + x \div 4 \in Int /\ c[1].ts \in Int
      BY <2>1, WindowFacts
    <2>3. ReconAlert(c, scan, e) =
            Alert("reconnaissance", scan.subtype, <<"recon", scan.subtype, e.src, c[1].ts, e.ts>>,
                  <<"recon", e.src, scan.subtype>>, e, scan.dst, c[1].ts, Flows(c), 70 + x \div 4)
      BY Zenon DEF ReconAlert, x
    <2> QED BY <1>3, <2>2, <2>3, AlertFull DEF ScanFits
  <1>4. \A i \in DOMAIN scans : Full(found[i])
    <2>1. \A i \in DOMAIN scans : scans[i] \in Range(scans)
      BY <1>1, SeqFacts
    <2> QED BY <1>1, <1>2, <1>3, <2>1
  <1>5. found = [i \in DOMAIN scans |-> found[i]]
    BY <1>2
  <1>6. AllFull(found)
    BY <1>1, <1>4, <1>5, EachFull
  <1> QED BY <1>6 DEF found

ReconGood(state) == Windows("time", state.contacts) /\ IsFiniteSet(DOMAIN state.contacts)
LEMMA ReconFull ==
  ASSUME NEW state, ReconGood(state), NEW e, e.ts \in Int
  PROVE  ReconGood(ReconProcess(state, e).state) /\ AllFull(ReconProcess(state, e).alerts)
  <1> DEFINE w == Append(At(state.contacts, e.src, <<>>), e)
             c == Evicted(w, e.ts - ReconConfig.window)
             said == Spaced(state.last, ScanAlerts(c, e), ReconConfig.cooldown)
             answer == Answer([contacts |-> Put(state.contacts, e.src, c), last |-> said.last], said.alerts)
  <1>1. CASE e.src \in AuthorizedSources
    <2>1. ReconProcess(state, e).state = state /\ ReconProcess(state, e).alerts = <<>>
      BY <1>1 DEF ReconProcess, Answer
    <2> QED BY <2>1, NoneFull
  <1>2. CASE e.src \notin AuthorizedSources
    <2>1. ReconProcess(state, e) = answer
      BY <1>2 DEF ReconProcess
    <2>2. Good("time", e)
      BY DEF Good
    <2>3. Window("time", w) /\ Last(w) = e
      BY <2>2, AtWindow, JoinedWindow DEF ReconGood
    <2>4. Window("time", c)
      <3> HIDE DEF w
      <3>1. e.ts - ReconConfig.window \in Int /\ e.ts - ReconConfig.window <= e.ts
        BY ReconConfigAssumption DEF ReconConfigValid
      <3> QED BY <2>3, <3>1, EvictedWindow
    <2> HIDE DEF c
    <2>5. AllFull(said.alerts)
      BY <2>4, ScanAlertsFull, SaidFull
    <2>6. Windows("time", Put(state.contacts, e.src, c)) /\ DOMAIN Put(state.contacts, e.src, c) = DOMAIN state.contacts \cup {e.src}
      BY <2>4, PutWindow, PutIs DEF ReconGood
    <2>7. IsFiniteSet(DOMAIN state.contacts \cup {e.src})
      BY FS_AddElement DEF ReconGood
    <2> HIDE DEF said
    <2> QED BY <2>1, <2>5, <2>6, <2>7 DEF ReconGood, Answer
  <1> QED BY <1>1, <1>2

(* Floods.                                                                 *)
HitFull(hit) ==
  /\ IsSeq(hit.relevant) /\ hit.relevant # <<>> /\ \A x \in Range(hit.relevant) : x.ts \in Int
  /\ hit.confidence \in Int
AllHits(hits) == IsSeq(hits) /\ \A hit \in Range(hits) : HitFull(hit)
LEMMA HitsOne ==
  ASSUME NEW subtype, NEW target, NEW relevant, IsSeq(relevant), relevant # <<>>,
         \A x \in Range(relevant) : x.ts \in Int, NEW confidence \in Int
  PROVE  AllHits(Hit(subtype, target, relevant, confidence))
  <1> DEFINE hit == [subtype |-> subtype, target |-> target, relevant |-> relevant, confidence |-> confidence]
  <1>1. HitFull(hit)
    BY DEF HitFull
  <1>2. Hit(subtype, target, relevant, confidence) = <<hit>>
    BY DEF Hit
  <1> HIDE DEF hit
  <1>3. IsSeq(<<hit>>) /\ Range(<<hit>>) = {hit}
    BY DEF IsSeq, Range
  <1> QED BY <1>1, <1>2, <1>3 DEF AllHits
LEMMA HitsNone == AllHits(<<>>)
  BY EmptyIsSeq DEF AllHits
LEMMA HitsBoth ==
  ASSUME NEW r, AllHits(r), NEW s, AllHits(s)
  PROVE  AllHits(r \o s)
  BY ConcatRange DEF AllHits
Events(w) == IsSeq(w) /\ \A x \in Range(w) : Good("connection", x)
LEMMA EventsPicked ==
  ASSUME NEW w, Events(w), NEW good
  PROVE  Events(Chosen(w, good)) /\ Len(Chosen(w, good)) \in Nat
  BY PickedIsSeq DEF Events
LEMMA SomeEvents ==
  ASSUME NEW w, Events(w), Len(w) # 0
  PROVE  w # <<>> /\ \A x \in Range(w) : x.ts \in Int
  BY EmptyIsSeq DEF Events, Good
LEMMA DDoSNumbers ==
  \A threshold \in {"synAttempts", "udpPackets", "reflectionFlows", "slowConnections"} :
    DDoSConfig[threshold] \in Nat /\ DDoSConfig[threshold] > 1
  BY DDoSConfigAssumption DEF DDoSConfigValid
LEMMA SynHits ==
  ASSUME NEW w, Events(w), NEW e
  PROVE  AllHits(SynFlood(w, e))
  <1> DEFINE tcp == Shaped(w, "tcp")
             n == Len(tcp)
             incomplete == Count(tcp, LAMBDA x : x.state \in {"S0", "REJ"})
             distributed == Cardinality(Sources(tcp)) >= DDoSConfig.minSources /\ Diverse(tcp)
             subtype == IF distributed THEN "distributed_source_syn_flood" ELSE "syn_flood"
             confidence == 65 + (20 * incomplete) \div n + (14 * Excess(n, DDoSConfig.synAttempts)) \div 100
             fires == /\ n >= DDoSConfig.synAttempts
                      /\ 100 * incomplete >= DDoSConfig.incompletePct * n
                      /\ 100 * MostOnOnePort(tcp) >= DDoSConfig.concentrationPct * n
  <1>1. SynFlood(w, e) = IF fires THEN Hit(subtype, e.dst, tcp, confidence) ELSE <<>>
    BY DEF SynFlood
  <1>2. Events(tcp) /\ n \in Nat
    BY EventsPicked DEF Shaped, Picked
  <1>3. incomplete \in Nat
    <2> HIDE DEF tcp
    <2> QED BY <1>2, EventsPicked DEF Count, Picked
  <1>4. DDoSConfig.synAttempts \in Nat /\ DDoSConfig.synAttempts > 1
    BY DDoSNumbers
  <1>5. fires => n > 1
    BY <1>2, <1>4
  <1>6. Excess(n, DDoSConfig.synAttempts) \in Int
    <2> HIDE DEF n
    <2> QED BY <1>2, <1>4, ExcessNumber
  <1> HIDE DEF incomplete
  <1>7. fires => confidence \in Int
    <2> DEFINE x == Excess(n, DDoSConfig.synAttempts)
    <2> HIDE DEF n, x
    <2>1. x \in Int
      BY <1>6 DEF x
    <2>2. n > 1 => (20 * incomplete) \div n \in Int /\ (14 * x) \div 100 \in Int
      BY <1>2, <1>3, <2>1
    <2> QED BY <1>5, <2>2 DEF x
  <1>8. n # 0 => tcp # <<>> /\ \A x \in Range(tcp) : x.ts \in Int
    <2> HIDE DEF tcp
    <2> QED BY <1>2, SomeEvents
  <1> HIDE DEF fires, confidence, subtype, tcp
  <1>9. fires => AllHits(Hit(subtype, e.dst, tcp, confidence))
    BY <1>2, <1>5, <1>7, <1>8, HitsOne DEF Events
  <1> QED BY <1>1, <1>9, HitsNone
LEMMA SlowHits ==
  ASSUME NEW w, Events(w), NEW e
  PROVE  AllHits(SlowHttp(w, e))
  <1> DEFINE held == Picked(w, HeldOpen)
             n == Len(held)
             confidence == 70 + (14 * Excess(n, DDoSConfig.slowConnections)) \div 100
             fires == n >= DDoSConfig.slowConnections
  <1>1. SlowHttp(w, e) = IF fires THEN Hit("slow_http_connection_exhaustion", e.dst, held, confidence) ELSE <<>>
    BY DEF SlowHttp
  <1>2. Events(held) /\ n \in Nat
    BY EventsPicked DEF Picked
  <1>4. DDoSConfig.slowConnections \in Nat /\ DDoSConfig.slowConnections > 1
    BY DDoSNumbers
  <1>6. Excess(n, DDoSConfig.slowConnections) \in Int
    <2> HIDE DEF n
    <2> QED BY <1>2, <1>4, ExcessNumber
  <1>7. confidence \in Int
    <2> HIDE DEF n
    <2> QED BY <1>6
  <1>8. fires => held # <<>> /\ \A x \in Range(held) : x.ts \in Int
    <2>1. fires => n # 0
      BY <1>2, <1>4
    <2> HIDE DEF held, fires
    <2> QED BY <1>2, <2>1, SomeEvents
  <1> HIDE DEF fires, confidence, held
  <1>9. fires => AllHits(Hit("slow_http_connection_exhaustion", e.dst, held, confidence))
    BY <1>2, <1>7, <1>8, HitsOne DEF Events
  <1> QED BY <1>1, <1>9, HitsNone
LEMMA UdpHits ==
  ASSUME NEW w, Events(w), NEW e
  PROVE  AllHits(UdpFlood(w, e))
  <1> DEFINE udp == Shaped(w, "udp")
             packets == Total(udp, LAMBDA x : Max({x.packets, 1}))
             confidence == 70 + Excess(packets, DDoSConfig.udpPackets) \div 5
             fires == packets >= DDoSConfig.udpPackets
  <1>1. UdpFlood(w, e) = IF fires THEN Hit("udp_flood", e.dst, udp, confidence) ELSE <<>>
    BY DEF UdpFlood
  <1>2. Events(udp) /\ Len(udp) \in Nat
    BY EventsPicked DEF Shaped, Picked
  <1>3. packets \in Int /\ (udp = <<>> => packets = 0)
    <2> HIDE DEF udp
    <2>1. packets \in Int
      BY <1>2, PacketsNumber DEF Events
    <2>2. Packets!Result({}, 0, <<>>) = 0
      BY Packets!FoldEmpty
    <2>3. Packets!Result({}, 0, udp) = packets
      BY DEF Packets!Result, Packets!Folded, Total, Folded, PacketStep
    <2> HIDE DEF packets
    <2> QED BY <2>1, <2>2, <2>3
  <1>4. DDoSConfig.udpPackets \in Nat /\ DDoSConfig.udpPackets > 1
    BY DDoSNumbers
  <1> HIDE DEF packets
  <1>6. Excess(packets, DDoSConfig.udpPackets) \in Int
    BY <1>3, <1>4, ExcessNumber
  <1>7. confidence \in Int
    BY <1>6
  <1>8. fires => udp # <<>> /\ \A x \in Range(udp) : x.ts \in Int
    <2>1. fires => udp # <<>>
      BY <1>3, <1>4
    <2> HIDE DEF udp, fires
    <2> QED BY <1>2, <2>1 DEF Events, Good
  <1> HIDE DEF fires, confidence, udp
  <1>9. fires => AllHits(Hit("udp_flood", e.dst, udp, confidence))
    BY <1>2, <1>7, <1>8, HitsOne DEF Events
  <1> QED BY <1>1, <1>9, HitsNone
LEMMA ReflectionHits ==
  ASSUME NEW w, Events(w), NEW e, NEW strict
  PROVE  AllHits(Reflection(w, e, strict))
  <1> DEFINE udp == Picked(Shaped(w, "udp"), LAMBDA x :
                      strict => x.dport \in ReflectionServices /\ x.outbound > 0)
             request == Total(udp, LAMBDA x : x.outbound)
             response == Total(udp, LAMBDA x : x.inbound)
             n == Len(udp)
             target == IF strict THEN e.src ELSE e.dst
             confidence == 68 + (8 * Excess(n, DDoSConfig.reflectionFlows)) \div 100
             fires == /\ n >= DDoSConfig.reflectionFlows
                      /\ response >= DDoSConfig.amplification * Max({request, 1})
                      /\ response >= DDoSConfig.reflectionBytes
  <1>1. Reflection(w, e, strict) = IF fires THEN Hit("udp_reflection_amplification", target, udp, confidence) ELSE <<>>
    BY DEF Reflection
  <1>2. Events(udp) /\ n \in Nat
    <2> DEFINE shaped == Shaped(w, "udp")
    <2>1. Events(shaped)
      BY EventsPicked DEF Shaped, Picked
    <2> HIDE DEF shaped
    <2>2. \A good : Events(Chosen(shaped, good)) /\ Len(Chosen(shaped, good)) \in Nat
      BY <2>1, EventsPicked
    <2> QED BY <2>2 DEF Picked, shaped
  <1>4. DDoSConfig.reflectionFlows \in Nat /\ DDoSConfig.reflectionFlows > 1
    BY DDoSNumbers
  <1>6. Excess(n, DDoSConfig.reflectionFlows) \in Int
    <2> HIDE DEF n
    <2> QED BY <1>2, <1>4, ExcessNumber
  <1>7. confidence \in Int
    <2> HIDE DEF n
    <2> QED BY <1>6
  <1>8. fires => udp # <<>> /\ \A x \in Range(udp) : x.ts \in Int
    <2>1. fires => n # 0
      <3> HIDE DEF udp, response, request
      <3> QED BY <1>2, <1>4
    <2> HIDE DEF udp, fires
    <2> QED BY <1>2, <2>1, SomeEvents
  <1> HIDE DEF fires, confidence, udp, target
  <1>9. fires => AllHits(Hit("udp_reflection_amplification", target, udp, confidence))
    BY <1>2, <1>7, <1>8, HitsOne DEF Events
  <1> QED BY <1>1, <1>9, HitsNone
LEMMA DDoSAlertFull ==
  ASSUME NEW hit, HitFull(hit), NEW e, e.ts \in Int
  PROVE  Full(DDoSAlert(hit, e))
  <1> DEFINE f == [i \in DOMAIN hit.relevant |-> hit.relevant[i].ts]
             N == {hit.relevant[i].ts : i \in DOMAIN hit.relevant}
             start == Min(N)
  <1>1. Len(hit.relevant) \in Nat /\ DOMAIN hit.relevant = 1..Len(hit.relevant)
        /\ \A i \in 1..Len(hit.relevant) : hit.relevant[i] \in Range(hit.relevant)
    BY SeqFacts DEF HitFull
  <1>2. Len(hit.relevant) # 0
    <2>1. hit.relevant \in Seq(Range(hit.relevant))
      BY DEF HitFull, IsSeq
    <2> QED BY <2>1, EmptySeq DEF HitFull
  <1>3. N \subseteq Int /\ N # {}
    <2>1. 1 \in DOMAIN hit.relevant
      BY <1>1, <1>2
    <2>2. \A i \in DOMAIN hit.relevant : hit.relevant[i].ts \in Int
      BY <1>1 DEF HitFull
    <2> QED BY <2>1, <2>2
  <1>4. IsFiniteSet(N)
    <2>1. IsFiniteSet(1..Len(hit.relevant))
      BY <1>1, FS_Interval
    <2>2. IsFiniteSet({f[i] : i \in DOMAIN hit.relevant})
      <3> HIDE DEF f
      <3> QED BY <1>1, <2>1, ImageFinite
    <2>3. {f[i] : i \in DOMAIN hit.relevant} = N
      OBVIOUS
    <2> HIDE DEF N
    <2> QED BY <2>2, <2>3
  <1>5. start \in Int
    <2> HIDE DEF N
    <2> QED BY <1>3, <1>4, MinOfFinite
  <1>6. DDoSAlert(hit, e) =
          Alert("denial_of_service", hit.subtype, <<"ddos", hit.subtype, hit.target, start, e.ts>>,
                <<"ddos", hit.target, hit.subtype>>, e, hit.target, start, Flows(hit.relevant), hit.confidence)
    BY Zenon DEF DDoSAlert
  <1> HIDE DEF start
  <1>7. hit.confidence \in Int
    BY DEF HitFull
  <1> QED BY <1>5, <1>6, <1>7, AlertFull

DDoSGood(state) ==
  /\ Windows("connection", state.events) /\ Windows("connection", state.slow)
  /\ Windows("connection", state.reflection)
LEMMA DDoSFull ==
  ASSUME NEW state, DDoSGood(state), NEW e, Good("connection", e), NEW strict
  PROVE  DDoSGood(DDoSProcess(state, e, strict).state) /\ AllFull(DDoSProcess(state, e, strict).alerts)
  <1> DEFINE events == Added(state.events, e.dst, e, DDoSConfig.window)
             web == e.protocol = "tcp" /\ e.service = "http"
             slow == IF web THEN Added(state.slow, e.dst, e, DDoSConfig.slowWindow) ELSE state.slow
             reflecting == e.protocol = "udp" /\ strict
             reflection == IF reflecting THEN Added(state.reflection, e.src, e, DDoSConfig.window)
                           ELSE state.reflection
             back == IF strict THEN reflection[e.src] ELSE events[e.dst]
             hits == IF e.protocol = "tcp"
                     THEN SynFlood(events[e.dst], e) \o (IF web THEN SlowHttp(slow[e.dst], e) ELSE <<>>)
                     ELSE UdpFlood(events[e.dst], e) \o Reflection(back, e, strict)
             found == [i \in DOMAIN hits |-> DDoSAlert(hits[i], e)]
             said == Spaced(state.last, found, DDoSConfig.cooldown)
             answer == Answer([events |-> events, reflection |-> reflection, slow |-> slow,
                               last |-> said.last], said.alerts)
  <1>1. CASE e.protocol \notin {"tcp", "udp"}
    <2>1. DDoSProcess(state, e, strict).state = state /\ DDoSProcess(state, e, strict).alerts = <<>>
      BY <1>1 DEF DDoSProcess, Answer
    <2> QED BY <2>1, NoneFull
  <1>2. CASE e.protocol \in {"tcp", "udp"}
    <2>1. DDoSProcess(state, e, strict) = answer
      BY <1>2, Zenon DEF DDoSProcess
    <2>2. DDoSConfig.window \in Nat /\ DDoSConfig.slowWindow \in Nat
      BY DDoSConfigAssumption DEF DDoSConfigValid
    <2>3. Windows("connection", events) /\ Window("connection", events[e.dst])
      BY <2>2, AddedWindow DEF DDoSGood
    <2>4. Windows("connection", slow) /\ (web => Window("connection", slow[e.dst]))
      <3> DEFINE more == Added(state.slow, e.dst, e, DDoSConfig.slowWindow)
      <3>1. Windows("connection", more) /\ Window("connection", more[e.dst])
        BY <2>2, AddedWindow DEF DDoSGood
      <3> HIDE DEF more, web
      <3>2. slow = IF web THEN more ELSE state.slow
        BY DEF more
      <3> HIDE DEF slow
      <3> QED BY <3>1, <3>2 DEF DDoSGood
    <2>5. Windows("connection", reflection) /\ (reflecting => Window("connection", reflection[e.src]))
      <3> DEFINE more == Added(state.reflection, e.src, e, DDoSConfig.window)
      <3>1. Windows("connection", more) /\ Window("connection", more[e.src])
        BY <2>2, AddedWindow DEF DDoSGood
      <3> HIDE DEF more, reflecting
      <3>2. reflection = IF reflecting THEN more ELSE state.reflection
        BY DEF more
      <3> HIDE DEF reflection
      <3> QED BY <3>1, <3>2 DEF DDoSGood
    <2> HIDE DEF events, slow, reflection
    <2>6. AllHits(hits)
      <3>1. \A w : Window("connection", w) => Events(w)
        BY DEF Window, Events
      <3>2. CASE e.protocol = "tcp"
        <4> DEFINE more == IF web THEN SlowHttp(slow[e.dst], e) ELSE <<>>
        <4>1. AllHits(SynFlood(events[e.dst], e))
          BY <2>3, <3>1, SynHits
        <4>2. AllHits(more)
          <5> HIDE DEF web
          <5> QED BY <2>4, <3>1, SlowHits, HitsNone
        <4> HIDE DEF more
        <4>3. AllHits(SynFlood(events[e.dst], e) \o more)
          BY <4>1, <4>2, HitsBoth
        <4> QED BY <3>2, <4>3 DEF more
      <3>3. CASE e.protocol # "tcp"
        <4>1. Window("connection", back)
          BY <1>2, <2>3, <2>5, <3>3
        <4> HIDE DEF back
        <4>2. AllHits(UdpFlood(events[e.dst], e)) /\ AllHits(Reflection(back, e, strict))
          BY <2>3, <3>1, <4>1, UdpHits, ReflectionHits
        <4>3. AllHits(UdpFlood(events[e.dst], e) \o Reflection(back, e, strict))
          BY <4>2, HitsBoth
        <4> QED BY <3>3, <4>3
      <3> QED BY <3>2, <3>3
    <2> HIDE DEF hits
    <2>7. AllFull(found)
      <3>1. IsSeq(hits) /\ \A i \in DOMAIN hits : HitFull(hits[i])
        BY <2>6, SeqFacts DEF AllHits
      <3>2. \A i \in DOMAIN hits : Full(found[i])
        BY <3>1, DDoSAlertFull DEF Good
      <3>3. found = [i \in DOMAIN hits |-> found[i]]
        OBVIOUS
      <3> HIDE DEF found
      <3> QED BY <3>1, <3>2, <3>3, EachFull
    <2> HIDE DEF found
    <2>8. AllFull(said.alerts)
      BY <2>7, SaidFull
    <2> HIDE DEF said
    <2>9. /\ answer.state.events = events /\ answer.state.slow = slow
          /\ answer.state.reflection = reflection /\ answer.alerts = said.alerts
      BY DEF Answer
    <2> HIDE DEF answer
    <2> QED BY <2>1, <2>3, <2>4, <2>5, <2>8, <2>9 DEF DDoSGood
  <1> QED BY <1>1, <1>2

LEMMA MinNumber ==
  ASSUME NEW x \in Int, NEW y \in Int
  PROVE  Min({x, y}) \in Int
  BY DEF Min

(* Beacons.                                                                *)
LEMMA C2AlertFull ==
  ASSUME NEW w, Window("time", w), NEW e, e.ts \in Int, NEW sessions
  PROVE  Full(C2Alert(w, e, sessions))
  <1> DEFINE m == MetadataScore(w, sessions)
             score == Min({m, 50})
             confidence == Min({96, 68 + (8 * score) \div 100})
  <1>1. m \in Int
    BY MetadataNumber DEF Window
  <1> HIDE DEF m
  <1>2. score \in Int
    BY <1>1, MinNumber
  <1>3. C2Alert(w, e, sessions) =
          Alert("command_and_control", "periodic_beacon", <<"c2", e.src, e.dst, e.dport, w[1].ts, e.ts>>,
                <<"c2", e.src, e.dst, e.dport, e.protocol>>, e, e.dst, w[1].ts, Flows(w), confidence)
    BY Zenon DEF C2Alert, m
  <1> HIDE DEF score
  <1>4. 68 + (8 * score) \div 100 \in Int
    BY <1>2
  <1>5. confidence \in Int
    BY <1>4, MinNumber
  <1> HIDE DEF confidence
  <1>6. w[1].ts \in Int
    BY WindowFacts
  <1> QED BY <1>3, <1>5, <1>6, AlertFull
C2Good(state) == Windows("time", state.windows)
LEMMA C2Full ==
  ASSUME NEW state, C2Good(state), NEW e, e.ts \in Int, NEW sessions
  PROVE  C2Good(C2Process(state, e, sessions).state) /\ AllFull(C2Process(state, e, sessions).alerts)
  <1> DEFINE key == <<e.src, e.dst, e.dport, e.protocol>>
             windows == Added(state.windows, key, e, C2Config.window)
             found == Rule(e.dst \notin AllowedDestinations /\ Beacon(windows[key]),
                           C2Alert(windows[key], e, sessions))
             said == Spaced(state.last, found, C2Config.cooldown)
             out == e.dport = 53 \/ e.service = "dns" \/ \E r \in TrustedPeriodic : RuleMatches(r, e)
             answer == Answer([windows |-> windows, last |-> said.last], said.alerts)
  <1>1. C2Process(state, e, sessions) = IF out THEN Answer(state, <<>>) ELSE answer
    BY Zenon DEF C2Process
  <1> HIDE DEF out
  <1>2. C2Config.window \in Nat
    BY C2ConfigAssumption DEF C2ConfigValid
  <1>3. Good("time", e)
    BY DEF Good
  <1> HIDE DEF key
  <1>4. Windows("time", windows) /\ Window("time", windows[key])
    BY <1>2, <1>3, AddedWindow DEF C2Good
  <1> HIDE DEF windows
  <1>5. AllFull(found)
    BY <1>4, C2AlertFull, RuleFull
  <1> HIDE DEF found
  <1>6. AllFull(said.alerts)
    BY <1>5, SaidFull
  <1> HIDE DEF said
  <1>7. answer.state.windows = windows /\ answer.alerts = said.alerts
    BY DEF Answer
  <1>8. Answer(state, <<>>).state = state /\ Answer(state, <<>>).alerts = <<>>
    BY DEF Answer
  <1> HIDE DEF answer
  <1> QED BY <1>1, <1>4, <1>6, <1>7, <1>8, NoneFull DEF C2Good

(* Transfers.                                                              *)
LEMMA ExfilNumbers == ExfilConfig.minBytes \in Nat /\ ExfilConfig.minBytes > 0 /\ ExfilConfig.window \in Nat
  BY ExfilConfigAssumption DEF ExfilConfigValid
LEMMA ExfilAlertFull ==
  ASSUME NEW w, Window("connection", w), NEW e, e.ts \in Int
  PROVE  Full(ExfilAlert(w, e))
  <1> DEFINE m == Sent(w)
             least == ExfilConfig.minBytes
             over == Min({m - least, least})
             confidence == Min({96, 70 + (12 * over) \div least})
  <1>1. m \in Int
    BY SentNumber DEF Window
  <1>2. least \in Nat /\ least > 0
    BY ExfilNumbers
  <1>3. ExfilAlert(w, e) =
          Alert("data_exfiltration", "outbound_volume_anomaly", <<"exfil", e.src, e.dst, w[1].ts, e.ts>>,
                <<"exfil", e.src, e.dst>>, e, e.dst, w[1].ts, Flows(w), confidence)
    BY Zenon DEF ExfilAlert
  <1> HIDE DEF m, least
  <1>4. over \in Int
    BY <1>1, <1>2, MinNumber
  <1> HIDE DEF over
  <1>5. 70 + (12 * over) \div least \in Int
    BY <1>2, <1>4
  <1>6. confidence \in Int
    BY <1>5, MinNumber
  <1> HIDE DEF confidence
  <1>7. w[1].ts \in Int
    BY WindowFacts
  <1> QED BY <1>3, <1>6, <1>7, AlertFull
ExfilGood(state) == Windows("connection", state.windows)
LEMMA ExfilFull ==
  ASSUME NEW state, ExfilGood(state), NEW e, Good("connection", e)
  PROVE  ExfilGood(ExfilProcess(state, e).state) /\ AllFull(ExfilProcess(state, e).alerts)
  <1> DEFINE key == <<e.src, e.dst>>
             baseline == At(state.baselines, e.src, <<>>)
             windows == Added(state.windows, key, e, ExfilConfig.window)
             whole == <<ExfilAlert(<<e>>, e)>>
             part == Rule(/\ Len(windows[key]) >= ExfilConfig.minFlows
                          /\ Outlier(windows[key], DoubleMedian(baseline)),
                          ExfilAlert(windows[key], e))
             found == IF Huge(e) THEN whole ELSE part
             said == Spaced(state.last, found, ExfilConfig.cooldown)
             out == e.dst \in ApprovedBackup \/ \E r \in ApprovedBulk : RuleMatches(r, e)
             answer == Answer([windows |-> windows,
                               baselines |-> Put(state.baselines, e.src, Remembered(baseline, e.outbound)),
                               first |-> Put(state.first, key, At(state.first, key, e.ts)),
                               last |-> said.last], said.alerts)
  <1>1. ExfilProcess(state, e) = IF out THEN Answer(state, <<>>) ELSE answer
    BY Zenon DEF ExfilProcess
  <1> HIDE DEF out, key, baseline
  <1>2. e.ts \in Int
    BY DEF Good
  <1>3. Windows("connection", windows) /\ Window("connection", windows[key])
    BY ExfilNumbers, AddedWindow DEF ExfilGood
  <1> HIDE DEF windows
  <1>4. AllFull(whole)
    <2>1. Full(ExfilAlert(<<e>>, e))
      BY <1>2, OneWindow, ExfilAlertFull
    <2>2. \A x : IsSeq(<<x>>) /\ Range(<<x>>) = {x}
      BY DEF IsSeq, Range
    <2> QED BY <2>1, <2>2 DEF AllFull
  <1>5. AllFull(part)
    BY <1>2, <1>3, ExfilAlertFull, RuleFull
  <1> HIDE DEF whole, part
  <1>6. AllFull(found)
    BY <1>4, <1>5
  <1> HIDE DEF found
  <1>7. AllFull(said.alerts)
    BY <1>6, SaidFull
  <1> HIDE DEF said
  <1>8. answer.state.windows = windows /\ answer.alerts = said.alerts
    BY DEF Answer
  <1>9. Answer(state, <<>>).state = state /\ Answer(state, <<>>).alerts = <<>>
    BY DEF Answer
  <1> HIDE DEF answer
  <1> QED BY <1>1, <1>3, <1>7, <1>8, <1>9, NoneFull DEF ExfilGood

(* Encrypted sessions.                                                     *)
LEMMA EncryptedAlertFull ==
  ASSUME NEW w, Window("features", w), NEW e, e.ts \in Int
  PROVE  Full(EncryptedAlert(w, e))
  <1> DEFINE sum == Total(w, LAMBDA x : x.features.size + x.features.timing)
             confidence == 58 + (14 * sum) \div (100 * Len(w))
  <1>1. sum \in Int
    BY ScoresNumber DEF Window
  <1>2. Len(w) \in Nat /\ Len(w) > 0 /\ w[1].ts \in Int
    BY WindowFacts
  <1>3. EncryptedAlert(w, e) =
          Alert("encrypted_session_threat", "encrypted_session_metadata_anomaly",
                <<"encrypted", e.src, e.dst, e.fp, w[1].ts, e.ts>>, <<"encrypted", e.src, e.dst, e.fp>>,
                e, e.dst, w[1].ts, Flows(w), confidence)
    BY Zenon DEF EncryptedAlert
  <1> HIDE DEF sum
  <1>4. confidence \in Int
    BY <1>1, <1>2
  <1> HIDE DEF confidence
  <1> QED BY <1>2, <1>3, <1>4, AlertFull
EncryptedGood(state) == Windows("features", state.windows)
LEMMA EncryptedFull ==
  ASSUME NEW state, EncryptedGood(state), NEW e, e.ts \in Int, e.features # None => Good("features", e)
  PROVE  EncryptedGood(EncryptedProcess(state, e).state) /\ AllFull(EncryptedProcess(state, e).alerts)
  <1> DEFINE key == <<e.src, e.dst, e.fp>>
             windows == Added(state.windows, key, e, EncryptedConfig.window)
             found == Rule(Suspicious(windows[key]), EncryptedAlert(windows[key], e))
             said == Spaced(state.last, found, EncryptedConfig.cooldown)
             answer == Answer([windows |-> windows, last |-> said.last], said.alerts)
  <1>1. EncryptedProcess(state, e) =
          IF e.features = None \/ e.fp = None THEN Answer(state, <<>>) ELSE answer
    BY Zenon DEF EncryptedProcess
  <1>2. CASE e.features = None \/ e.fp = None
    <2>1. EncryptedProcess(state, e).state = state /\ EncryptedProcess(state, e).alerts = <<>>
      BY <1>1, <1>2 DEF Answer
    <2> QED BY <2>1, NoneFull
  <1>3. CASE ~ (e.features = None \/ e.fp = None)
    <2>1. Good("features", e)
      BY <1>3
    <2>2. EncryptedConfig.window \in Nat
      BY EncryptedSpanAssumption
    <2> HIDE DEF key
    <2>3. Windows("features", windows) /\ Window("features", windows[key])
      BY <2>1, <2>2, AddedWindow DEF EncryptedGood
    <2> HIDE DEF windows
    <2>4. AllFull(found)
      BY <2>3, EncryptedAlertFull, RuleFull
    <2> HIDE DEF found
    <2>5. AllFull(said.alerts)
      BY <2>4, SaidFull
    <2> HIDE DEF said
    <2>6. answer.state.windows = windows /\ answer.alerts = said.alerts
      BY DEF Answer
    <2> HIDE DEF answer
    <2> QED BY <1>1, <1>3, <2>3, <2>5, <2>6 DEF EncryptedGood
  <1> QED BY <1>2, <1>3

(* The features of a session are scores or what came with its record.      *)
LEMMA EnrichedGood ==
  ASSUME ScoresNumeric, NEW log, NEW e, e.ts \in Int, "ts" \in DOMAIN e,
         e.kind = "encrypted", Measured(e), NEW supplied
  PROVE  /\ Enriched(log, e, supplied).ts = e.ts
         /\ Enriched(log, e, supplied).features # None => Good("features", Enriched(log, e, supplied))
  <1> DEFINE prevalence == Prevalence(log, e)
             size == Against(SizeScore, log, e)
             timing == Against(TimingScore, log, e)
             measured == [prevalence |-> prevalence, size |-> size, timing |-> timing]
             fits == ~Repeated(log, e) /\ None \notin Range(measured)
             given == supplied /\ e.supplied # None /\ e.fp # None /\ ~e.packets /\ ~Repeated(log, e)
             attached == IF fits THEN measured ELSE IF given THEN e.supplied ELSE None
  <1>1. Enriched(log, e, supplied) = Put(e, "features", attached)
    BY DEF Enriched
  <1>2. size \in Int \cup {None} /\ timing \in Int \cup {None}
    BY DEF Against, ScoresNumeric
  <1> HIDE DEF prevalence, size, timing
  <1>3. size \in Range(measured) /\ timing \in Range(measured)
    <2>1. "size" \in DOMAIN measured /\ "timing" \in DOMAIN measured /\ measured["size"] = size /\ measured["timing"] = timing
      OBVIOUS
    <2> QED BY <2>1 DEF Range
  <1>4. None \notin Range(measured) => measured.size \in Int /\ measured.timing \in Int
    BY <1>2, <1>3
  <1>9. (fits => None \notin Range(measured)) /\ (given => e.supplied # None)
    OBVIOUS
  <1>5. e.supplied # None => e.supplied.size \in Int /\ e.supplied.timing \in Int
    BY DEF Measured, Numeric
  <1> HIDE DEF measured, fits, given
  <1>6. \/ (attached = measured /\ None \notin Range(measured))
        \/ (attached = e.supplied /\ e.supplied # None)
        \/ attached = None
    BY <1>9
  <1> HIDE DEF attached
  <1>7. attached # None => attached.size \in Int /\ attached.timing \in Int
    BY <1>4, <1>5, <1>6
  <1>8. Put(e, "features", attached).ts = e.ts /\ Put(e, "features", attached).features = attached
    BY DEF Put
  <1> QED BY <1>1, <1>7, <1>8 DEF Good


(* Look-ups.                                                               *)
DNSGood(state) ==
  /\ Windows("scored", state.model) /\ Windows("time", state.lexical)
  /\ Windows("time", state.failed) /\ Windows("time", state.queries)
LEMMA RootsFinite ==
  ASSUME NEW w, IsSeq(w)
  PROVE  Cardinality(Roots(w)) \in Nat
  <1> DEFINE f == [i \in DOMAIN w |-> w[i].root]
  <1>1. IsFiniteSet(DOMAIN w)
    BY SeqFacts, FS_Interval
  <1>2. IsFiniteSet({f[i] : i \in DOMAIN w})
    <2> HIDE DEF f
    <2> QED BY <1>1, ImageFinite
  <1>3. {f[i] : i \in DOMAIN w} = Roots(w)
    BY DEF Roots
  <1> HIDE DEF f
  <1> QED BY <1>2, <1>3, FS_CardinalityType
LEMMA CountNumber ==
  ASSUME NEW w, IsSeq(w), NEW good
  PROVE  Len(Chosen(w, good)) \in Nat
  BY PickedIsSeq
LEMMA ScoredNumber ==
  ASSUME ScoresNumeric, NEW e, Positive(e)
  PROVE  Scored(e) \in Int
  BY DEF ScoresNumeric, Positive, Scored
LEMMA ModelNumber ==
  ASSUME NEW w, Window("scored", w)
  PROVE  ModelConfidence(w) \in Int
  <1> DEFINE f == [i \in DOMAIN w |-> Scored(w[i])]
             N == {Scored(w[i]) : i \in DOMAIN w}
             n == Cardinality(Roots(w))
             most == Max(N)
             few == Min({n, 4})
             x == 55 + (15 * most) \div 100 + 5 * few
  <1>1. Len(w) > 0 /\ DOMAIN w = 1..Len(w) /\ Len(w) \in Nat /\ \A i \in DOMAIN w : Scored(w[i]) \in Int
    BY WindowFacts DEF Good
  <1>2. IsFiniteSet(N)
    <2>1. IsFiniteSet(1..Len(w))
      BY <1>1, FS_Interval
    <2>2. IsFiniteSet({f[i] : i \in DOMAIN w})
      <3> HIDE DEF f
      <3> QED BY <1>1, <2>1, ImageFinite
    <2>3. {f[i] : i \in DOMAIN w} = N
      OBVIOUS
    <2> HIDE DEF N, f
    <2> QED BY <2>2, <2>3
  <1>3. N \subseteq Int /\ N # {}
    <2>1. 1 \in DOMAIN w
      BY <1>1
    <2> QED BY <1>1, <2>1
  <1> HIDE DEF N
  <1>4. most \in Int
    BY <1>2, <1>3, MaxOfFinite
  <1>5. n \in Int
    BY RootsFinite DEF Window
  <1> HIDE DEF n, most
  <1>6. few \in Int
    BY <1>5, MinNumber
  <1>7. ModelConfidence(w) = Min({90, x})
    BY DEF ModelConfidence, most, n, N
  <1> HIDE DEF few
  <1>8. x \in Int
    BY <1>4, <1>6
  <1> HIDE DEF x
  <1> QED BY <1>7, <1>8, MinNumber
LEMMA FailedNumber ==
  ASSUME NEW w, Window("time", w)
  PROVE  FailedConfidence(w) \in Int
  <1> DEFINE n == Cardinality(Roots(w))
             few == Min({n, 20})
             fails == Failures(w)
             x == 54 + (14 * fails) \div Len(w) + few \div 2
  <1>1. Len(w) > 0 /\ Len(w) \in Nat
    BY WindowFacts
  <1>2. n \in Int
    BY RootsFinite DEF Window
  <1>3. fails \in Nat
    BY CountNumber DEF Failures, Count, Picked, Window
  <1>4. FailedConfidence(w) = Min({90, x})
    BY DEF FailedConfidence
  <1> HIDE DEF n, fails
  <1>5. few \in Int
    BY <1>2, MinNumber
  <1> HIDE DEF few
  <1>6. x \in Int
    BY <1>1, <1>3, <1>5
  <1> HIDE DEF x
  <1> QED BY <1>4, <1>6, MinNumber
LEMMA TunnelNumber ==
  ASSUME NEW w, Window("time", w)
  PROVE  TunnelConfidence(w) \in Int
  <1> DEFINE q == DNSConfig.tunnelQueries
             few == Min({Len(w), q})
             txt == TxtQueries(w)
             more == IF EncodedTxt(w) THEN 5 ELSE 0
             x == 62 + (8 * few) \div q + (8 * txt) \div Len(w) + more
  <1>1. Len(w) > 0 /\ Len(w) \in Nat
    BY WindowFacts
  <1>2. q \in Nat /\ q > 0
    BY DNSConfigAssumption DEF DNSConfigValid
  <1>3. txt \in Nat
    BY CountNumber DEF TxtQueries, Count, Picked, Window
  <1>4. TunnelConfidence(w) = Min({95, x})
    BY DEF TunnelConfidence
  <1>5. more \in Int
    OBVIOUS
  <1> HIDE DEF q, txt, more
  <1>6. few \in Int
    BY <1>1, <1>2, MinNumber
  <1> HIDE DEF few
  <1>7. x \in Int
    BY <1>1, <1>2, <1>3, <1>5, <1>6
  <1> HIDE DEF x
  <1> QED BY <1>4, <1>7, MinNumber

(* What a rule over look-ups finds.                                        *)
FindingFits(f) == Window("time", f.window) /\ f.confidence \in Int
AllFit(found) == IsSeq(found) /\ \A f \in Range(found) : FindingFits(f)
LEMMA RuleFits ==
  ASSUME NEW holds, NEW f, holds => FindingFits(f)
  PROVE  AllFit(Rule(holds, f))
  BY RuleIsSeq, EmptyIsSeq DEF AllFit, Rule
LEMMA FindingIs ==
  ASSUME NEW subtype, NEW subject, NEW w, Window("time", w), NEW confidence \in Int
  PROVE  FindingFits(Finding(subtype, subject, w, confidence))
  BY DEF FindingFits, Finding
LEMMA BothFit ==
  ASSUME NEW r, AllFit(r), NEW s, AllFit(s)
  PROVE  AllFit(r \o s)
  BY ConcatRange DEF AllFit
LEMMA TimeWindow ==
  ASSUME NEW tag, NEW w, Window(tag, w)
  PROVE  Window("time", w)
  BY DEF Window, Good
LEMMA DNSAlertFull ==
  ASSUME NEW f, FindingFits(f), NEW e, e.ts \in Int
  PROVE  Full(DNSAlert(f, e))
  <1>1. DNSAlert(f, e) =
          Alert("dns_threat", f.subtype, <<"dns", f.subtype, e.src, f.subject, e.ts>>,
                <<"dns", e.src, f.subtype, f.subject>>, e, e.dst, f.window[1].ts, Flows(f.window),
                f.confidence)
    BY Zenon DEF DNSAlert
  <1>2. f.window[1].ts \in Int /\ f.confidence \in Int
    BY WindowFacts DEF FindingFits
  <1> QED BY <1>1, <1>2, AlertFull
LEMMA JoinedIf ==
  ASSUME NEW tag, NEW map, Windows(tag, map), NEW in, NEW key, NEW e, in => Good(tag, e)
  PROVE  LET joined == IF in THEN Added(map, key, e, DNSConfig.window) ELSE map
         IN  Windows(tag, joined) /\ (in => Window(tag, joined[key]))
  <1>1. DNSConfig.window \in Nat
    BY DNSConfigAssumption DEF DNSConfigValid
  <1> QED BY <1>1, AddedWindow

LEMMA DNSFull ==
  ASSUME ScoresNumeric, NEW state, DNSGood(state), NEW e, e.ts \in Int
  PROVE  DNSGood(DNSProcess(state, e).state) /\ AllFull(DNSProcess(state, e).alerts)
  <1> DEFINE span == DNSConfig.window
             model == IF WithOutcome(e) THEN Added(state.model, e.src, e, span) ELSE state.model
             lexical == IF Lexical(e) THEN Added(state.lexical, e.src, e, span) ELSE state.lexical
             failed == IF ~Allowed(e) THEN Added(state.failed, e.src, e, span) ELSE state.failed
             queries == Added(state.queries, <<e.src, e.root>>, e, span)
             dga == "dga_like_domain"
             one == Rule(WithOutcome(e) /\ ModelCampaign(model[e.src]),
                    Finding(dga, "model-correlated-campaign", model[e.src], ModelConfidence(model[e.src])))
             two == Rule(Positive(e) /\ ~WithOutcome(e), Finding(dga, e.input, <<e>>, Scored(e)))
             three == Rule(Lexical(e) /\ LexicalCampaign(lexical[e.src]),
                       Finding(dga, "lexical-campaign", lexical[e.src], LexicalConfidence))
             four == Rule(~Allowed(e) /\ FailedCampaign(failed[e.src]),
                       Finding(dga, "failed-domain-campaign", failed[e.src], FailedConfidence(failed[e.src])))
             five == Rule(~Allowed(e) /\ Tunnel(queries[<<e.src, e.root>>]),
                       Finding("dns_tunnelling", e.root, queries[<<e.src, e.root>>],
                            TunnelConfidence(queries[<<e.src, e.root>>])))
             findings == one \o two \o three \o four \o five
             found == [i \in DOMAIN findings |-> DNSAlert(findings[i], e)]
             said == Spaced(state.last, found, DNSConfig.cooldown)
             answer == Answer([model |-> model, lexical |-> lexical, failed |-> failed, queries |-> queries,
                                  last |-> said.last], said.alerts)
  <1>1. DNSProcess(state, e) = answer
    BY Zenon DEF DNSProcess
  <1>2. Good("time", e) /\ (Positive(e) => Scored(e) \in Int)
    BY ScoredNumber DEF Good
  <1>3. WithOutcome(e) => Good("scored", e) /\ Positive(e)
    BY <1>2 DEF WithOutcome, Good
  <1>4. Windows("scored", model) /\ (WithOutcome(e) => Window("scored", model[e.src]))
    BY <1>3, JoinedIf DEF DNSGood
  <1>5. Windows("time", lexical) /\ (Lexical(e) => Window("time", lexical[e.src]))
    BY <1>2, JoinedIf DEF DNSGood
  <1>6. Windows("time", failed) /\ (~Allowed(e) => Window("time", failed[e.src]))
    BY <1>2, JoinedIf DEF DNSGood
  <1>7. Windows("time", queries) /\ Window("time", queries[<<e.src, e.root>>])
    <2>1. DNSConfig.window \in Nat
      BY DNSConfigAssumption DEF DNSConfigValid
    <2> QED BY <1>2, <2>1, AddedWindow DEF DNSGood
  <1> HIDE DEF model, lexical, failed, queries
  <1>8. AllFit(one)
    BY <1>4, ModelNumber, TimeWindow, FindingIs, RuleFits
  <1>9. AllFit(two)
    BY <1>2, OneWindow, FindingIs, RuleFits
  <1>10. AllFit(three)
    <2>1. LexicalConfidence \in Int
      BY DEF LexicalConfidence
    <2> QED BY <1>5, <2>1, FindingIs, RuleFits
  <1>11. AllFit(four)
    BY <1>6, FailedNumber, FindingIs, RuleFits
  <1>12. AllFit(five)
    BY <1>7, TunnelNumber, FindingIs, RuleFits
  <1> HIDE DEF one, two, three, four, five
  <1>13. AllFit(findings)
    <2>1. AllFit(one \o two)
      BY <1>8, <1>9, BothFit
    <2>2. AllFit(one \o two \o three)
      BY <1>10, <2>1, BothFit
    <2>3. AllFit(one \o two \o three \o four)
      BY <1>11, <2>2, BothFit
    <2> QED BY <1>12, <2>3, BothFit
  <1> HIDE DEF findings
  <1>14. AllFull(found)
    <2>1. IsSeq(findings) /\ \A i \in DOMAIN findings : FindingFits(findings[i])
      BY <1>13, SeqFacts DEF AllFit
    <2>2. \A i \in DOMAIN findings : Full(found[i])
      BY <2>1, DNSAlertFull
    <2>3. found = [i \in DOMAIN findings |-> found[i]]
      OBVIOUS
    <2> HIDE DEF found
    <2> QED BY <2>1, <2>2, <2>3, EachFull
  <1> HIDE DEF found
  <1>15. AllFull(said.alerts)
    BY <1>14, SaidFull
  <1> HIDE DEF said
  <1>16. /\ answer.state.model = model /\ answer.state.lexical = lexical /\ answer.state.failed = failed
         /\ answer.state.queries = queries /\ answer.alerts = said.alerts
    BY DEF Answer
  <1> HIDE DEF answer
  <1> QED BY <1>1, <1>4, <1>5, <1>6, <1>7, <1>15, <1>16 DEF DNSGood


-----------------------------------------------------------------------------
(* What is measured of an event survives its arrival.                      *)
LEMMA EventsMeasured ==
  ASSUME TimeInv, Arrives
  PROVE  \E e : EventSound(e) /\ Measured(e) /\ (ProcessConnection(e) \/ ProcessDNS(e) \/ ProcessEncrypted(e))
  <1>1. PICK shape \in Setup.shapes, gap \in Setup.gaps, flow \in Flow :
          LET e == Put(Put(shape, "ts", Now + gap), "flow", flow)
          IN  ProcessConnection(e) \/ ProcessDNS(e) \/ ProcessEncrypted(e)
    BY Zenon DEF Arrives
  <1>2. "kind" \in DOMAIN shape /\ Measured(shape) /\ gap \in Int /\ None \notin Int /\ Now \in Int
    BY TrafficAssumption DEF TimeInv, TrafficValid, Setup, Now
  <1> DEFINE t == Now + gap
             bare == Put(shape, "ts", t)
             e == Put(bare, "flow", flow)
             same == {"kind", "outbound", "inbound", "packets", "supplied"}
  <1>3. t \in Int /\ DOMAIN bare = DOMAIN shape \cup {"ts"} /\ bare["ts"] = t
    BY <1>2 DEF Put
  <1>4. DOMAIN e = DOMAIN bare \cup {"flow"} /\ e["ts"] = bare["ts"]
    BY <1>3 DEF Put
  <1>5. EventSound(e)
    BY <1>2, <1>3, <1>4 DEF EventSound
  <1>6. \A field \in same \cap DOMAIN shape : field \in DOMAIN e /\ e[field] = shape[field]
    <2>1. \A field \in same \cap DOMAIN shape : field \in DOMAIN bare /\ bare[field] = shape[field]
      BY DEF Put
    <2> HIDE DEF bare
    <2>2. \A field \in same \cap DOMAIN bare : field \in DOMAIN e /\ e[field] = bare[field]
      BY DEF Put
    <2> HIDE DEF e
    <2> QED BY <2>1, <2>2
  <1> HIDE DEF e, bare
  <1>7. Measured(e)
    <2>1. e.kind = shape.kind
      BY <1>2, <1>6
    <2>2. e.kind = "connection" => Numeric(e, {"outbound", "inbound", "packets"})
      BY <1>2, <1>6, <2>1 DEF Measured, Numeric
    <2>3. e.kind = "encrypted" => "supplied" \in DOMAIN shape /\ "supplied" \in DOMAIN e /\ e.supplied = shape.supplied
      BY <1>2, <1>6, <2>1 DEF Measured
    <2> QED BY <1>2, <2>1, <2>2, <2>3 DEF Measured
  <1>8. ProcessConnection(e) \/ ProcessDNS(e) \/ ProcessEncrypted(e)
    BY <1>1 DEF e, bare
  <1> QED BY <1>5, <1>7, <1>8
LEMMA ViewGood ==
  ASSUME NEW scope, NEW e, EventSound(e), Measured(e), e.kind = "connection"
  PROVE  Good("connection", e) /\ (View(scope, e) # None => Good("connection", View(scope, e)))
  <1>1. {"ts", "outbound", "inbound", "packets"} \subseteq DOMAIN e /\ Good("connection", e)
    BY DEF EventSound, Measured, Numeric, Good
  <1>2. Good("connection", Swapped(e))
    <2>1. /\ Swapped(e).ts = e.ts /\ Swapped(e).outbound = e.inbound
          /\ Swapped(e).inbound = e.outbound /\ Swapped(e).packets = e.packets
      BY <1>1 DEF Swapped
    <2> QED BY <1>1, <2>1 DEF Good
  <1>3. View(scope, e) = None \/ View(scope, e) = e \/ View(scope, e) = Swapped(e)
    <2> HIDE DEF Direction, Swapped
    <2> QED BY DEF View
  <1> QED BY <1>1, <1>2, <1>3

LEMMA NamedFull ==
  ASSUME NEW found, AllFull(found), NEW e
  PROVE  AllFull(WithNames(found, e))
  <1> DEFINE named == WithNames(found, e)
  <1>1. named = [i \in DOMAIN found |-> [found[i] EXCEPT !.names = Named(e)]]
    BY DEF WithNames
  <1>2. IsSeq(found) /\ \A i \in DOMAIN found : Full(found[i])
    BY SeqFacts DEF AllFull
  <1>3. \A a, names : Full(a) => Full([a EXCEPT !.names = names])
    <2> TAKE a, names
    <2> DEFINE b == [a EXCEPT !.names = names]
    <2>1. DOMAIN b = DOMAIN a /\ \A k \in DOMAIN a : k # "names" => b[k] = a[k]
      OBVIOUS
    <2> HIDE DEF b
    <2>2. Full(a) => Full(b)
      BY <2>1 DEF Full
    <2> QED BY <2>2 DEF b
  <1> HIDE DEF named
  <1>4. \A i \in DOMAIN found : Full(named[i])
    BY <1>1, <1>2, <1>3
  <1>5. named = [i \in DOMAIN found |-> named[i]]
    BY <1>1
  <1>6. AllFull(named)
    BY <1>2, <1>4, <1>5, EachFull
  <1> QED BY <1>6 DEF named

StatesGood ==
  /\ ReconGood(recon) /\ DDoSGood(ddos) /\ C2Good(c2) /\ DNSGood(dns) /\ ExfilGood(exfil)
  /\ EncryptedGood(encrypted)
FullInv == session \in Int /\ AllFull(alerts) /\ StatesGood

LEMMA FullInit == Init => FullInv
  <1> SUFFICES ASSUME Init PROVE FullInv
    OBVIOUS
  <1>1. /\ recon.contacts = <<>> /\ ddos.events = <<>> /\ ddos.slow = <<>> /\ ddos.reflection = <<>>
        /\ c2.windows = <<>> /\ encrypted.windows = <<>> /\ exfil.windows = <<>>
    BY DEF Init, ReconFresh, DDoSFresh, C2Fresh, EncryptedFresh, ExfilFresh
  <1>2. dns.model = <<>> /\ dns.lexical = <<>> /\ dns.failed = <<>> /\ dns.queries = <<>>
    BY DEF Init, DNSFresh
  <1>3. IsFiniteSet(DOMAIN recon.contacts)
    <2>1. DOMAIN <<>> = {}
      OBVIOUS
    <2> QED BY <1>1, <2>1, FS_EmptySet
  <1>4. StatesGood
    BY <1>1, <1>2, <1>3, NoWindows
       DEF StatesGood, ReconGood, DDoSGood, C2Good, DNSGood, ExfilGood, EncryptedGood
  <1>5. session \in Int /\ AllFull(alerts)
    BY NoneFull DEF Init
  <1> QED BY <1>4, <1>5 DEF FullInv

(* What an event adds to the session's alerts.                             *)
Adds(found) == AllFull(found) /\ alerts' = alerts \o found /\ UNCHANGED <<finished, session>>
LEMMA RecordsAdds ==
  ASSUME NEW e, NEW found, NEW loud, Records(e, found, loud), AllFull(found)
  PROVE  Adds(found)
  BY DEF Records, Adds
LEMMA ConnectionFull ==
  ASSUME StatesGood, NEW e, EventSound(e), Measured(e), ProcessConnection(e)
  PROVE  StatesGood' /\ \E found : Adds(found)
  <1> DEFINE s == States
             met == Seen(e)
             v == View(Setup, e)
             said == Said(e)
  <1>0. e.kind = "connection"
    BY ConnectionStates
  <1>1. s.recon = recon /\ s.ddos = ddos /\ s.c2 = c2 /\ s.exfil = exfil
    BY DEF States
  <1>2. e.ts \in Int /\ Good("connection", e) /\ (v # None => Good("connection", v))
    BY <1>0, ViewGood DEF EventSound
  <1> HIDE DEF s, met, v
  <1>3. /\ said.recon = IF On("recon") THEN ReconProcess(recon, e) ELSE Answer(recon, <<>>)
        /\ said.ddos = IF On("ddos") THEN DDoSProcess(ddos, e, Setup.strict) ELSE Answer(ddos, <<>>)
        /\ said.c2 = IF On("c2") THEN C2Process(c2, e, met) ELSE Answer(c2, <<>>)
        /\ said.exfil = IF On("exfiltration") /\ v # None THEN ExfilProcess(exfil, v) ELSE Answer(exfil, <<>>)
    BY <1>1 DEF Said, Connection, s, met, v
  <1>4. \A state : Answer(state, <<>>).state = state /\ Answer(state, <<>>).alerts = <<>>
    BY DEF Answer
  <1> HIDE DEF said
  <1>5. ReconGood(said.recon.state) /\ AllFull(said.recon.alerts)
    BY <1>2, <1>3, <1>4, ReconFull, NoneFull DEF StatesGood
  <1>6. DDoSGood(said.ddos.state) /\ AllFull(said.ddos.alerts)
    BY <1>2, <1>3, <1>4, DDoSFull, NoneFull DEF StatesGood
  <1>7. C2Good(said.c2.state) /\ AllFull(said.c2.alerts)
    BY <1>2, <1>3, <1>4, C2Full, NoneFull DEF StatesGood
  <1>8. ExfilGood(said.exfil.state) /\ AllFull(said.exfil.alerts)
    BY <1>2, <1>3, <1>4, ExfilFull, NoneFull DEF StatesGood
  <1>9. AllFull(Raised(said))
    <2>1. AllFull(said.recon.alerts \o said.ddos.alerts)
      BY <1>5, <1>6, ConcatFull
    <2>2. AllFull(said.recon.alerts \o said.ddos.alerts \o said.c2.alerts)
      BY <1>7, <2>1, ConcatFull
    <2>3. AllFull(said.recon.alerts \o said.ddos.alerts \o said.c2.alerts \o said.exfil.alerts)
      BY <1>8, <2>2, ConcatFull
    <2> QED BY <2>3 DEF Raised
  <1>10. AllFull(WithNames(Raised(said), e))
    BY <1>9, NamedFull
  <1>11. /\ recon' = said.recon.state /\ ddos' = said.ddos.state
         /\ c2' = said.c2.state /\ exfil' = said.exfil.state
         /\ Records(e, WithNames(Raised(said), e), Raised(Free(e)))
         /\ UNCHANGED <<context, dns, features, encrypted>>
    BY Zenon DEF ProcessConnection, said, Said, Free, States, Seen
  <1>12. Adds(WithNames(Raised(said), e))
    BY <1>10, <1>11, RecordsAdds
  <1>13. StatesGood'
    BY <1>5, <1>6, <1>7, <1>8, <1>11
       DEF StatesGood, ReconGood, DDoSGood, C2Good, DNSGood, ExfilGood, EncryptedGood, Windows
  <1> QED BY <1>12, <1>13
LEMMA LookUpFull ==
  ASSUME ScoresNumeric, StatesGood, NEW e, EventSound(e), ProcessDNS(e)
  PROVE  StatesGood' /\ \E found : Adds(found)
  <1> DEFINE new == IF On("dns") THEN DNSProcess(dns, e) ELSE Answer(dns, <<>>)
             uncooled == IF On("dns") THEN DNSProcess(Uncooled(dns), e).alerts ELSE <<>>
  <1>1. /\ dns' = new.state /\ Records(e, new.alerts, uncooled)
        /\ UNCHANGED <<recon, ddos, c2, exfil, features, encrypted>>
    BY Zenon DEF ProcessDNS
  <1>2. Answer(dns, <<>>).state = dns /\ Answer(dns, <<>>).alerts = <<>> /\ e.ts \in Int
    BY DEF Answer, EventSound
  <1> HIDE DEF uncooled
  <1>3. DNSGood(new.state) /\ AllFull(new.alerts)
    <2>1. CASE On("dns")
      BY <1>2, <2>1, DNSFull DEF StatesGood
    <2>2. CASE ~On("dns")
      BY <1>2, <2>2, NoneFull DEF StatesGood
    <2> QED BY <2>1, <2>2
  <1> HIDE DEF new
  <1>4. Adds(new.alerts)
    BY <1>1, <1>3, RecordsAdds
  <1>5. StatesGood'
    BY <1>1, <1>3
       DEF StatesGood, ReconGood, DDoSGood, C2Good, DNSGood, ExfilGood, EncryptedGood, Windows
  <1> QED BY <1>4, <1>5
LEMMA SessionFull ==
  ASSUME ScoresNumeric, StatesGood, NEW e, EventSound(e), Measured(e), ProcessEncrypted(e)
  PROVE  StatesGood' /\ \E found : Adds(found)
  <1> DEFINE rich == Enrich(features, e, ~Setup.derived)
             x == rich.event
             new == IF On("encrypted") THEN EncryptedProcess(encrypted, x) ELSE Answer(encrypted, <<>>)
             uncooled == IF On("encrypted") THEN EncryptedProcess(Uncooled(encrypted), x).alerts ELSE <<>>
  <1>1. /\ e.kind = "encrypted" /\ encrypted' = new.state
        /\ Records(x, WithNames(new.alerts, e), uncooled)
        /\ UNCHANGED <<context, recon, ddos, c2, dns, exfil>>
    BY Zenon DEF ProcessEncrypted
  <1>2. x.ts \in Int /\ (x.features # None => Good("features", x))
    <2>1. \E log, supplied : x = Enriched(log, e, supplied)
      BY DEF Enrich
    <2>2. e.ts \in Int /\ "ts" \in DOMAIN e
      BY DEF EventSound
    <2> HIDE DEF x
    <2> QED BY <1>1, <2>1, <2>2, EnrichedGood
  <1>3. Answer(encrypted, <<>>).state = encrypted /\ Answer(encrypted, <<>>).alerts = <<>>
    BY DEF Answer
  <1> HIDE DEF uncooled, x
  <1>4. EncryptedGood(new.state) /\ AllFull(new.alerts)
    <2>1. CASE On("encrypted")
      BY <1>2, <2>1, EncryptedFull DEF StatesGood
    <2>2. CASE ~On("encrypted")
      BY <1>3, <2>2, NoneFull DEF StatesGood
    <2> QED BY <2>1, <2>2
  <1> HIDE DEF new
  <1>5. AllFull(WithNames(new.alerts, e))
    BY <1>4, NamedFull
  <1>6. Adds(WithNames(new.alerts, e))
    BY <1>1, <1>5, RecordsAdds
  <1>7. StatesGood'
    BY <1>1, <1>4
       DEF StatesGood, ReconGood, DDoSGood, C2Good, DNSGood, ExfilGood, EncryptedGood, Windows
  <1> QED BY <1>6, <1>7
LEMMA ArrivalFull ==
  ASSUME ScoresNumeric, TimeInv, FullInv, Arrives
  PROVE  ~finished /\ StatesGood' /\ \E found : Adds(found)
  <1>1. PICK e : /\ EventSound(e) /\ Measured(e)
                 /\ ProcessConnection(e) \/ ProcessDNS(e) \/ ProcessEncrypted(e)
    BY EventsMeasured
  <1>2. StatesGood' /\ \E found : Adds(found)
    BY <1>1, ConnectionFull, LookUpFull, SessionFull DEF FullInv
  <1>3. ~finished
    BY <1>1 DEF ProcessConnection, ProcessDNS, ProcessEncrypted, Accepts
  <1> QED BY <1>2, <1>3
LEMMA FullStep ==
  ASSUME ScoresNumeric, SessionInv, RestartInv, FullInv, [Next]_vars
  PROVE  FullInv'
  <1>1. CASE Arrives
    <2>1. StatesGood' /\ \E found : Adds(found)
      BY <1>1, ArrivalFull DEF SessionInv
    <2>2. PICK found : Adds(found)
      BY <2>1
    <2>3. AllFull(alerts \o found)
      BY <2>2, ConcatFull DEF FullInv, Adds
    <2> QED BY <2>1, <2>2, <2>3 DEF FullInv, Adds, AllFull
  <1>2. CASE Complete \/ UNCHANGED vars
    <2>1. UNCHANGED <<session, alerts, recon, ddos, c2, dns, exfil, encrypted>>
      BY <1>2 DEF Complete, vars, detectors
    <2> QED BY <2>1 DEF FullInv, AllFull, StatesGood, ReconGood, DDoSGood, C2Good, DNSGood, ExfilGood,
                        EncryptedGood, Windows
  <1>3. CASE Resume
    <2>1. /\ Setup.enabled = {"exfiltration"} /\ alerts' = <<>> /\ session' = session + 1
          /\ recon' = ReconFresh /\ ddos' = DDoSFresh /\ c2' = C2Fresh /\ dns' = DNSFresh
          /\ encrypted' = EncryptedFresh /\ exfil' = Restore(Export(exfil))
      BY <1>3 DEF Resume
    <2>2. UNCHANGED <<recon, ddos, c2, dns, encrypted>>
      BY <2>1 DEF SessionInv, IdleInv, On
    <2>3. exfil' = exfil
      BY <2>1, KeptSound DEF RestartInv
    <2>4. session' \in Int /\ AllFull(alerts)'
      BY <2>1, NoneFull DEF FullInv, AllFull
    <2> QED BY <2>2, <2>3, <2>4 DEF FullInv, AllFull, StatesGood, ReconGood, DDoSGood, C2Good, DNSGood, ExfilGood,
                        EncryptedGood, Windows
  <1> QED BY <1>1, <1>2, <1>3 DEF Next

(* The scans still open when the session completes.                        *)
OpenStep(state, found, src) ==
  found \o (LET c == state.contacts[src] IN ScanAlerts(c, Last(c)))
Open(state, found) == AllFull(found)
Opening == INSTANCE FoldProofs WITH Op <- OpenStep, Holds <- Open
LEMMA SnapshotsFull ==
  ASSUME NEW state, ReconGood(state)
  PROVE  AllFull(FinalAlerts(state))
  <1> DEFINE srcs == SetToSeq(DOMAIN state.contacts)
  <1>1. IsSeq(srcs) /\ Range(srcs) \subseteq DOMAIN state.contacts
    BY SetToSeqRange DEF ReconGood
  <1> HIDE DEF srcs
  <1>2. Len(srcs) \in Nat /\ \A i \in 1..Len(srcs) : srcs[i] \in DOMAIN state.contacts
    BY <1>1, SeqFacts
  <1>3. ASSUME NEW i \in 1..Len(srcs), NEW acc, Open(state, acc)
        PROVE  Open(state, OpenStep(state, acc, srcs[i]))
    <2> DEFINE c == state.contacts[srcs[i]]
    <2>1. Window("time", c)
      BY <1>2 DEF ReconGood, Windows
    <2> HIDE DEF c
    <2>2. Last(c).ts \in Int
      <3>1. Len(c) \in 1..Len(c) /\ Last(c) = c[Len(c)]
        BY <2>1, WindowFacts DEF Last
      <3> QED BY <2>1, <3>1, WindowFacts DEF Good
    <2>3. AllFull(ScanAlerts(c, Last(c)))
      BY <2>1, <2>2, ScanAlertsFull
    <2>4. OpenStep(state, acc, srcs[i]) = acc \o ScanAlerts(c, Last(c))
      BY DEF OpenStep, c
    <2> QED BY <1>3, <2>3, <2>4, ConcatFull DEF Open
  <1>4. Open(state, <<>>)
    BY NoneFull DEF Open
  <1>5. Open(state, Opening!Result(state, <<>>, srcs))
    BY <1>2, <1>3, <1>4, Opening!FoldInvariant
  <1>6. FinalAlerts(state) = Opening!Result(state, <<>>, srcs)
    BY DEF FinalAlerts, Opening!Result, Opening!Folded, Folded, OpenStep, srcs
  <1> QED BY <1>5, <1>6 DEF Open

(* More alerts leave the findings standing.                                *)
Standing(before, after) ==
  \A f \in Range(before) :
    \/ \E g \in Range(after) : Widens(f, g)
    \/ /\ f.subtype \in SynFloods
       /\ \E r \in Range(after) :
            r.type = "reconnaissance" /\ r.src = f.src /\ r.flows \cap f.flows # {}
LEMMA MoreAlerts ==
  ASSUME NEW A, AllFull(A), NEW found, AllFull(found)
  PROVE  Standing(ResolveFindings(A), ResolveFindings(A \o found))
  <1>1. AllFull(A \o found) /\ Range(A) \subseteq Range(A \o found) /\ IsSeq(A)
    BY ConcatFull, ConcatRange DEF AllFull
  <1> QED BY <1>1, FindingsWiden DEF Standing, AllFull
LEMMA SurvivalStep ==
  ASSUME ScoresNumeric, TimeInv, FullInv, Next, session' = session
  PROVE  Standing(CurrentFindings, CurrentFindings')
  <1>1. CASE Arrives
    <2>1. PICK found : Adds(found) /\ ~finished
      BY <1>1, ArrivalFull
    <2>2. CurrentFindings = ResolveFindings(alerts) /\ CurrentFindings' = ResolveFindings(alerts \o found)
      BY <2>1 DEF CurrentFindings, Adds
    <2> QED BY <2>1, <2>2, MoreAlerts DEF FullInv, Adds
  <1>2. CASE Complete
    <2>1. AllFull(Snapshots)
      BY SnapshotsFull, NoneFull DEF Snapshots, FullInv, StatesGood
    <2>2. CurrentFindings = ResolveFindings(alerts) /\ CurrentFindings' = ResolveFindings(alerts \o Snapshots)
      BY <1>2 DEF CurrentFindings, Complete
    <2> QED BY <2>1, <2>2, MoreAlerts DEF FullInv
  <1>3. CASE Resume
    BY <1>3 DEF Resume, FullInv
  <1> QED BY <1>1, <1>2, <1>3 DEF Next


(* For any profile, traffic, thresholds and models whose scores are        *)
(* numbers: a finding shown at some moment is in every later view of the   *)
(* session, completed or not, with its flows, its time and at least its    *)
(* confidence, unless it is a SYN flood whose flows a scan explains        *)
(* (StreamingAnalysisSession.findings, _resolve_findings of pipeline.py).  *)
THEOREM FindingsNeverVanish == ScoresNumeric => (Spec => FindingsSurvive)
  <1> SUFFICES ASSUME ScoresNumeric PROVE Spec => FindingsSurvive
    OBVIOUS
  <1> DEFINE Inv == SessionInv /\ RestartInv /\ FullInv
             Survives ==
               session' = session =>
                 \A f \in Range(CurrentFindings) :
                   \/ \E g \in Range(CurrentFindings') : Widens(f, g)
                   \/ /\ f.subtype \in SynFloods
                      /\ \E r \in Range(CurrentFindings') :
                           r.type = "reconnaissance" /\ r.src = f.src /\ r.flows \cap f.flows # {}
  <1>1. Init => Inv
    BY SessionInit, RestartInit, FullInit
  <1>2. Inv /\ [Next]_vars => Inv'
    BY SessionStep, RestartStep, FullStep
  <1>3. Inv /\ [Next]_vars => [Survives]_vars
    <2> SUFFICES ASSUME Inv, [Next]_vars, session' = session, vars' # vars PROVE Survives
      OBVIOUS
    <2>1. Standing(CurrentFindings, CurrentFindings')
      BY SurvivalStep DEF SessionInv
    <2> QED BY <2>1, Zenon DEF Standing
  <1> HIDE DEF Inv
  <1>4. FindingsSurvive <=> [][Survives]_vars
    BY DEF FindingsSurvive
  <1> HIDE DEF Survives
  <1>5. Spec => [][Survives]_vars
    BY <1>1, <1>2, <1>3, PTL DEF Spec
  <1> QED BY <1>4, <1>5

-----------------------------------------------------------------------------
(* What the id of an alert tells of it, and how its times lie: an alert    *)
(* ends at its event, and starts no later when its window holds nothing    *)
(* from after it.                                                          *)

ReconLabel(a) ==
  /\ a.type = "reconnaissance" /\ a.id = <<"recon", a.subtype, a.src, a.start, a.end>>
  /\ a.cool = <<"recon", a.src, a.subtype>>
DDoSLabel(a) ==
  /\ a.type = "denial_of_service" /\ a.id = <<"ddos", a.subtype, a.dst, a.start, a.end>>
  /\ a.cool = <<"ddos", a.dst, a.subtype>>
DNSLabel(a) ==
  /\ a.type = "dns_threat" /\ a.id = <<"dns", a.subtype, a.src, a.id[4], a.end>>
  /\ a.cool = <<"dns", a.src, a.subtype, a.id[4]>>
(* Of these the id alone tells the family.                                 *)
PlainLabel(a) ==
  \/ /\ a.type = "command_and_control" /\ a.subtype = "periodic_beacon"
     /\ a.id = <<"c2", a.src, a.dst, a.id[4], a.start, a.end>>
  \/ /\ a.type = "data_exfiltration" /\ a.subtype = "outbound_volume_anomaly"
     /\ a.id = <<"exfil", a.src, a.dst, a.start, a.end>>
  \/ /\ a.type = "encrypted_session_threat" /\ a.subtype = "encrypted_session_metadata_anomaly"
     /\ a.id = <<"encrypted", a.src, a.dst, a.id[4], a.start, a.end>>
Labelled(a) ==
  /\ {"id", "type", "subtype", "cool", "src", "dst", "start", "end"} \subseteq DOMAIN a
  /\ ReconLabel(a) \/ DDoSLabel(a) \/ DNSLabel(a) \/ PlainLabel(a)
Marked(a, ts, fw) == Labelled(a) /\ a.end = ts /\ (fw => a.start <= ts)
AllMarked(found, ts, fw) == IsSeq(found) /\ \A a \in Range(found) : Marked(a, ts, fw)

LEMMA NoneMarked == \A ts, fw : AllMarked(<<>>, ts, fw)
  BY EmptyIsSeq DEF AllMarked
LEMMA RuleMarked ==
  ASSUME NEW ts, NEW fw, NEW holds, NEW x, holds => Marked(x, ts, fw)
  PROVE  AllMarked(Rule(holds, x), ts, fw)
  BY RuleIsSeq, EmptyIsSeq DEF AllMarked, Rule
LEMMA EachMarked ==
  ASSUME NEW ts, NEW fw, NEW hits, IsSeq(hits), NEW found, found = [i \in DOMAIN hits |-> found[i]],
         \A i \in DOMAIN hits : Marked(found[i], ts, fw)
  PROVE  AllMarked(found, ts, fw)
  <1>1. Len(hits) \in Nat /\ DOMAIN hits = 1..Len(hits)
    BY SeqFacts
  <1>2. found \in [1..Len(hits) -> Range(found)] /\ DOMAIN found = 1..Len(hits)
    BY <1>1 DEF Range
  <1>3. found \in Seq(Range(found))
    BY <1>1, <1>2
  <1>4. \A x \in Range(found) : \E i \in DOMAIN hits : x = found[i]
    BY <1>1, <1>2 DEF Range
  <1> QED BY <1>3, <1>4 DEF AllMarked, IsSeq
LEMMA SaidMarked ==
  ASSUME NEW ts, NEW fw, NEW last, NEW found, AllMarked(found, ts, fw), NEW cooldown
  PROVE  AllMarked(Spaced(last, found, cooldown).alerts, ts, fw)
  BY SpacedWithin DEF AllMarked
LEMMA ConcatMarked ==
  ASSUME NEW ts, NEW fw, NEW r, AllMarked(r, ts, fw), NEW s, AllMarked(s, ts, fw)
  PROVE  AllMarked(r \o s, ts, fw)
  BY ConcatRange DEF AllMarked

LEMMA AlertParts ==
  ASSUME NEW type, NEW subtype, NEW id, NEW cool, NEW event, NEW dst, NEW start, NEW flows, NEW confidence
  PROVE  LET a == Alert(type, subtype, id, cool, event, dst, start, flows, confidence)
         IN  /\ {"id", "type", "subtype", "cool", "src", "dst", "start", "end"} \subseteq DOMAIN a
             /\ a.type = type /\ a.subtype = subtype /\ a.id = id /\ a.cool = cool /\ a.src = event.src
             /\ a.dst = dst /\ a.start = start /\ a.end = event.ts
  BY DEF Alert
(* Naming an alert leaves all of this as it is.                            *)
LEMMA NamedMarked ==
  ASSUME NEW ts, NEW fw, NEW found, AllMarked(found, ts, fw), NEW e
  PROVE  AllMarked(WithNames(found, e), ts, fw)
  <1> DEFINE named == WithNames(found, e)
  <1>1. named = [i \in DOMAIN found |-> [found[i] EXCEPT !.names = Named(e)]]
    BY DEF WithNames
  <1>2. IsSeq(found) /\ \A i \in DOMAIN found : Marked(found[i], ts, fw)
    BY SeqFacts DEF AllMarked
  <1>3. \A a, names : Marked(a, ts, fw) => Marked([a EXCEPT !.names = names], ts, fw)
    <2> TAKE a, names
    <2> DEFINE b == [a EXCEPT !.names = names]
    <2>1. DOMAIN b = DOMAIN a /\ \A k \in DOMAIN a : k # "names" => b[k] = a[k]
      OBVIOUS
    <2> HIDE DEF b
    <2>2. Labelled(a) => /\ {"id", "type", "subtype", "cool", "src", "dst", "start", "end"} \subseteq DOMAIN b
                         /\ b.id = a.id /\ b.type = a.type /\ b.subtype = a.subtype /\ b.cool = a.cool
                         /\ b.src = a.src /\ b.dst = a.dst /\ b.start = a.start /\ b.end = a.end
      BY <2>1 DEF Labelled
    <2>3. Marked(a, ts, fw) => Marked(b, ts, fw)
      BY <2>2 DEF Marked, Labelled, ReconLabel, DDoSLabel, DNSLabel, PlainLabel
    <2> QED BY <2>3 DEF b
  <1> HIDE DEF named
  <1>4. \A i \in DOMAIN found : Marked(named[i], ts, fw)
    BY <1>1, <1>2, <1>3
  <1>5. named = [i \in DOMAIN found |-> named[i]]
    BY <1>1
  <1>6. AllMarked(named, ts, fw)
    BY <1>2, <1>4, <1>5, EachMarked
  <1> QED BY <1>6 DEF named

(* Windows that hold nothing from after t.                                 *)
Dated(t, map) == \A k \in DOMAIN map : Latest(map[k], t)
LEMMA EvictedFrom ==
  ASSUME NEW tag, NEW w, Window(tag, w), NEW cutoff \in Int, cutoff <= Last(w).ts
  PROVE  Range(Evicted(w, cutoff)) \subseteq Range(w) /\ Last(Evicted(w, cutoff)) = Last(w)
  <1> DEFINE kept == {i \in DOMAIN w : w[i].ts >= cutoff}
             k == Min(kept)
             n == Len(w)
             s == SubSeq(w, k, n)
  <1>1. n \in Nat /\ n > 0 /\ DOMAIN w = 1..n /\ Last(w) = w[n]
    BY WindowFacts DEF Last
  <1>2. n \in kept /\ kept \subseteq Nat
    <2>1. n \in 1..n /\ w[n].ts \in Int
      BY <1>1, WindowFacts DEF Good
    <2> QED BY <1>1, <2>1
  <1>3. k \in kept
    <2> HIDE DEF kept
    <2> QED BY <1>2, MinOfNat
  <1>4. k \in 1..n
    BY <1>1, <1>3
  <1>5. Evicted(w, cutoff) = s
    BY <1>2 DEF Evicted
  <1> HIDE DEF k, kept
  <1>6. Range(s) \subseteq Range(w)
    BY <1>1, <1>4, SubSeqIsSeq DEF Window
  <1>7. /\ Len(s) = n - k + 1
        /\ \A i \in 1..(n - k + 1) : s[i] = w[k + i - 1]
    <2>1. \A i \in k..n : w[i] \in Range(w)
      BY <1>1, <1>4, SeqFacts DEF Window
    <2>2. /\ Len(s) = IF k <= n THEN n - k + 1 ELSE 0
          /\ \A i \in 1..(n - k + 1) : s[i] = w[k + i - 1]
      BY <1>1, <1>4, <2>1, SubSeqProperties
    <2> QED BY <1>1, <1>4, <2>2
  <1>8. Last(s) = w[n]
    <2>1. n - k + 1 \in 1..(n - k + 1) /\ k + (n - k + 1) - 1 = n
      BY <1>1, <1>4
    <2>2. s[n - k + 1] = w[n]
      BY <1>7, <2>1
    <2> HIDE DEF s
    <2> QED BY <1>7, <2>2 DEF Last
  <1> QED BY <1>1, <1>5, <1>6, <1>8
LEMMA AddedDated ==
  ASSUME NEW tag, NEW map, Windows(tag, map), NEW key, NEW e, Good(tag, e), NEW span \in Nat,
         NEW t, Dated(t, map), e.ts <= t
  PROVE  Dated(t, Added(map, key, e, span)) /\ Latest(Added(map, key, e, span)[key], t)
  <1> DEFINE old == At(map, key, <<>>)
             w == Inserted(old, e)
             kept == Evicted(w, Last(w).ts - span)
             k == Max({0} \cup {i \in DOMAIN old : old[i].ts <= e.ts})
  <1>1. IsSeq(old) /\ (\A x \in Range(old) : Good(tag, x)) /\ Latest(old, t)
    BY AtWindow, EmptyIsSeq DEF At, Dated, Latest
  <1> HIDE DEF old
  <1>2. Window(tag, w)
    BY <1>1, JoinedWindow
  <1>3. Range(w) = Range(old) \cup {e}
    <2>1. k \in 0..Len(old)
      BY <1>1, LastOf
    <2>2. w = InsertAt(old, k + 1, e)
      BY DEF Inserted
    <2> HIDE DEF k, w
    <2> QED BY <1>1, <2>1, <2>2, InsertKeeps
  <1>4. Last(w).ts - span \in Int /\ Last(w).ts - span <= Last(w).ts
    <2> HIDE DEF w
    <2>1. Len(w) \in 1..Len(w) /\ Last(w) = w[Len(w)]
      BY <1>2, WindowFacts DEF Last
    <2>2. Last(w).ts \in Int
      BY <1>2, <2>1, WindowFacts DEF Good
    <2> QED BY <2>2
  <1>5. Range(kept) \subseteq Range(w)
    <2> HIDE DEF w
    <2> QED BY <1>2, <1>4, EvictedFrom
  <1>6. Latest(kept, t)
    BY <1>1, <1>3, <1>5 DEF Latest
  <1>7. Added(map, key, e, span) = Put(map, key, kept)
    BY Zenon DEF Added, old
  <1> HIDE DEF kept
  <1> QED BY <1>6, <1>7 DEF Put, Dated
LEMMA WindowStarts ==
  ASSUME NEW tag, NEW w, Window(tag, w), NEW t, Latest(w, t)
  PROVE  w[1].ts <= t
  <1>1. 1 \in 1..Len(w) /\ IsSeq(w)
    BY WindowFacts DEF Window
  <1> QED BY <1>1, SeqFacts DEF Latest
LEMMA OneLatest == \A e, t : e.ts <= t => Latest(<<e>>, t)
  <1>1. \A e : Range(<<e>>) = {e}
    BY DEF Range
  <1> QED BY <1>1 DEF Latest

(* Beacons.                                                                *)
LEMMA C2AlertMarked ==
  ASSUME NEW w, Window("time", w), NEW e, NEW sessions, NEW fw, fw => Latest(w, e.ts)
  PROVE  Marked(C2Alert(w, e, sessions), e.ts, fw)
  <1> DEFINE confidence == Min({96, 68 + (8 * Min({MetadataScore(w, sessions), 50})) \div 100})
             id == <<"c2", e.src, e.dst, e.dport, w[1].ts, e.ts>>
             a == C2Alert(w, e, sessions)
  <1>1. a = Alert("command_and_control", "periodic_beacon", id,
                  <<"c2", e.src, e.dst, e.dport, e.protocol>>, e, e.dst, w[1].ts, Flows(w), confidence)
    BY Zenon DEF C2Alert
  <1> HIDE DEF confidence, a, id
  <1>2. /\ {"id", "type", "subtype", "cool", "src", "dst", "start", "end"} \subseteq DOMAIN a
        /\ a.type = "command_and_control" /\ a.subtype = "periodic_beacon" /\ a.id = id
        /\ a.src = e.src /\ a.dst = e.dst /\ a.start = w[1].ts /\ a.end = e.ts
    BY <1>1, AlertParts
  <1>3. a.id[4] = e.dport
    BY <1>2 DEF id
  <1>4. PlainLabel(a)
    BY <1>2, <1>3 DEF PlainLabel, id
  <1>5. fw => a.start <= e.ts
    BY <1>2, WindowStarts
  <1> QED BY <1>2, <1>4, <1>5 DEF Marked, Labelled, a
LEMMA C2Marked ==
  ASSUME NEW state, C2Good(state), NEW e, e.ts \in Int, NEW sessions, NEW fw, Dated(e.ts, state.windows)
  PROVE  /\ Dated(e.ts, C2Process(state, e, sessions).state.windows)
         /\ AllMarked(C2Process(state, e, sessions).alerts, e.ts, fw)
  <1> DEFINE key == <<e.src, e.dst, e.dport, e.protocol>>
             windows == Added(state.windows, key, e, C2Config.window)
             found == Rule(e.dst \notin AllowedDestinations /\ Beacon(windows[key]),
                           C2Alert(windows[key], e, sessions))
             said == Spaced(state.last, found, C2Config.cooldown)
             out == e.dport = 53 \/ e.service = "dns" \/ \E r \in TrustedPeriodic : RuleMatches(r, e)
             answer == Answer([windows |-> windows, last |-> said.last], said.alerts)
  <1>1. C2Process(state, e, sessions) = IF out THEN Answer(state, <<>>) ELSE answer
    BY Zenon DEF C2Process
  <1> HIDE DEF out, key
  <1>2. Good("time", e) /\ C2Config.window \in Nat /\ e.ts <= e.ts
    BY C2ConfigAssumption DEF Good, C2ConfigValid
  <1>3. Window("time", windows[key])
    BY <1>2, AddedWindow DEF C2Good
  <1>4. Dated(e.ts, windows) /\ Latest(windows[key], e.ts)
    BY <1>2, AddedDated DEF C2Good
  <1> HIDE DEF windows
  <1>5. AllMarked(found, e.ts, fw)
    BY <1>3, <1>4, C2AlertMarked, RuleMarked
  <1> HIDE DEF found
  <1>6. AllMarked(said.alerts, e.ts, fw)
    BY <1>5, SaidMarked
  <1> HIDE DEF said
  <1>7. answer.state.windows = windows /\ answer.alerts = said.alerts
    BY DEF Answer
  <1>8. Answer(state, <<>>).state = state /\ Answer(state, <<>>).alerts = <<>>
    BY DEF Answer
  <1> HIDE DEF answer
  <1> QED BY <1>1, <1>4, <1>6, <1>7, <1>8, NoneMarked

(* Transfers: what a past session left may lie after the event.            *)
LEMMA ExfilAlertMarked ==
  ASSUME NEW w, Window("connection", w), NEW e, NEW fw, fw => Latest(w, e.ts)
  PROVE  Marked(ExfilAlert(w, e), e.ts, fw)
  <1> DEFINE confidence == Min({96, 70 + (12 * Min({Sent(w) - ExfilConfig.minBytes, ExfilConfig.minBytes}))
                                           \div ExfilConfig.minBytes})
             id == <<"exfil", e.src, e.dst, w[1].ts, e.ts>>
             a == ExfilAlert(w, e)
  <1>1. a = Alert("data_exfiltration", "outbound_volume_anomaly", id,
                  <<"exfil", e.src, e.dst>>, e, e.dst, w[1].ts, Flows(w), confidence)
    BY Zenon DEF ExfilAlert
  <1> HIDE DEF confidence, a, id
  <1>2. /\ {"id", "type", "subtype", "cool", "src", "dst", "start", "end"} \subseteq DOMAIN a
        /\ a.type = "data_exfiltration" /\ a.subtype = "outbound_volume_anomaly" /\ a.id = id
        /\ a.src = e.src /\ a.dst = e.dst /\ a.start = w[1].ts /\ a.end = e.ts
    BY <1>1, AlertParts
  <1>3. PlainLabel(a)
    BY <1>2 DEF PlainLabel, id
  <1>4. fw => a.start <= e.ts
    BY <1>2, WindowStarts
  <1> QED BY <1>2, <1>3, <1>4 DEF Marked, Labelled, a
LEMMA ExfilMarked ==
  ASSUME NEW state, ExfilGood(state), NEW e, Good("connection", e), NEW fw, fw => Dated(e.ts, state.windows)
  PROVE  /\ fw => Dated(e.ts, ExfilProcess(state, e).state.windows)
         /\ AllMarked(ExfilProcess(state, e).alerts, e.ts, fw)
  <1> DEFINE key == <<e.src, e.dst>>
             baseline == At(state.baselines, e.src, <<>>)
             windows == Added(state.windows, key, e, ExfilConfig.window)
             whole == <<ExfilAlert(<<e>>, e)>>
             part == Rule(/\ Len(windows[key]) >= ExfilConfig.minFlows
                          /\ Outlier(windows[key], DoubleMedian(baseline)),
                          ExfilAlert(windows[key], e))
             found == IF Huge(e) THEN whole ELSE part
             said == Spaced(state.last, found, ExfilConfig.cooldown)
             out == e.dst \in ApprovedBackup \/ \E r \in ApprovedBulk : RuleMatches(r, e)
             answer == Answer([windows |-> windows,
                               baselines |-> Put(state.baselines, e.src, Remembered(baseline, e.outbound)),
                               first |-> Put(state.first, key, At(state.first, key, e.ts)),
                               last |-> said.last], said.alerts)
  <1>1. ExfilProcess(state, e) = IF out THEN Answer(state, <<>>) ELSE answer
    BY Zenon DEF ExfilProcess
  <1> HIDE DEF out, key, baseline
  <1>2. e.ts <= e.ts /\ ExfilConfig.window \in Nat
    BY ExfilNumbers DEF Good
  <1>3. Window("connection", windows[key])
    BY <1>2, AddedWindow DEF ExfilGood
  <1>4. fw => Dated(e.ts, windows) /\ Latest(windows[key], e.ts)
    BY <1>2, AddedDated DEF ExfilGood
  <1> HIDE DEF windows
  <1>5. AllMarked(whole, e.ts, fw)
    <2>1. Marked(ExfilAlert(<<e>>, e), e.ts, fw)
      BY <1>2, OneWindow, OneLatest, ExfilAlertMarked
    <2>2. \A x : IsSeq(<<x>>) /\ Range(<<x>>) = {x}
      BY DEF IsSeq, Range
    <2> QED BY <2>1, <2>2 DEF AllMarked
  <1>6. AllMarked(part, e.ts, fw)
    BY <1>3, <1>4, ExfilAlertMarked, RuleMarked
  <1> HIDE DEF whole, part
  <1>7. AllMarked(found, e.ts, fw)
    BY <1>5, <1>6
  <1> HIDE DEF found
  <1>8. AllMarked(said.alerts, e.ts, fw)
    BY <1>7, SaidMarked
  <1> HIDE DEF said
  <1>9. answer.state.windows = windows /\ answer.alerts = said.alerts
    BY DEF Answer
  <1>10. Answer(state, <<>>).state = state /\ Answer(state, <<>>).alerts = <<>>
    BY DEF Answer
  <1> HIDE DEF answer
  <1> QED BY <1>1, <1>4, <1>8, <1>9, <1>10, NoneMarked

(* Encrypted sessions.                                                     *)
LEMMA EncryptedAlertMarked ==
  ASSUME NEW w, Window("features", w), NEW e, NEW fw, fw => Latest(w, e.ts)
  PROVE  Marked(EncryptedAlert(w, e), e.ts, fw)
  <1> DEFINE confidence == 58 + (14 * Total(w, LAMBDA x : x.features.size + x.features.timing))
                                  \div (100 * Len(w))
             id == <<"encrypted", e.src, e.dst, e.fp, w[1].ts, e.ts>>
             a == EncryptedAlert(w, e)
  <1>1. a = Alert("encrypted_session_threat", "encrypted_session_metadata_anomaly", id,
                  <<"encrypted", e.src, e.dst, e.fp>>, e, e.dst, w[1].ts, Flows(w), confidence)
    BY Zenon DEF EncryptedAlert
  <1> HIDE DEF confidence, a, id
  <1>2. /\ {"id", "type", "subtype", "cool", "src", "dst", "start", "end"} \subseteq DOMAIN a
        /\ a.type = "encrypted_session_threat" /\ a.subtype = "encrypted_session_metadata_anomaly"
        /\ a.id = id /\ a.src = e.src /\ a.dst = e.dst /\ a.start = w[1].ts /\ a.end = e.ts
    BY <1>1, AlertParts
  <1>3. a.id[4] = e.fp
    BY <1>2 DEF id
  <1>4. PlainLabel(a)
    BY <1>2, <1>3 DEF PlainLabel, id
  <1>5. fw => a.start <= e.ts
    BY <1>2, WindowStarts
  <1> QED BY <1>2, <1>4, <1>5 DEF Marked, Labelled, a
LEMMA EncryptedMarked ==
  ASSUME NEW state, EncryptedGood(state), NEW e, e.ts \in Int, e.features # None => Good("features", e),
         NEW fw, Dated(e.ts, state.windows)
  PROVE  /\ Dated(e.ts, EncryptedProcess(state, e).state.windows)
         /\ AllMarked(EncryptedProcess(state, e).alerts, e.ts, fw)
  <1> DEFINE key == <<e.src, e.dst, e.fp>>
             windows == Added(state.windows, key, e, EncryptedConfig.window)
             found == Rule(Suspicious(windows[key]), EncryptedAlert(windows[key], e))
             said == Spaced(state.last, found, EncryptedConfig.cooldown)
             answer == Answer([windows |-> windows, last |-> said.last], said.alerts)
  <1>1. EncryptedProcess(state, e) =
          IF e.features = None \/ e.fp = None THEN Answer(state, <<>>) ELSE answer
    BY Zenon DEF EncryptedProcess
  <1>2. CASE e.features = None \/ e.fp = None
    <2>1. EncryptedProcess(state, e).state = state /\ EncryptedProcess(state, e).alerts = <<>>
      BY <1>1, <1>2 DEF Answer
    <2> QED BY <2>1, NoneMarked
  <1>3. CASE ~ (e.features = None \/ e.fp = None)
    <2>1. Good("features", e)
      BY <1>3
    <2>2. EncryptedConfig.window \in Nat /\ e.ts <= e.ts
      BY EncryptedSpanAssumption
    <2> HIDE DEF key
    <2>3. Window("features", windows[key])
      BY <2>1, <2>2, AddedWindow DEF EncryptedGood
    <2>4. Dated(e.ts, windows) /\ Latest(windows[key], e.ts)
      BY <2>1, <2>2, AddedDated DEF EncryptedGood
    <2> HIDE DEF windows
    <2>5. AllMarked(found, e.ts, fw)
      BY <2>3, <2>4, EncryptedAlertMarked, RuleMarked
    <2> HIDE DEF found
    <2>6. AllMarked(said.alerts, e.ts, fw)
      BY <2>5, SaidMarked
    <2> HIDE DEF said
    <2>7. answer.state.windows = windows /\ answer.alerts = said.alerts
      BY DEF Answer
    <2> HIDE DEF answer
    <2> QED BY <1>1, <1>3, <2>4, <2>6, <2>7
  <1> QED BY <1>2, <1>3

(* Look-ups.                                                               *)
FindingMarked(f, t) == Window("time", f.window) /\ Latest(f.window, t)
AllDue(found, t) == IsSeq(found) /\ \A f \in Range(found) : FindingMarked(f, t)
LEMMA RuleDue ==
  ASSUME NEW t, NEW holds, NEW subtype, NEW subject, NEW w, NEW confidence,
         holds => Window("time", w) /\ Latest(w, t)
  PROVE  AllDue(Rule(holds, Finding(subtype, subject, w, confidence)), t)
  <1> DEFINE f == Finding(subtype, subject, w, confidence)
  <1>1. f.window = w
    BY DEF Finding
  <1> HIDE DEF f
  <1>2. holds => FindingMarked(f, t)
    BY <1>1 DEF FindingMarked
  <1>3. AllDue(Rule(holds, f), t)
    BY <1>2, RuleIsSeq, EmptyIsSeq DEF AllDue, Rule
  <1> QED BY <1>3 DEF f
LEMMA BothDue ==
  ASSUME NEW t, NEW r, AllDue(r, t), NEW s, AllDue(s, t)
  PROVE  AllDue(r \o s, t)
  BY ConcatRange DEF AllDue
LEMMA DNSAlertMarked ==
  ASSUME NEW e, NEW fw, NEW f, FindingMarked(f, e.ts)
  PROVE  Marked(DNSAlert(f, e), e.ts, fw)
  <1> DEFINE id == <<"dns", f.subtype, e.src, f.subject, e.ts>>
             cool == <<"dns", e.src, f.subtype, f.subject>>
             a == DNSAlert(f, e)
  <1>1. a = Alert("dns_threat", f.subtype, id, cool, e, e.dst, f.window[1].ts, Flows(f.window), f.confidence)
    BY Zenon DEF DNSAlert
  <1> HIDE DEF a, id, cool
  <1>2. /\ {"id", "type", "subtype", "cool", "src", "dst", "start", "end"} \subseteq DOMAIN a
        /\ a.type = "dns_threat" /\ a.subtype = f.subtype /\ a.id = id /\ a.cool = cool
        /\ a.src = e.src /\ a.dst = e.dst /\ a.start = f.window[1].ts /\ a.end = e.ts
    BY <1>1, AlertParts
  <1>3. a.id[4] = f.subject
    BY <1>2 DEF id
  <1>4. DNSLabel(a)
    BY <1>2, <1>3 DEF DNSLabel, id, cool
  <1>5. a.start <= e.ts
    BY <1>2, WindowStarts DEF FindingMarked
  <1> QED BY <1>2, <1>4, <1>5 DEF Marked, Labelled, a
DNSDated(t, state) ==
  Dated(t, state.model) /\ Dated(t, state.lexical) /\ Dated(t, state.failed) /\ Dated(t, state.queries)
LEMMA JoinedDue ==
  ASSUME NEW tag, NEW map, Windows(tag, map), NEW in, NEW key, NEW e, in => Good(tag, e), e.ts \in Int,
         Dated(e.ts, map)
  PROVE  LET joined == IF in THEN Added(map, key, e, DNSConfig.window) ELSE map
         IN  /\ Dated(e.ts, joined)
             /\ in => Window("time", joined[key]) /\ Latest(joined[key], e.ts)
  <1>1. DNSConfig.window \in Nat /\ e.ts <= e.ts
    BY DNSConfigAssumption DEF DNSConfigValid
  <1>2. CASE in
    <2> DEFINE joined == Added(map, key, e, DNSConfig.window)
    <2>1. Window(tag, joined[key])
      BY <1>1, <1>2, AddedWindow
    <2>2. Dated(e.ts, joined) /\ Latest(joined[key], e.ts)
      BY <1>1, <1>2, AddedDated
    <2> HIDE DEF joined
    <2>3. Window("time", joined[key])
      BY <2>1, TimeWindow
    <2> QED BY <1>2, <2>2, <2>3 DEF joined
  <1>3. CASE ~in
    BY <1>3
  <1> QED BY <1>2, <1>3
LEMMA DNSMarked ==
  ASSUME ScoresNumeric, NEW state, DNSGood(state), NEW e, e.ts \in Int, NEW fw, DNSDated(e.ts, state)
  PROVE  DNSDated(e.ts, DNSProcess(state, e).state) /\ AllMarked(DNSProcess(state, e).alerts, e.ts, fw)
  <1> DEFINE span == DNSConfig.window
             model == IF WithOutcome(e) THEN Added(state.model, e.src, e, span) ELSE state.model
             lexical == IF Lexical(e) THEN Added(state.lexical, e.src, e, span) ELSE state.lexical
             failed == IF ~Allowed(e) THEN Added(state.failed, e.src, e, span) ELSE state.failed
             queries == Added(state.queries, <<e.src, e.root>>, e, span)
             dga == "dga_like_domain"
             one == Rule(WithOutcome(e) /\ ModelCampaign(model[e.src]),
                    Finding(dga, "model-correlated-campaign", model[e.src], ModelConfidence(model[e.src])))
             two == Rule(Positive(e) /\ ~WithOutcome(e), Finding(dga, e.input, <<e>>, Scored(e)))
             three == Rule(Lexical(e) /\ LexicalCampaign(lexical[e.src]),
                       Finding(dga, "lexical-campaign", lexical[e.src], LexicalConfidence))
             four == Rule(~Allowed(e) /\ FailedCampaign(failed[e.src]),
                       Finding(dga, "failed-domain-campaign", failed[e.src], FailedConfidence(failed[e.src])))
             five == Rule(~Allowed(e) /\ Tunnel(queries[<<e.src, e.root>>]),
                       Finding("dns_tunnelling", e.root, queries[<<e.src, e.root>>],
                            TunnelConfidence(queries[<<e.src, e.root>>])))
             findings == one \o two \o three \o four \o five
             found == [i \in DOMAIN findings |-> DNSAlert(findings[i], e)]
             said == Spaced(state.last, found, DNSConfig.cooldown)
             answer == Answer([model |-> model, lexical |-> lexical, failed |-> failed, queries |-> queries,
                                  last |-> said.last], said.alerts)
  <1>1. DNSProcess(state, e) = answer
    BY Zenon DEF DNSProcess
  <1>2. Good("time", e) /\ (Positive(e) => Scored(e) \in Int) /\ e.ts <= e.ts
    BY ScoredNumber DEF Good
  <1>3. WithOutcome(e) => Good("scored", e)
    BY <1>2 DEF WithOutcome, Good
  <1>4. Dated(e.ts, model) /\ (WithOutcome(e) => Window("time", model[e.src]) /\ Latest(model[e.src], e.ts))
    BY <1>3, JoinedDue DEF DNSGood, DNSDated
  <1>5. Dated(e.ts, lexical) /\ (Lexical(e) => Window("time", lexical[e.src]) /\ Latest(lexical[e.src], e.ts))
    BY <1>2, JoinedDue DEF DNSGood, DNSDated
  <1>6. Dated(e.ts, failed) /\ (~Allowed(e) => Window("time", failed[e.src]) /\ Latest(failed[e.src], e.ts))
    BY <1>2, JoinedDue DEF DNSGood, DNSDated
  <1>7. /\ Dated(e.ts, queries) /\ Window("time", queries[<<e.src, e.root>>])
        /\ Latest(queries[<<e.src, e.root>>], e.ts)
    <2>1. DNSConfig.window \in Nat
      BY DNSConfigAssumption DEF DNSConfigValid
    <2> QED BY <1>2, <2>1, AddedWindow, AddedDated DEF DNSGood, DNSDated
  <1>8. Window("time", <<e>>) /\ Latest(<<e>>, e.ts)
    BY <1>2, OneWindow, OneLatest
  <1> HIDE DEF model, lexical, failed, queries
  <1>9. AllDue(one, e.ts)
    BY <1>4, RuleDue
  <1>10. AllDue(two, e.ts)
    BY <1>8, RuleDue
  <1>11. AllDue(three, e.ts)
    BY <1>5, RuleDue
  <1>12. AllDue(four, e.ts)
    BY <1>6, RuleDue
  <1>13. AllDue(five, e.ts)
    BY <1>7, RuleDue
  <1> HIDE DEF one, two, three, four, five
  <1>14. AllDue(findings, e.ts)
    <2>1. AllDue(one \o two, e.ts)
      BY <1>9, <1>10, BothDue
    <2>2. AllDue(one \o two \o three, e.ts)
      BY <1>11, <2>1, BothDue
    <2>3. AllDue(one \o two \o three \o four, e.ts)
      BY <1>12, <2>2, BothDue
    <2> QED BY <1>13, <2>3, BothDue
  <1> HIDE DEF findings
  <1>15. AllMarked(found, e.ts, fw)
    <2>1. IsSeq(findings) /\ \A i \in DOMAIN findings : FindingMarked(findings[i], e.ts)
      BY <1>14, SeqFacts DEF AllDue
    <2>2. \A i \in DOMAIN findings : Marked(found[i], e.ts, fw)
      BY <2>1, DNSAlertMarked
    <2>3. found = [i \in DOMAIN findings |-> found[i]]
      OBVIOUS
    <2> HIDE DEF found
    <2> QED BY <2>1, <2>2, <2>3, EachMarked
  <1> HIDE DEF found
  <1>16. AllMarked(said.alerts, e.ts, fw)
    BY <1>15, SaidMarked
  <1> HIDE DEF said
  <1>17. /\ answer.state.model = model /\ answer.state.lexical = lexical /\ answer.state.failed = failed
         /\ answer.state.queries = queries /\ answer.alerts = said.alerts
    BY DEF Answer
  <1> HIDE DEF answer
  <1> QED BY <1>1, <1>4, <1>5, <1>6, <1>7, <1>16, <1>17 DEF DNSDated

(* Floods.                                                                 *)
HitDated(hit, t) == Latest(hit.relevant, t)
DatedHits(hits, t) == IsSeq(hits) /\ \A hit \in Range(hits) : HitDated(hit, t)
LEMMA HitOneDated ==
  ASSUME NEW t, NEW w, Events(w), Latest(w, t), NEW good, NEW subtype, NEW target, NEW confidence
  PROVE  /\ Events(Chosen(w, good)) /\ Latest(Chosen(w, good), t)
         /\ DatedHits(Hit(subtype, target, Chosen(w, good), confidence), t)
  <1> DEFINE relevant == Chosen(w, good)
             hit == [subtype |-> subtype, target |-> target, relevant |-> relevant, confidence |-> confidence]
  <1>1. Events(relevant) /\ Latest(relevant, t)
    BY PickedIsSeq DEF Events, Latest
  <1>2. hit.relevant = relevant
    OBVIOUS
  <1>3. Hit(subtype, target, relevant, confidence) = <<hit>>
    BY DEF Hit
  <1> HIDE DEF hit, relevant
  <1>4. IsSeq(<<hit>>) /\ Range(<<hit>>) = {hit}
    BY DEF IsSeq, Range
  <1> QED BY <1>1, <1>2, <1>3, <1>4 DEF DatedHits, HitDated, relevant
LEMMA FloodsDated ==
  ASSUME NEW t, NEW w, Events(w), Latest(w, t), NEW e, NEW strict
  PROVE  /\ DatedHits(SynFlood(w, e), t) /\ DatedHits(SlowHttp(w, e), t)
         /\ DatedHits(UdpFlood(w, e), t) /\ DatedHits(Reflection(w, e, strict), t)
  <1>1. DatedHits(<<>>, t)
    BY EmptyIsSeq DEF DatedHits
  <1>2. DatedHits(SynFlood(w, e), t)
    <2> DEFINE tcp == Chosen(w, {x \in Range(w) : x.protocol = "tcp"})
               n == Len(tcp)
               incomplete == Count(tcp, LAMBDA x : x.state \in {"S0", "REJ"})
               distributed == Cardinality(Sources(tcp)) >= DDoSConfig.minSources /\ Diverse(tcp)
               subtype == IF distributed THEN "distributed_source_syn_flood" ELSE "syn_flood"
               confidence == 65 + (20 * incomplete) \div n + (14 * Excess(n, DDoSConfig.synAttempts)) \div 100
               fires == /\ n >= DDoSConfig.synAttempts
                        /\ 100 * incomplete >= DDoSConfig.incompletePct * n
                        /\ 100 * MostOnOnePort(tcp) >= DDoSConfig.concentrationPct * n
    <2>1. SynFlood(w, e) = IF fires THEN Hit(subtype, e.dst, tcp, confidence) ELSE <<>>
      BY DEF SynFlood, Shaped, Picked
    <2> HIDE DEF fires, subtype, confidence
    <2>2. DatedHits(Hit(subtype, e.dst, tcp, confidence), t)
      BY HitOneDated
    <2> QED BY <1>1, <2>1, <2>2
  <1>3. DatedHits(SlowHttp(w, e), t)
    <2> DEFINE held == Chosen(w, {x \in Range(w) : HeldOpen(x)})
               confidence == 70 + (14 * Excess(Len(held), DDoSConfig.slowConnections)) \div 100
               fires == Len(held) >= DDoSConfig.slowConnections
    <2>1. SlowHttp(w, e) = IF fires THEN Hit("slow_http_connection_exhaustion", e.dst, held, confidence) ELSE <<>>
      BY DEF SlowHttp, Picked
    <2> HIDE DEF fires, confidence
    <2>2. DatedHits(Hit("slow_http_connection_exhaustion", e.dst, held, confidence), t)
      BY HitOneDated
    <2> QED BY <1>1, <2>1, <2>2
  <1> DEFINE udp == Chosen(w, {x \in Range(w) : x.protocol = "udp"})
  <1>4. DatedHits(UdpFlood(w, e), t)
    <2> DEFINE packets == Total(udp, LAMBDA x : Max({x.packets, 1}))
               confidence == 70 + Excess(packets, DDoSConfig.udpPackets) \div 5
               fires == packets >= DDoSConfig.udpPackets
    <2>1. UdpFlood(w, e) = IF fires THEN Hit("udp_flood", e.dst, udp, confidence) ELSE <<>>
      BY DEF UdpFlood, Shaped, Picked
    <2> HIDE DEF fires, confidence
    <2>2. DatedHits(Hit("udp_flood", e.dst, udp, confidence), t)
      BY HitOneDated
    <2> QED BY <1>1, <2>1, <2>2
  <1>5. DatedHits(Reflection(w, e, strict), t)
    <2> DEFINE asked == Chosen(udp, {x \in Range(udp) : strict => x.dport \in ReflectionServices /\ x.outbound > 0})
               request == Total(asked, LAMBDA x : x.outbound)
               response == Total(asked, LAMBDA x : x.inbound)
               target == IF strict THEN e.src ELSE e.dst
               confidence == 68 + (8 * Excess(Len(asked), DDoSConfig.reflectionFlows)) \div 100
               fires == /\ Len(asked) >= DDoSConfig.reflectionFlows
                        /\ response >= DDoSConfig.amplification * Max({request, 1})
                        /\ response >= DDoSConfig.reflectionBytes
    <2>1. Reflection(w, e, strict) = IF fires THEN Hit("udp_reflection_amplification", target, asked, confidence) ELSE <<>>
      BY DEF Reflection, Shaped, Picked
    <2> HIDE DEF fires, confidence, target
    <2>2. Events(udp) /\ Latest(udp, t)
      BY HitOneDated
    <2> HIDE DEF udp
    <2>3. DatedHits(Hit("udp_reflection_amplification", target, asked, confidence), t)
      BY <2>2, HitOneDated
    <2> QED BY <1>1, <2>1, <2>3
  <1> QED BY <1>2, <1>3, <1>4, <1>5
LEMMA DDoSAlertMarked ==
  ASSUME NEW hit, HitFull(hit), NEW e, e.ts \in Int, HitDated(hit, e.ts), NEW fw
  PROVE  Marked(DDoSAlert(hit, e), e.ts, fw)
  <1> DEFINE r == hit.relevant
             f == [i \in DOMAIN r |-> r[i].ts]
             N == {r[i].ts : i \in DOMAIN r}
             start == Min(N)
             id == <<"ddos", hit.subtype, hit.target, start, e.ts>>
             cool == <<"ddos", hit.target, hit.subtype>>
             a == DDoSAlert(hit, e)
  <1>1. IsSeq(r) /\ r # <<>> /\ \A x \in Range(r) : x.ts \in Int /\ x.ts <= e.ts
    BY DEF HitFull, HitDated, Latest
  <1>2. a = Alert("denial_of_service", hit.subtype, id, cool, e, hit.target, start, Flows(r), hit.confidence)
    BY Zenon DEF DDoSAlert
  <1> HIDE DEF a, r
  <1>3. Len(r) \in Nat /\ DOMAIN r = 1..Len(r) /\ \A i \in 1..Len(r) : r[i] \in Range(r)
    BY <1>1, SeqFacts
  <1>4. Len(r) # 0
    <2>1. r \in Seq(Range(r))
      BY <1>1 DEF IsSeq
    <2> QED BY <1>1, <2>1, EmptySeq
  <1>5. \A i \in DOMAIN r : r[i].ts \in Int /\ r[i].ts <= e.ts
    BY <1>1, <1>3
  <1>6. N \subseteq Int /\ N # {} /\ \A x \in N : x <= e.ts
    <2>1. 1 \in DOMAIN r
      BY <1>3, <1>4
    <2> QED BY <1>5, <2>1
  <1>7. IsFiniteSet(N)
    <2>1. IsFiniteSet(1..Len(r))
      BY <1>3, FS_Interval
    <2>2. IsFiniteSet({f[i] : i \in DOMAIN r})
      <3> HIDE DEF f
      <3> QED BY <1>3, <2>1, ImageFinite
    <2>3. {f[i] : i \in DOMAIN r} = N
      OBVIOUS
    <2> HIDE DEF N
    <2> QED BY <2>2, <2>3
  <1>8. start <= e.ts
    <2>1. start \in N
      <3> HIDE DEF N
      <3> QED BY <1>6, <1>7, MinOfFinite
    <2> HIDE DEF start
    <2> QED BY <1>6, <2>1
  <1> HIDE DEF start, id, cool
  <1>9. /\ {"id", "type", "subtype", "cool", "src", "dst", "start", "end"} \subseteq DOMAIN a
        /\ a.type = "denial_of_service" /\ a.subtype = hit.subtype /\ a.id = id /\ a.cool = cool
        /\ a.src = e.src /\ a.dst = hit.target /\ a.start = start /\ a.end = e.ts
    BY <1>2, AlertParts
  <1>10. DDoSLabel(a)
    BY <1>9 DEF DDoSLabel, id, cool
  <1> QED BY <1>8, <1>9, <1>10 DEF Marked, Labelled, a
DDoSDated(t, state) == Dated(t, state.events) /\ Dated(t, state.slow) /\ Dated(t, state.reflection)
LEMMA DDoSMarked ==
  ASSUME NEW state, DDoSGood(state), NEW e, Good("connection", e), NEW fw, DDoSDated(e.ts, state),
         NEW strict
  PROVE  DDoSDated(e.ts, DDoSProcess(state, e, strict).state) /\ AllMarked(DDoSProcess(state, e, strict).alerts, e.ts, fw)
  <1> DEFINE events == Added(state.events, e.dst, e, DDoSConfig.window)
             web == e.protocol = "tcp" /\ e.service = "http"
             slow == IF web THEN Added(state.slow, e.dst, e, DDoSConfig.slowWindow) ELSE state.slow
             reflecting == e.protocol = "udp" /\ strict
             reflection == IF reflecting THEN Added(state.reflection, e.src, e, DDoSConfig.window)
                           ELSE state.reflection
             back == IF strict THEN reflection[e.src] ELSE events[e.dst]
             hits == IF e.protocol = "tcp"
                     THEN SynFlood(events[e.dst], e) \o (IF web THEN SlowHttp(slow[e.dst], e) ELSE <<>>)
                     ELSE UdpFlood(events[e.dst], e) \o Reflection(back, e, strict)
             found == [i \in DOMAIN hits |-> DDoSAlert(hits[i], e)]
             said == Spaced(state.last, found, DDoSConfig.cooldown)
             answer == Answer([events |-> events, reflection |-> reflection, slow |-> slow,
                               last |-> said.last], said.alerts)
             Fit(w) == Events(w) /\ Latest(w, e.ts)
             Both(h) == AllHits(h) /\ DatedHits(h, e.ts)
  <1>0. e.ts \in Int /\ e.ts <= e.ts
    BY DEF Good
  <1>1. CASE e.protocol \notin {"tcp", "udp"}
    <2>1. DDoSProcess(state, e, strict).state = state /\ DDoSProcess(state, e, strict).alerts = <<>>
      BY <1>1 DEF DDoSProcess, Answer
    <2> QED BY <2>1, NoneMarked
  <1>2. CASE e.protocol \in {"tcp", "udp"}
    <2>1. DDoSProcess(state, e, strict) = answer
      BY <1>2, Zenon DEF DDoSProcess
    <2>2. DDoSConfig.window \in Nat /\ DDoSConfig.slowWindow \in Nat
      BY DDoSConfigAssumption DEF DDoSConfigValid
    <2>3. ASSUME NEW map, Windows("connection", map), Dated(e.ts, map), NEW key, NEW width \in Nat
          PROVE  Dated(e.ts, Added(map, key, e, width)) /\ Fit(Added(map, key, e, width)[key])
      <3> DEFINE more == Added(map, key, e, width)
      <3>1. Window("connection", more[key]) /\ Dated(e.ts, more) /\ Latest(more[key], e.ts)
        BY <1>0, <2>3, AddedWindow, AddedDated
      <3> HIDE DEF more
      <3>2. Events(more[key])
        BY <3>1 DEF Window, Events
      <3> QED BY <3>1, <3>2 DEF more
    <2>4. Dated(e.ts, events) /\ Fit(events[e.dst])
      BY <2>2, <2>3 DEF DDoSGood, DDoSDated
    <2>5. Dated(e.ts, slow) /\ (web => Fit(slow[e.dst]))
      <3> DEFINE more == Added(state.slow, e.dst, e, DDoSConfig.slowWindow)
      <3>1. Dated(e.ts, more) /\ Fit(more[e.dst])
        BY <2>2, <2>3 DEF DDoSGood, DDoSDated
      <3> HIDE DEF more, web, Fit
      <3>2. slow = IF web THEN more ELSE state.slow
        BY DEF more
      <3> HIDE DEF slow
      <3> QED BY <3>1, <3>2 DEF DDoSDated
    <2>6. Dated(e.ts, reflection) /\ (reflecting => Fit(reflection[e.src]))
      <3> DEFINE more == Added(state.reflection, e.src, e, DDoSConfig.window)
      <3>1. Dated(e.ts, more) /\ Fit(more[e.src])
        BY <2>2, <2>3 DEF DDoSGood, DDoSDated
      <3> HIDE DEF more, reflecting, Fit
      <3>2. reflection = IF reflecting THEN more ELSE state.reflection
        BY DEF more
      <3> HIDE DEF reflection
      <3> QED BY <3>1, <3>2 DEF DDoSDated
    <2> HIDE DEF events, slow, reflection
    <2>7. Both(<<>>)
      BY HitsNone, EmptyIsSeq DEF DatedHits
    <2>8. ASSUME NEW r, Both(r), NEW s, Both(s) PROVE Both(r \o s)
      BY <2>8, HitsBoth, ConcatRange DEF DatedHits
    <2>9. Both(hits)
      <3>1. CASE e.protocol = "tcp"
        <4> DEFINE more == IF web THEN SlowHttp(slow[e.dst], e) ELSE <<>>
        <4>1. Both(SynFlood(events[e.dst], e))
          BY <2>4, SynHits, FloodsDated
        <4>2. Both(more)
          <5> HIDE DEF web
          <5> QED BY <2>5, <2>7, SlowHits, FloodsDated
        <4> HIDE DEF more, Both
        <4>3. Both(SynFlood(events[e.dst], e) \o more)
          BY <2>8, <4>1, <4>2
        <4> QED BY <3>1, <4>3 DEF more
      <3>2. CASE e.protocol # "tcp"
        <4>1. Fit(back)
          <5> HIDE DEF Fit
          <5> QED BY <1>2, <2>4, <2>6, <3>2
        <4> HIDE DEF back
        <4>2. Both(UdpFlood(events[e.dst], e)) /\ Both(Reflection(back, e, strict))
          BY <2>4, <4>1, UdpHits, ReflectionHits, FloodsDated
        <4> HIDE DEF Both
        <4>3. Both(UdpFlood(events[e.dst], e) \o Reflection(back, e, strict))
          BY <2>8, <4>2
        <4> QED BY <3>2, <4>3
      <3> QED BY <3>1, <3>2
    <2> HIDE DEF hits
    <2>10. AllMarked(found, e.ts, fw)
      <3>1. IsSeq(hits) /\ \A i \in DOMAIN hits : HitFull(hits[i]) /\ HitDated(hits[i], e.ts)
        BY <2>9, SeqFacts DEF AllHits, DatedHits
      <3>2. \A i \in DOMAIN hits : Marked(found[i], e.ts, fw)
        BY <1>0, <3>1, DDoSAlertMarked
      <3>3. found = [i \in DOMAIN hits |-> found[i]]
        OBVIOUS
      <3> HIDE DEF found
      <3> QED BY <3>1, <3>2, <3>3, EachMarked
    <2> HIDE DEF found
    <2>11. AllMarked(said.alerts, e.ts, fw)
      BY <2>10, SaidMarked
    <2> HIDE DEF said
    <2>12. /\ answer.state.events = events /\ answer.state.slow = slow
           /\ answer.state.reflection = reflection /\ answer.alerts = said.alerts
      BY DEF Answer
    <2> HIDE DEF answer
    <2> QED BY <2>1, <2>4, <2>5, <2>6, <2>11, <2>12 DEF DDoSDated
  <1> QED BY <1>1, <1>2

(* Scans: the contacts of a source end with its latest event, and no scan  *)
(* by the source ends later.                                               *)
Recents(contacts) ==
  \A k \in DOMAIN contacts : Last(contacts[k]).src = k /\ Latest(contacts[k], Last(contacts[k]).ts)
Follows(contacts, a) ==
  a.type = "reconnaissance" => a.src \in DOMAIN contacts /\ a.end <= Last(contacts[a.src]).ts
ScanMarked(a, e) == ReconLabel(a) /\ a.src = e.src /\ Marked(a, e.ts, TRUE)
LEMMA ScanAlertsMarked ==
  ASSUME NEW c, Window("time", c), NEW e, e.ts \in Int, Latest(c, e.ts)
  PROVE  IsSeq(ScanAlerts(c, e)) /\ \A a \in Range(ScanAlerts(c, e)) : ScanMarked(a, e)
  <1> DEFINE scans == Scans(c)
             found == ScanAlerts(c, e)
  <1>1. IsSeq(scans)
    BY ScansFit
  <1>2. found = [i \in DOMAIN scans |-> ReconAlert(c, scans[i], e)]
    BY DEF ScanAlerts
  <1>3. IsSeq(found)
    BY ScanAlertsFull DEF AllFull
  <1> HIDE DEF scans, found
  <1>4. ASSUME NEW scan PROVE ScanMarked(ReconAlert(c, scan, e), e)
    <2> DEFINE id == <<"recon", scan.subtype, e.src, c[1].ts, e.ts>>
               cool == <<"recon", e.src, scan.subtype>>
               confidence == 70 + Excess(scan.observed, scan.threshold) \div 4
               a == ReconAlert(c, scan, e)
    <2>1. a = Alert("reconnaissance", scan.subtype, id, cool, e, scan.dst, c[1].ts, Flows(c), confidence)
      BY Zenon DEF ReconAlert
    <2> HIDE DEF a, id, cool, confidence
    <2>2. /\ {"id", "type", "subtype", "cool", "src", "dst", "start", "end"} \subseteq DOMAIN a
          /\ a.type = "reconnaissance" /\ a.subtype = scan.subtype /\ a.id = id /\ a.cool = cool
          /\ a.src = e.src /\ a.start = c[1].ts /\ a.end = e.ts
      BY <2>1, AlertParts
    <2>3. ReconLabel(a)
      BY <2>2 DEF ReconLabel, id, cool
    <2>4. a.start <= e.ts
      BY <2>2, WindowStarts
    <2> QED BY <2>2, <2>3, <2>4 DEF ScanMarked, Marked, Labelled, a
  <1>5. DOMAIN found = DOMAIN scans
    BY <1>2
  <1>6. \A a \in Range(found) : \E i \in DOMAIN found : a = found[i]
    BY DEF Range
  <1>7. \A a \in Range(found) : ScanMarked(a, e)
    BY <1>2, <1>4, <1>5, <1>6
  <1> QED BY <1>3, <1>7 DEF found
LEMMA ReconMarked ==
  ASSUME NEW state, ReconGood(state), NEW e, e.ts \in Int, NEW fw, Dated(e.ts, state.contacts),
         Recents(state.contacts)
  PROVE  LET new == ReconProcess(state, e)
         IN  /\ Dated(e.ts, new.state.contacts) /\ Recents(new.state.contacts)
             /\ AllMarked(new.alerts, e.ts, fw)
             /\ \A a \in Range(new.alerts) : Follows(new.state.contacts, a)
             /\ \A a : a.end \in Int /\ Follows(state.contacts, a) => Follows(new.state.contacts, a)
  <1> DEFINE old == At(state.contacts, e.src, <<>>)
             w == Append(old, e)
             c == Evicted(w, e.ts - ReconConfig.window)
             contacts == Put(state.contacts, e.src, c)
             said == Spaced(state.last, ScanAlerts(c, e), ReconConfig.cooldown)
             answer == Answer([contacts |-> contacts, last |-> said.last], said.alerts)
             new == ReconProcess(state, e)
  <1>1. CASE e.src \in AuthorizedSources
    <2>1. ReconProcess(state, e).state = state /\ ReconProcess(state, e).alerts = <<>>
      BY <1>1 DEF ReconProcess, Answer
    <2> HIDE DEF new
    <2> QED BY <2>1, NoneMarked, EmptyIsSeq
  <1>2. CASE e.src \notin AuthorizedSources
    <2>1. new = answer
      BY <1>2 DEF ReconProcess
    <2> HIDE DEF new
    <2>2. IsSeq(old) /\ Latest(old, e.ts) /\ \A x \in Range(old) : Good("time", x)
      BY AtWindow, EmptyIsSeq DEF At, Dated, Latest, ReconGood
    <2> HIDE DEF old
    <2>3. Good("time", e)
      BY DEF Good
    <2>4. Window("time", w) /\ Last(w) = e /\ Range(w) = Range(old) \cup {e}
      BY <2>2, <2>3, JoinedWindow, AppendIsSeq
    <2>5. Window("time", c) /\ Range(c) \subseteq Range(w) /\ Last(c) = e
      <3> HIDE DEF w
      <3>1. e.ts - ReconConfig.window \in Int /\ e.ts - ReconConfig.window <= e.ts
        BY ReconConfigAssumption DEF ReconConfigValid
      <3> QED BY <2>4, <3>1, EvictedWindow, EvictedFrom
    <2>6. Latest(c, e.ts)
      <3> HIDE DEF c, w
      <3>1. e.ts <= e.ts
        OBVIOUS
      <3> QED BY <2>2, <2>4, <2>5, <3>1 DEF Latest
    <2> HIDE DEF c
    <2>7. /\ DOMAIN contacts = DOMAIN state.contacts \cup {e.src} /\ contacts[e.src] = c
          /\ \A k \in DOMAIN state.contacts : k # e.src => contacts[k] = state.contacts[k]
      BY DEF Put
    <2>8. IsSeq(said.alerts) /\ \A a \in Range(said.alerts) : ScanMarked(a, e)
      <3>1. IsSeq(ScanAlerts(c, e)) /\ \A a \in Range(ScanAlerts(c, e)) : ScanMarked(a, e)
        BY <2>5, <2>6, ScanAlertsMarked
      <3> QED BY <3>1, SpacedWithin
    <2> HIDE DEF contacts, said
    <2>9. new.state.contacts = contacts /\ new.alerts = said.alerts
      BY <2>1 DEF Answer
    <2> HIDE DEF answer
    <2>10. Dated(e.ts, contacts)
      BY <2>6, <2>7 DEF Dated
    <2>11. Recents(contacts)
      BY <2>5, <2>6, <2>7 DEF Recents
    <2>12. AllMarked(said.alerts, e.ts, fw)
      BY <2>8 DEF AllMarked, ScanMarked, Marked
    <2>13. \A a \in Range(said.alerts) : Follows(contacts, a)
      <3>1. e.ts <= e.ts
        OBVIOUS
      <3> QED BY <2>5, <2>7, <2>8, <3>1 DEF Follows, ScanMarked, Marked
    <2>14. ASSUME NEW a, a.end \in Int, Follows(state.contacts, a), a.type = "reconnaissance"
           PROVE  a.src \in DOMAIN contacts /\ a.end <= Last(contacts[a.src]).ts
      <3>1. a.src \in DOMAIN state.contacts /\ a.end <= Last(state.contacts[a.src]).ts
        BY <2>14 DEF Follows
      <3>2. CASE a.src # e.src
        BY <2>7, <3>1, <3>2
      <3>3. CASE a.src = e.src
        <4> DEFINE before == state.contacts[e.src]
        <4>1. Window("time", before) /\ Latest(before, e.ts)
          BY <3>1, <3>3 DEF ReconGood, Windows, Dated
        <4> HIDE DEF before
        <4>2. Last(before).ts \in Int /\ Last(before).ts <= e.ts
          <5>1. Len(before) \in 1..Len(before) /\ Last(before) = before[Len(before)] /\ IsSeq(before)
            BY <4>1, WindowFacts DEF Last, Window
          <5>2. Last(before) \in Range(before)
            BY <5>1, SeqFacts
          <5> QED BY <4>1, <5>2 DEF Latest, Window, Good
        <4>3. a.end <= Last(before).ts
          BY <3>1, <3>3 DEF before
        <4>4. a.end <= e.ts
          BY <2>14, <4>2, <4>3
        <4> QED BY <2>5, <2>7, <3>3, <4>4
      <3> QED BY <3>2, <3>3
    <2>15. \A a : a.end \in Int /\ Follows(state.contacts, a) => Follows(contacts, a)
      BY <2>14 DEF Follows
    <2> QED BY <2>9, <2>10, <2>11, <2>12, <2>13, <2>15 DEF new
  <1> QED BY <1>1, <1>2

(* Alerts of another family than the scans' are no scans.                  *)
Heads(family, r) == IsSeq(r) /\ \A a \in Range(r) : a.cool[1] = family
LEMMA SpeaksHead ==
  ASSUME NEW family, NEW ts, NEW old, NEW new, NEW free, Speaks(family, ts, old, new, free)
  PROVE  Heads(family, new.alerts)
  <1>1. PICK found : Sound(family, ts, found) /\ new.alerts = Spaced(old.last, found, Pause(family)).alerts
    BY DEF Speaks
  <1> QED BY <1>1, SpacedWithin DEF Sound, Heads
Scanless(found) == \A a \in Range(found) : a.type # "reconnaissance"
LEMMA HeadsScanless ==
  ASSUME NEW family, family # "recon", NEW found, Heads(family, found), NEW ts, NEW fw, AllMarked(found, ts, fw)
  PROVE  Scanless(found)
  <1>1. \A a \in Range(found) : Labelled(a) /\ a.cool[1] # "recon"
    BY DEF Heads, AllMarked, Marked
  <1>2. \A a : ReconLabel(a) => a.cool[1] = "recon"
    BY DEF ReconLabel
  <1>3. \A a : DDoSLabel(a) \/ DNSLabel(a) \/ PlainLabel(a) => a.type # "reconnaissance"
    BY DEF DDoSLabel, DNSLabel, PlainLabel
  <1> QED BY <1>1, <1>2, <1>3 DEF Scanless, Labelled
(* Naming alerts leaves the scans among them as they are.                  *)
LEMMA NamedFollows ==
  ASSUME NEW ts, NEW fw, NEW found, AllMarked(found, ts, fw), NEW contacts,
         \A a \in Range(found) : Follows(contacts, a), NEW e
  PROVE  \A a \in Range(WithNames(found, e)) : Follows(contacts, a)
  <1> DEFINE named == WithNames(found, e)
  <1>1. named = [i \in DOMAIN found |-> [found[i] EXCEPT !.names = Named(e)]]
    BY DEF WithNames
  <1>2. \A i \in DOMAIN found : Labelled(found[i]) /\ Follows(contacts, found[i])
    BY SeqFacts DEF AllMarked, Marked
  <1>3. \A a, names : Labelled(a) /\ Follows(contacts, a) => Follows(contacts, [a EXCEPT !.names = names])
    <2> TAKE a, names
    <2> DEFINE b == [a EXCEPT !.names = names]
    <2>1. \A k \in DOMAIN a : k # "names" => b[k] = a[k]
      OBVIOUS
    <2> HIDE DEF b
    <2>2. Labelled(a) => b.type = a.type /\ b.src = a.src /\ b.end = a.end
      BY <2>1 DEF Labelled
    <2>3. Labelled(a) /\ Follows(contacts, a) => Follows(contacts, b)
      BY <2>2 DEF Follows
    <2> QED BY <2>3 DEF b
  <1> HIDE DEF named
  <1>4. DOMAIN named = DOMAIN found /\ \A a \in Range(named) : \E i \in DOMAIN named : a = named[i]
    BY <1>1 DEF Range
  <1>5. \A i \in DOMAIN named : Follows(contacts, named[i])
    BY <1>1, <1>2, <1>3, <1>4
  <1>6. \A a \in Range(named) : Follows(contacts, a)
    BY <1>4, <1>5
  <1> QED BY <1>6 DEF named

(* No window holds anything from after t; in a later session the kept one  *)
(* of the transfers may.                                                   *)
AllDated(t) ==
  /\ Dated(t, recon.contacts) /\ DDoSDated(t, ddos) /\ Dated(t, c2.windows) /\ DNSDated(t, dns)
  /\ Dated(t, encrypted.windows)
  /\ session = 1 => Dated(t, exfil.windows)
LEMMA DatedLater ==
  ASSUME NEW tag, NEW map, Windows(tag, map), NEW t \in Int, Dated(t, map), NEW u \in Int, t <= u
  PROVE  Dated(u, map)
  <1>1. \A k \in DOMAIN map : \A x \in Range(map[k]) : x.ts \in Int
    BY DEF Windows, Window, Good
  <1> QED BY <1>1 DEF Dated, Latest
LEMMA AllDatedLater ==
  ASSUME StatesGood, NEW t \in Int, AllDated(t), NEW u \in Int, t <= u
  PROVE  AllDated(u)
  <1>1. \A tag, map : Windows(tag, map) /\ Dated(t, map) => Dated(u, map)
    BY DatedLater
  <1> QED BY <1>1 DEF AllDated, DDoSDated, DNSDated, StatesGood, ReconGood, DDoSGood, C2Good, DNSGood,
                     ExfilGood, EncryptedGood

(* What an event adds to the session's alerts.                             *)
ScansKept == \A a : a.end \in Int /\ Follows(recon.contacts, a) => Follows(recon'.contacts, a)
Tells(ts, found) ==
  /\ AllMarked(found, ts, session = 1) /\ \A a \in Range(found) : Follows(recon'.contacts, a)
  /\ alerts' = alerts \o found /\ raised' = raised \o found /\ latest' = ts
  /\ UNCHANGED <<profile, finished, session, report>>
Labels(ts, found) == AllDated(ts)' /\ ScansKept /\ Recents(recon.contacts)' /\ Tells(ts, found)
LEMMA RecordsTells ==
  ASSUME NEW e, NEW found, NEW loud, Records(e, found, loud), AllMarked(found, e.ts, session = 1),
         \A a \in Range(found) : Follows(recon'.contacts, a)
  PROVE  Tells(e.ts, found)
  BY DEF Records, Tells
LEMMA ConnectionLabels ==
  ASSUME StatesGood, HaveFields, Recents(recon.contacts), NEW e, EventSound(e), Measured(e),
         ProcessConnection(e), AllDated(e.ts)
  PROVE  \E found : Labels(e.ts, found)
  <1> DEFINE s == States
             met == Seen(e)
             v == View(Setup, e)
             said == Said(e)
             fw == session = 1
  <1>0. e.kind = "connection"
    BY ConnectionStates
  <1>1. s.recon = recon /\ s.ddos = ddos /\ s.c2 = c2 /\ s.exfil = exfil
    BY DEF States
  <1>2. e.ts \in Int /\ Good("connection", e) /\ (v # None => Good("connection", v) /\ v.ts = e.ts)
    BY <1>0, ViewGood, ViewTime DEF EventSound
  <1> HIDE DEF s, met, v, fw
  <1>3. /\ said.recon = IF On("recon") THEN ReconProcess(recon, e) ELSE Answer(recon, <<>>)
        /\ said.ddos = IF On("ddos") THEN DDoSProcess(ddos, e, Setup.strict) ELSE Answer(ddos, <<>>)
        /\ said.c2 = IF On("c2") THEN C2Process(c2, e, met) ELSE Answer(c2, <<>>)
        /\ said.exfil = IF On("exfiltration") /\ v # None THEN ExfilProcess(exfil, v) ELSE Answer(exfil, <<>>)
    BY <1>1 DEF Said, Connection, s, met, v
  <1>4. \A state : Answer(state, <<>>).state = state /\ Answer(state, <<>>).alerts = <<>>
    BY DEF Answer
  <1>s. /\ Heads("ddos", said.ddos.alerts) /\ Heads("c2", said.c2.alerts) /\ Heads("exfil", said.exfil.alerts)
    BY ConnectionSpeaks, SpeaksHead
  <1>k. fw => Dated(e.ts, exfil.windows)
    BY DEF AllDated, fw
  <1> HIDE DEF said
  <1>5. /\ Dated(e.ts, said.recon.state.contacts) /\ Recents(said.recon.state.contacts)
        /\ AllMarked(said.recon.alerts, e.ts, fw)
        /\ \A a \in Range(said.recon.alerts) : Follows(said.recon.state.contacts, a)
        /\ \A a : a.end \in Int /\ Follows(recon.contacts, a) => Follows(said.recon.state.contacts, a)
    <2>1. CASE On("recon")
      <3>1. said.recon = ReconProcess(recon, e)
        BY <1>3, <2>1
      <3>2. ReconGood(recon) /\ Dated(e.ts, recon.contacts)
        BY DEF StatesGood, AllDated
      <3> QED BY <1>2, <3>1, <3>2, ReconMarked
    <2>2. CASE ~On("recon")
      <3>1. said.recon.state = recon /\ said.recon.alerts = <<>>
        BY <1>3, <1>4, <2>2
      <3>2. Dated(e.ts, recon.contacts)
        BY DEF AllDated
      <3> QED BY <3>1, <3>2, NoneMarked, EmptyIsSeq
    <2> QED BY <2>1, <2>2
  <1>6. DDoSDated(e.ts, said.ddos.state) /\ AllMarked(said.ddos.alerts, e.ts, fw)
    <2>1. CASE On("ddos")
      <3>1. said.ddos = DDoSProcess(ddos, e, Setup.strict)
        BY <1>3, <2>1
      <3> QED BY <1>2, <3>1, DDoSMarked DEF StatesGood, AllDated
    <2>2. CASE ~On("ddos")
      <3>1. said.ddos.state = ddos /\ said.ddos.alerts = <<>>
        BY <1>3, <1>4, <2>2
      <3> QED BY <3>1, NoneMarked DEF AllDated
    <2> QED BY <2>1, <2>2
  <1>7. Dated(e.ts, said.c2.state.windows) /\ AllMarked(said.c2.alerts, e.ts, fw)
    BY <1>2, <1>3, <1>4, C2Marked, NoneMarked DEF StatesGood, AllDated
  <1>8. (fw => Dated(e.ts, said.exfil.state.windows)) /\ AllMarked(said.exfil.alerts, e.ts, fw)
    <2>1. CASE On("exfiltration") /\ v # None
      <3>1. said.exfil = ExfilProcess(exfil, v)
        BY <1>3, <2>1
      <3>2. ExfilGood(exfil) /\ Good("connection", v) /\ v.ts = e.ts
        BY <1>2, <2>1 DEF StatesGood
      <3>3. /\ fw => Dated(v.ts, ExfilProcess(exfil, v).state.windows)
            /\ AllMarked(ExfilProcess(exfil, v).alerts, v.ts, fw)
        BY <1>k, <3>2, ExfilMarked
      <3> QED BY <3>1, <3>2, <3>3
    <2>2. CASE ~(On("exfiltration") /\ v # None)
      <3>1. said.exfil.state = exfil /\ said.exfil.alerts = <<>>
        BY <1>3, <1>4, <2>2
      <3> QED BY <1>k, <3>1, NoneMarked
    <2> QED BY <2>1, <2>2
  <1> DEFINE all == Raised(said)
  <1>9. /\ AllMarked(all, e.ts, fw)
        /\ Range(all) = Range(said.recon.alerts) \cup Range(said.ddos.alerts)
                        \cup Range(said.c2.alerts) \cup Range(said.exfil.alerts)
    <2> DEFINE x == said.recon.alerts \o said.ddos.alerts
               y == x \o said.c2.alerts
               z == y \o said.exfil.alerts
    <2>1. AllMarked(x, e.ts, fw) /\ Range(x) = Range(said.recon.alerts) \cup Range(said.ddos.alerts)
      BY <1>5, <1>6, ConcatMarked, ConcatRange DEF AllMarked
    <2> HIDE DEF x
    <2>2. AllMarked(y, e.ts, fw) /\ Range(y) = Range(x) \cup Range(said.c2.alerts)
      BY <1>7, <2>1, ConcatMarked, ConcatRange DEF AllMarked
    <2> HIDE DEF y
    <2>3. AllMarked(z, e.ts, fw) /\ Range(z) = Range(y) \cup Range(said.exfil.alerts)
      BY <1>8, <2>2, ConcatMarked, ConcatRange DEF AllMarked
    <2>4. all = z
      BY Zenon DEF Raised, x, y
    <2> HIDE DEF z, all
    <2> QED BY <2>1, <2>2, <2>3, <2>4
  <1>10. \A a \in Range(all) : Follows(said.recon.state.contacts, a)
    <2>1. Scanless(said.ddos.alerts) /\ Scanless(said.c2.alerts) /\ Scanless(said.exfil.alerts)
      BY <1>s, <1>6, <1>7, <1>8, HeadsScanless
    <2>2. \A a : a.type # "reconnaissance" => Follows(said.recon.state.contacts, a)
      BY DEF Follows
    <2> HIDE DEF all
    <2> QED BY <1>5, <1>9, <2>1, <2>2 DEF Scanless
  <1> HIDE DEF all
  <1>11. /\ AllMarked(WithNames(all, e), e.ts, fw)
         /\ \A a \in Range(WithNames(all, e)) : Follows(said.recon.state.contacts, a)
    BY <1>9, <1>10, NamedMarked, NamedFollows
  <1>12. /\ recon' = said.recon.state /\ ddos' = said.ddos.state
         /\ c2' = said.c2.state /\ exfil' = said.exfil.state
         /\ Records(e, WithNames(all, e), Raised(Free(e)))
         /\ UNCHANGED <<context, dns, features, encrypted>>
    BY Zenon DEF ProcessConnection, said, Said, Free, States, Seen, all
  <1>13. Tells(e.ts, WithNames(all, e))
    BY <1>11, <1>12, RecordsTells DEF fw
  <1>14. AllDated(e.ts)'
    <2>1. session' = session
      BY <1>13 DEF Tells
    <2>2. DNSDated(e.ts, dns) /\ Dated(e.ts, encrypted.windows)
      BY DEF AllDated
    <2> QED BY <1>5, <1>6, <1>7, <1>8, <1>12, <2>1, <2>2 DEF AllDated, DDoSDated, DNSDated, Dated, fw
  <1>15. ScansKept /\ Recents(recon.contacts)'
    BY <1>5, <1>12 DEF ScansKept, Recents
  <1> QED BY <1>13, <1>14, <1>15 DEF Labels
LEMMA LookUpLabels ==
  ASSUME ScoresNumeric, StatesGood, HaveFields, Recents(recon.contacts), NEW e, EventSound(e),
         ProcessDNS(e), AllDated(e.ts)
  PROVE  \E found : Labels(e.ts, found)
  <1> DEFINE new == IF On("dns") THEN DNSProcess(dns, e) ELSE Answer(dns, <<>>)
             uncooled == IF On("dns") THEN DNSProcess(Uncooled(dns), e).alerts ELSE <<>>
             fw == session = 1
  <1>1. /\ dns' = new.state /\ Records(e, new.alerts, uncooled)
        /\ UNCHANGED <<recon, ddos, c2, exfil, features, encrypted>>
    BY Zenon DEF ProcessDNS
  <1>2. Answer(dns, <<>>).state = dns /\ Answer(dns, <<>>).alerts = <<>> /\ e.ts \in Int
    BY DEF Answer, EventSound
  <1> HIDE DEF uncooled, fw
  <1>3. /\ DNSDated(e.ts, new.state) /\ AllMarked(new.alerts, e.ts, fw) /\ Scanless(new.alerts)
    <2>1. CASE On("dns")
      <3> DEFINE said == DNSProcess(dns, e)
      <3>1. DNSGood(dns) /\ DNSDated(e.ts, dns) /\ Fields("dns") \subseteq DOMAIN dns
        BY DEF StatesGood, AllDated, HaveFields
      <3>2. DNSDated(e.ts, said.state) /\ AllMarked(said.alerts, e.ts, fw)
        BY <1>2, <3>1, DNSMarked
      <3>3. Heads("dns", said.alerts)
        BY <3>1, DNSSpeaks, SpeaksHead
      <3> HIDE DEF said
      <3>4. Scanless(said.alerts)
        BY <3>2, <3>3, HeadsScanless
      <3> QED BY <2>1, <3>2, <3>4 DEF said
    <2>2. CASE ~On("dns")
      <3>1. new.state = dns /\ new.alerts = <<>>
        BY <1>2, <2>2
      <3> HIDE DEF new
      <3> QED BY <3>1, NoneMarked, EmptyIsSeq DEF AllDated, Scanless
    <2> QED BY <2>1, <2>2
  <1> HIDE DEF new
  <1>4. Tells(e.ts, new.alerts)
    <2>1. \A a \in Range(new.alerts) : Follows(recon'.contacts, a)
      BY <1>3 DEF Scanless, Follows
    <2> QED BY <1>1, <1>3, <2>1, RecordsTells DEF fw
  <1>5. AllDated(e.ts)' /\ ScansKept /\ Recents(recon.contacts)'
    <2>1. session' = session
      BY <1>4 DEF Tells
    <2> QED BY <1>1, <1>3, <2>1 DEF AllDated, DDoSDated, DNSDated, Dated, ScansKept, Recents
  <1> QED BY <1>4, <1>5 DEF Labels
LEMMA SessionLabels ==
  ASSUME ScoresNumeric, StatesGood, HaveFields, Recents(recon.contacts), NEW e, EventSound(e), Measured(e),
         ProcessEncrypted(e), AllDated(e.ts)
  PROVE  \E found : Labels(e.ts, found)
  <1> DEFINE rich == Enrich(features, e, ~Setup.derived)
             x == rich.event
             new == IF On("encrypted") THEN EncryptedProcess(encrypted, x) ELSE Answer(encrypted, <<>>)
             uncooled == IF On("encrypted") THEN EncryptedProcess(Uncooled(encrypted), x).alerts ELSE <<>>
             fw == session = 1
  <1>1. /\ e.kind = "encrypted" /\ encrypted' = new.state
        /\ Records(x, WithNames(new.alerts, e), uncooled)
        /\ UNCHANGED <<context, recon, ddos, c2, dns, exfil>>
    BY Zenon DEF ProcessEncrypted
  <1>2. x.ts = e.ts /\ e.ts \in Int /\ (x.features # None => Good("features", x))
    <2>1. \E log, supplied : x = Enriched(log, e, supplied)
      BY DEF Enrich
    <2>2. e.ts \in Int /\ "ts" \in DOMAIN e
      BY DEF EventSound
    <2> HIDE DEF x
    <2> QED BY <1>1, <2>1, <2>2, EnrichedGood
  <1>3. Answer(encrypted, <<>>).state = encrypted /\ Answer(encrypted, <<>>).alerts = <<>>
    BY DEF Answer
  <1> HIDE DEF uncooled, x, fw
  <1>4. Dated(e.ts, new.state.windows) /\ AllMarked(new.alerts, e.ts, fw) /\ Scanless(new.alerts)
    <2>1. CASE On("encrypted")
      <3> DEFINE said == EncryptedProcess(encrypted, x)
      <3>1. EncryptedGood(encrypted) /\ Dated(e.ts, encrypted.windows) /\ Fields("encrypted") \subseteq DOMAIN encrypted
        BY DEF StatesGood, AllDated, HaveFields
      <3>2. Dated(e.ts, said.state.windows) /\ AllMarked(said.alerts, e.ts, fw)
        <4>1. Dated(x.ts, said.state.windows) /\ AllMarked(said.alerts, x.ts, fw)
          BY <1>2, <3>1, EncryptedMarked
        <4> HIDE DEF said
        <4> QED BY <1>2, <4>1
      <3>3. Heads("encrypted", said.alerts)
        BY <3>1, EncryptedSpeaks, SpeaksHead
      <3> HIDE DEF said
      <3>4. Scanless(said.alerts)
        BY <3>2, <3>3, HeadsScanless
      <3> QED BY <2>1, <3>2, <3>4 DEF said
    <2>2. CASE ~On("encrypted")
      <3>1. new.state = encrypted /\ new.alerts = <<>>
        BY <1>3, <2>2
      <3> HIDE DEF new
      <3> QED BY <3>1, NoneMarked, EmptyIsSeq DEF AllDated, Scanless
    <2> QED BY <2>1, <2>2
  <1> HIDE DEF new
  <1> DEFINE named == WithNames(new.alerts, e)
  <1>5. /\ AllMarked(named, e.ts, fw)
        /\ \A a \in Range(named) : Follows(recon'.contacts, a)
    <2>1. \A a \in Range(new.alerts) : Follows(recon'.contacts, a)
      BY <1>4 DEF Scanless, Follows
    <2> QED BY <1>4, <2>1, NamedMarked, NamedFollows
  <1> HIDE DEF named
  <1>6. Tells(e.ts, named)
    <2>1. Records(x, named, uncooled)
      BY <1>1 DEF named
    <2> QED BY <1>2, <1>5, <2>1, RecordsTells DEF fw
  <1>7. AllDated(e.ts)' /\ ScansKept /\ Recents(recon.contacts)'
    <2>1. session' = session
      BY <1>6 DEF Tells
    <2> QED BY <1>1, <1>4, <2>1 DEF AllDated, DDoSDated, DNSDated, Dated, ScansKept, Recents
  <1> QED BY <1>6, <1>7 DEF Labels

(* Every alert of the session bears its label and was raised; no scan ends *)
(* after the contacts of its source; no window holds anything from after   *)
(* the latest event.  In the first session no alert ends before it starts. *)
LabelInv ==
  /\ session >= 1
  /\ \A a \in Range(alerts) : Labelled(a) /\ a \in Range(raised) /\ Follows(recon.contacts, a)
  /\ Recents(recon.contacts)
  /\ session = 1 => \A a \in Range(alerts) : a.start <= a.end
  /\ \A t \in Int : latest = None \/ latest <= t => AllDated(t)
  /\ finished => report.findings = ResolveFindings(alerts \o Snapshots)
LEMMA NothingDated == \A t : Dated(t, <<>>)
  BY DEF Dated
LEMMA FreshDated ==
  \A t : /\ Dated(t, ReconFresh.contacts) /\ DDoSDated(t, DDoSFresh) /\ Dated(t, C2Fresh.windows)
         /\ DNSDated(t, DNSFresh) /\ Dated(t, EncryptedFresh.windows) /\ Dated(t, ExfilFresh.windows)
  BY NothingDated DEF DDoSDated, DNSDated, ReconFresh, DDoSFresh, C2Fresh, DNSFresh, EncryptedFresh, ExfilFresh
LEMMA FreshRecents == Recents(ReconFresh.contacts)
  <1>1. DOMAIN ReconFresh.contacts = {}
    BY DEF ReconFresh
  <1> QED BY <1>1 DEF Recents
LEMMA LabelInit == Init => LabelInv
  <1> SUFFICES ASSUME Init PROVE LabelInv
    OBVIOUS
  <1>1. /\ alerts = <<>> /\ session = 1 /\ latest = None /\ finished = FALSE
        /\ recon = ReconFresh /\ ddos = DDoSFresh /\ c2 = C2Fresh /\ dns = DNSFresh
        /\ exfil = ExfilFresh /\ encrypted = EncryptedFresh
    BY DEF Init
  <1> QED BY <1>1, FreshDated, FreshRecents, EmptyIsSeq DEF LabelInv, AllDated
LEMMA ArrivalLabels ==
  ASSUME ScoresNumeric, TimeInv, FullInv, HonestInv, LabelInv, Arrives
  PROVE  ~finished /\ \E ts \in Int : (latest = None \/ latest <= ts) /\ \E found : Labels(ts, found)
  <1>1. PICK e : /\ EventSound(e) /\ Measured(e)
                 /\ ProcessConnection(e) \/ ProcessDNS(e) \/ ProcessEncrypted(e)
    BY EventsMeasured
  <1>2. Accepts(e) /\ e.ts \in Int
    BY <1>1 DEF ProcessConnection, ProcessDNS, ProcessEncrypted, EventSound
  <1>3. latest = None \/ latest <= e.ts
    BY <1>2 DEF Accepts, TimeInv
  <1>4. AllDated(e.ts) /\ StatesGood /\ Recents(recon.contacts) /\ HaveFields
    BY <1>2, <1>3 DEF LabelInv, FullInv, HonestInv, AllRemember, Remembers, HaveFields
  <1>5. \E found : Labels(e.ts, found)
    BY <1>1, <1>4, ConnectionLabels, LookUpLabels, SessionLabels
  <1> QED BY <1>2, <1>3, <1>5 DEF Accepts
LEMMA LabelStep ==
  ASSUME ScoresNumeric, SessionInv, FullInv, FullInv', HonestInv, LabelInv, [Next]_vars
  PROVE  LabelInv'
  <1>1. CASE Arrives
    <2>0. PICK ts \in Int : ~finished /\ \E found : Labels(ts, found)
      BY <1>1, ArrivalLabels DEF SessionInv
    <2>1. PICK found : Labels(ts, found) /\ ~finished
      BY <2>0
    <2>2. IsSeq(alerts) /\ IsSeq(raised) /\ \A a \in Range(alerts) : Full(a)
      BY DEF FullInv, AllFull, HonestInv, Honest, Alarms
    <2>3. /\ AllMarked(found, ts, session = 1) /\ \A a \in Range(found) : Follows(recon'.contacts, a)
          /\ alerts' = alerts \o found /\ raised' = raised \o found /\ latest' = ts
          /\ UNCHANGED <<finished, session, report>>
      BY <2>1 DEF Labels, Tells
    <2>4. Range(alerts') = Range(alerts) \cup Range(found) /\ Range(raised') = Range(raised) \cup Range(found)
      BY <2>2, <2>3, ConcatRange DEF AllMarked
    <2>5. \A a \in Range(alerts) : a.end \in Int /\ Follows(recon'.contacts, a)
      <3>1. \A a \in Range(alerts) : a.end \in Int /\ Follows(recon.contacts, a)
        BY <2>2 DEF Full, LabelInv
      <3> QED BY <2>1, <3>1 DEF Labels, ScansKept
    <2>6. \A a \in Range(alerts') : Labelled(a) /\ a \in Range(raised') /\ Follows(recon'.contacts, a)
      BY <2>3, <2>4, <2>5 DEF LabelInv, AllMarked, Marked
    <2>7. session = 1 => \A a \in Range(alerts') : a.start <= a.end
      <3> SUFFICES ASSUME session = 1, NEW a \in Range(alerts') PROVE a.start <= a.end
        OBVIOUS
      <3>1. CASE a \in Range(alerts)
        BY <3>1 DEF LabelInv
      <3>2. CASE a \in Range(found)
        BY <2>3, <3>2 DEF AllMarked, Marked
      <3> QED BY <2>4, <3>1, <3>2
    <2>8. \A t \in Int : latest' = None \/ latest' <= t => AllDated(t)'
      <3>1. latest' \in Int /\ None \notin Int /\ AllDated(ts)'
        BY <2>1, <2>3, TrafficAssumption DEF Labels
      <3>2. StatesGood'
        BY DEF FullInv
      <3>3. ASSUME StatesGood, NEW t \in Int, AllDated(ts), ts <= t PROVE AllDated(t)
        BY <3>3, AllDatedLater
      <3>4. ASSUME StatesGood', NEW t \in Int, AllDated(ts)', ts <= t PROVE AllDated(t)'
        <4>1. \A tag, map : Windows(tag, map) /\ Dated(ts, map) => Dated(t, map)
          BY <3>4, DatedLater
        <4> QED BY <3>4, <4>1 DEF AllDated, DDoSDated, DNSDated, StatesGood, ReconGood, DDoSGood, C2Good, DNSGood,
                     ExfilGood, EncryptedGood, Windows, Dated
      <3> QED BY <2>3, <3>1, <3>2, <3>4
    <2> QED BY <2>1, <2>3, <2>6, <2>7, <2>8 DEF LabelInv, Labels, Recents, Follows
  <1>2. CASE Complete \/ UNCHANGED vars
    <2>1. UNCHANGED <<profile, session, alerts, raised, latest, recon, ddos, c2, dns, exfil, encrypted>>
      BY <1>2 DEF Complete, vars, detectors
    <2>2. Snapshots' = Snapshots
      BY <2>1 DEF Snapshots, On, Setup
    <2>3. finished' => report'.findings = ResolveFindings(alerts' \o Snapshots')
      <3>1. CASE Complete
        BY <2>1, <2>2, <3>1 DEF Complete
      <3>2. CASE UNCHANGED vars
        BY <2>1, <2>2, <3>2 DEF vars, LabelInv
      <3> QED BY <1>2, <3>1, <3>2
    <2>4. \A t \in Int : AllDated(t) => AllDated(t)'
      BY <2>1 DEF AllDated, DDoSDated, DNSDated, Dated
    <2> QED BY <2>1, <2>3, <2>4 DEF LabelInv, Recents, Follows
  <1>3. CASE Resume
    <2>1. /\ alerts' = <<>> /\ session' = session + 1 /\ finished' = FALSE
          /\ recon' = ReconFresh /\ ddos' = DDoSFresh /\ c2' = C2Fresh /\ dns' = DNSFresh
          /\ encrypted' = EncryptedFresh
      BY <1>3 DEF Resume
    <2>2. session' >= 1 /\ session' # 1
      BY <2>1 DEF LabelInv, FullInv
    <2>3. \A t : AllDated(t)'
      BY <2>1, <2>2, FreshDated DEF AllDated, DDoSDated, DNSDated, Dated
    <2>4. Recents(recon'.contacts)
      BY <2>1, FreshRecents
    <2>5. Range(alerts') = {}
      BY <2>1, EmptyIsSeq
    <2> QED BY <2>1, <2>2, <2>3, <2>4, <2>5 DEF LabelInv, Recents, Follows
  <1> QED BY <1>1, <1>2, <1>3 DEF Next

(* The scans still open end with the contacts of their source.             *)
Closing(contacts, a) ==
  /\ ReconLabel(a) /\ Labelled(a) /\ a.src \in DOMAIN contacts /\ a.end = Last(contacts[a.src]).ts
  /\ a.start <= a.end
Shut(state, found) == IsSeq(found) /\ \A a \in Range(found) : Closing(state.contacts, a)
Shutting == INSTANCE FoldProofs WITH Op <- OpenStep, Holds <- Shut
LEMMA SnapshotsClose ==
  ASSUME NEW state, ReconGood(state), Recents(state.contacts)
  PROVE  Shut(state, FinalAlerts(state))
  <1> DEFINE srcs == SetToSeq(DOMAIN state.contacts)
  <1>1. IsSeq(srcs) /\ Range(srcs) \subseteq DOMAIN state.contacts
    BY SetToSeqRange DEF ReconGood
  <1> HIDE DEF srcs
  <1>2. Len(srcs) \in Nat /\ \A i \in 1..Len(srcs) : srcs[i] \in DOMAIN state.contacts
    BY <1>1, SeqFacts
  <1>3. ASSUME NEW i \in 1..Len(srcs), NEW acc, Shut(state, acc)
        PROVE  Shut(state, OpenStep(state, acc, srcs[i]))
    <2> DEFINE k == srcs[i]
               c == state.contacts[k]
               new == ScanAlerts(c, Last(c))
    <2>1. Window("time", c) /\ Last(c).src = k /\ Latest(c, Last(c).ts) /\ k \in DOMAIN state.contacts
      BY <1>2 DEF ReconGood, Windows, Recents
    <2>2. OpenStep(state, acc, srcs[i]) = acc \o new
      BY DEF OpenStep
    <2>c. state.contacts[k] = c
      OBVIOUS
    <2> HIDE DEF c, k
    <2>3. Last(c).ts \in Int
      <3>1. Len(c) \in 1..Len(c) /\ Last(c) = c[Len(c)]
        BY <2>1, WindowFacts DEF Last
      <3> QED BY <2>1, <3>1, WindowFacts DEF Good
    <2>4. IsSeq(new) /\ \A a \in Range(new) : ScanMarked(a, Last(c))
      BY <2>1, <2>3, ScanAlertsMarked
    <2> HIDE DEF new
    <2>5. \A a \in Range(new) : Closing(state.contacts, a)
      BY <2>1, <2>c, <2>4 DEF Closing, ScanMarked, Marked
    <2>6. IsSeq(acc \o new) /\ Range(acc \o new) = Range(acc) \cup Range(new)
      BY <1>3, <2>4, ConcatRange DEF Shut
    <2> QED BY <1>3, <2>2, <2>5, <2>6 DEF Shut
  <1>4. Shut(state, <<>>)
    BY EmptyIsSeq DEF Shut
  <1>5. Shut(state, Shutting!Result(state, <<>>, srcs))
    BY <1>2, <1>3, <1>4, Shutting!FoldInvariant
  <1>6. FinalAlerts(state) = Shutting!Result(state, <<>>, srcs)
    BY DEF FinalAlerts, Shutting!Result, Shutting!Folded, Folded, OpenStep, srcs
  <1> QED BY <1>5, <1>6

(* Under a cooldown a detector has no two alerts of one key at one time.   *)
LEMMA SameAlert ==
  ASSUME NEW r, Alarms(r), Apart(r), NEW a \in Range(r), NEW b \in Range(r),
         a.cool = b.cool, a.end = b.end, Pause(a.cool[1]) > 0
  PROVE  a = b
  <1>1. PICK i \in 1..Len(r) : r[i] = a
    BY FoundAt DEF Alarms
  <1>2. PICK j \in 1..Len(r) : r[j] = b
    BY FoundAt DEF Alarms
  <1>3. Len(r) \in Nat /\ a.end \in Int
    BY SeqFacts DEF Alarms
  <1>4. CooldownOf(a.cool) > 0 /\ CooldownOf(a.cool) \in Int
    BY PauseOf, PauseType
  <1>5. ~ i < j
    <2>1. i < j => b.end - a.end >= CooldownOf(a.cool)
      BY <1>1, <1>2 DEF Apart
    <2> QED BY <1>3, <1>4, <2>1
  <1>6. ~ j < i
    <2>1. j < i => a.end - b.end >= CooldownOf(b.cool)
      BY <1>1, <1>2 DEF Apart
    <2> QED BY <1>3, <1>4, <2>1
  <1> QED BY <1>1, <1>2, <1>3, <1>5, <1>6
(* What an id tells of the alert that bears it.                            *)
LEMMA IdTells ==
  ASSUME NEW a, Labelled(a), NEW b, Labelled(b), a.id = b.id
  PROVE  \/ Family(a) = Family(b)
         \/ (DDoSLabel(a) \/ DNSLabel(a)) /\ ~ReconLabel(a) /\ ~ReconLabel(b) /\ a.cool = b.cool /\ a.end = b.end
         \/ /\ ReconLabel(a) /\ ReconLabel(b) /\ a.cool = b.cool /\ a.end = b.end /\ a.src = b.src
  <1>1. \A x : /\ ReconLabel(x) => x.id[1] = "recon" /\ x.id[2] = x.subtype /\ x.id[3] = x.src /\ x.id[5] = x.end
               /\ DDoSLabel(x) => x.id[1] = "ddos" /\ x.id[2] = x.subtype /\ x.id[3] = x.dst /\ x.id[5] = x.end
               /\ DNSLabel(x) => x.id[1] = "dns" /\ x.id[2] = x.subtype /\ x.id[3] = x.src /\ x.id[5] = x.end
    BY DEF ReconLabel, DDoSLabel, DNSLabel
  <1>2. \A x : PlainLabel(x) =>
          /\ x.id[1] \in {"c2", "exfil", "encrypted"} /\ x.id[2] = x.src /\ x.id[3] = x.dst
          /\ x.id[1] = "c2" => x.type = "command_and_control" /\ x.subtype = "periodic_beacon"
          /\ x.id[1] = "exfil" => x.type = "data_exfiltration" /\ x.subtype = "outbound_volume_anomaly"
          /\ x.id[1] = "encrypted" =>
               x.type = "encrypted_session_threat" /\ x.subtype = "encrypted_session_metadata_anomaly"
    BY DEF PlainLabel
  <1>3. CASE PlainLabel(a)
    <2>1. PlainLabel(b)
      BY <1>1, <1>2, <1>3 DEF Labelled
    <2>2. a.type = b.type /\ a.subtype = b.subtype /\ a.src = b.src /\ a.dst = b.dst
      BY <1>2, <1>3, <2>1
    <2> QED BY <2>2 DEF Family
  <1>4. CASE ReconLabel(a)
    <2>1. ReconLabel(b)
      BY <1>1, <1>2, <1>4 DEF Labelled
    <2>2. a.subtype = b.subtype /\ a.src = b.src /\ a.end = b.end
      BY <1>1, <1>4, <2>1
    <2>3. a.cool = b.cool
      BY <1>4, <2>1, <2>2 DEF ReconLabel
    <2> QED BY <1>4, <2>1, <2>2, <2>3
  <1>5. CASE DDoSLabel(a)
    <2>1. DDoSLabel(b) /\ ~ReconLabel(a) /\ ~ReconLabel(b)
      BY <1>1, <1>2, <1>5 DEF Labelled
    <2>2. a.subtype = b.subtype /\ a.dst = b.dst /\ a.end = b.end
      BY <1>1, <1>5, <2>1
    <2>3. a.cool = b.cool
      BY <1>5, <2>1, <2>2 DEF DDoSLabel
    <2> QED BY <1>5, <2>1, <2>2, <2>3
  <1>6. CASE DNSLabel(a)
    <2>1. DNSLabel(b) /\ ~ReconLabel(a) /\ ~ReconLabel(b)
      BY <1>1, <1>2, <1>6 DEF Labelled
    <2>2. a.subtype = b.subtype /\ a.src = b.src /\ a.end = b.end
      BY <1>1, <1>6, <2>1
    <2>3. a.cool = b.cool
      BY <1>6, <2>1, <2>2 DEF DNSLabel
    <2> QED BY <1>6, <2>1, <2>2, <2>3
  <1> QED BY <1>3, <1>4, <1>5, <1>6 DEF Labelled
(* So alerts of one id are twins.                                          *)
Cooling == ReconConfig.cooldown > 0 /\ DDoSConfig.cooldown > 0 /\ DNSConfig.cooldown > 0
LEMMA IdsTwin ==
  ASSUME Cooling, HonestInv, LabelInv, NEW A, AllFull(A),
         \A a \in Range(A) : a \in Range(alerts) \/ Closing(recon.contacts, a)
  PROVE  \A a, b \in Stands(A) : a.id = b.id => Twins(Stands(A), a, b)
  <1> SUFFICES ASSUME NEW a \in Stands(A), NEW b \in Stands(A), a.id = b.id, Family(a) # Family(b)
               PROVE  Twins(Stands(A), a, b)
    BY DEF Twins
  <1>1. \A x \in Stands(A) : x \in Range(A)
    BY DEF Stands
  <1>i. a.end \in Int
    BY <1>1 DEF AllFull, Full
  <1>2. \A x \in Range(alerts) : Labelled(x) /\ x \in Range(raised) /\ Follows(recon.contacts, x)
    BY DEF LabelInv
  <1>3. Labelled(a) /\ Labelled(b)
    BY <1>1, <1>2 DEF Closing
  <1>4. ASSUME a \in Range(alerts), b \in Range(alerts), a.cool = b.cool, a.end = b.end, Pause(a.cool[1]) > 0
        PROVE  FALSE
    <2>1. a = b
      BY <1>2, <1>4, SameAlert DEF HonestInv, Honest
    <2> QED BY <2>1
  <1>5. Pause("recon") > 0 /\ Pause("ddos") > 0 /\ Pause("dns") > 0
    BY DEF Cooling, Pause
  <1>6. /\ ReconLabel(a) => a.cool[1] = "recon"
        /\ DDoSLabel(a) => a.cool[1] = "ddos"
        /\ DNSLabel(a) => a.cool[1] = "dns"
    BY DEF ReconLabel, DDoSLabel, DNSLabel
  <1>7. CASE ~ReconLabel(a) /\ ~ReconLabel(b) /\ (DDoSLabel(a) \/ DNSLabel(a)) /\ a.cool = b.cool /\ a.end = b.end
    <2>1. a \in Range(alerts) /\ b \in Range(alerts)
      BY <1>1, <1>7 DEF Closing
    <2>2. Pause(a.cool[1]) > 0
      BY <1>5, <1>6, <1>7
    <2> QED BY <1>4, <1>7, <2>1, <2>2
  <1>8. CASE ReconLabel(a) /\ ReconLabel(b) /\ a.cool = b.cool /\ a.end = b.end /\ a.src = b.src
    <2>1. a.src \in DOMAIN recon.contacts /\ a.end = Last(recon.contacts[a.src]).ts
      <3>1. a \notin Range(alerts) \/ b \notin Range(alerts)
        BY <1>4, <1>5, <1>6, <1>8
      <3> QED BY <1>1, <1>8, <3>1 DEF Closing
    <2>2. ASSUME NEW c \in Stands(A), Family(c) = Family(a) \/ Family(c) = Family(b) PROVE c.end <= a.end
      <3>1. c.type = "reconnaissance" /\ c.src = a.src
        BY <1>8, <2>2 DEF Family, ReconLabel
      <3>2. CASE c \in Range(alerts)
        BY <1>2, <2>1, <3>1, <3>2 DEF Follows
      <3>3. CASE Closing(recon.contacts, c)
        BY <1>i, <2>1, <3>1, <3>3 DEF Closing
      <3> QED BY <1>1, <3>2, <3>3
    <2> QED BY <1>8, <2>2 DEF Twins
  <1> QED BY <1>3, <1>7, <1>8, IdTells

(* Every alert the session holds ends no earlier than it starts.           *)
Forward == \A a \in Range(alerts) : a.start <= a.end
LEMMA CurrentPartition ==
  ASSUME Cooling, FullInv, HonestInv, LabelInv, session = 1 \/ Forward
  PROVE  IncidentsPartition
  <1>1. Forward
    BY DEF LabelInv, Forward
  <1>2. AllFull(alerts) /\ ReconGood(recon) /\ Recents(recon.contacts)
    BY DEF FullInv, StatesGood, LabelInv
  <1>3. AllFull(Snapshots) /\ \A a \in Range(Snapshots) : Closing(recon.contacts, a)
    <2>1. AllFull(FinalAlerts(recon)) /\ Shut(recon, FinalAlerts(recon))
      BY <1>2, SnapshotsFull, SnapshotsClose
    <2> QED BY <2>1, NoneFull, EmptyIsSeq DEF Snapshots, Shut
  <1>4. ASSUME NEW A, AllFull(A), \A a \in Range(A) : a \in Range(alerts) \/ Closing(recon.contacts, a)
        PROVE  Partition(Range(ResolveFindings(A)), Incidents(ResolveFindings(A)))
    <2>1. IsSeq(A) /\ \A a \in Range(A) : Full(a) /\ a.start <= a.end
      BY <1>1, <1>4 DEF AllFull, Closing, Forward
    <2>2. \A a, b \in Stands(A) : a.id = b.id => Twins(Stands(A), a, b)
      BY <1>4, IdsTwin
    <2> QED BY <2>1, <2>2, FindingsPartition
  <1>5. \E A : /\ CurrentFindings = ResolveFindings(A) /\ AllFull(A)
               /\ \A a \in Range(A) : a \in Range(alerts) \/ Closing(recon.contacts, a)
    <2>1. CASE ~finished
      BY <1>2, <2>1 DEF CurrentFindings
    <2>2. CASE finished
      <3>1. CurrentFindings = ResolveFindings(alerts \o Snapshots)
        BY <2>2 DEF CurrentFindings, LabelInv
      <3>2. AllFull(alerts \o Snapshots)
        BY <1>2, <1>3, ConcatFull
      <3>3. Range(alerts \o Snapshots) = Range(alerts) \cup Range(Snapshots)
        BY <1>2, <1>3, ConcatRange DEF AllFull
      <3> QED BY <1>3, <3>1, <3>2, <3>3
    <2> QED BY <2>1, <2>2
  <1>6. Partition(Range(CurrentFindings), Incidents(CurrentFindings))
    BY <1>4, <1>5
  <1> QED BY <1>6, Zenon DEF IncidentsPartition, Partition

(* For any profile, traffic and thresholds under which scans, floods and   *)
(* look-ups have a cooldown: every finding belongs to exactly one          *)
(* incident, which covers it, and two incidents of a source lie further    *)
(* apart than the correlation window (resolve_findings of findings.py,     *)
(* IncidentStore.process of incidents.py).  The configurations refuse a    *)
(* negative cooldown at most; with none two alerts of one second may share *)
(* an id, and their findings with them.  The first session needs no more;  *)
(* one over kept transfers and older events may raise an alert whose       *)
(* window starts after its event, and while it holds such alerts nothing   *)
(* is said.                                                                *)
THEOREM EveryFindingInOneIncident ==
  ScoresNumeric /\ ExfilConfig.cooldown >= 0 /\ Cooling
    => (Spec => [](session = 1 \/ Forward => IncidentsPartition))
  <1> SUFFICES ASSUME ScoresNumeric, ExfilConfig.cooldown >= 0, Cooling
               PROVE  Spec => [](session = 1 \/ Forward => IncidentsPartition)
    OBVIOUS
  <1> DEFINE Inv == SessionInv /\ RestartInv /\ FullInv /\ HonestInv /\ LabelInv
  <1>1. Init => Inv
    BY SessionInit, RestartInit, FullInit, HonestInit, LabelInit
  <1>2. Inv /\ [Next]_vars => Inv'
    <2> SUFFICES ASSUME Inv, [Next]_vars PROVE Inv'
      OBVIOUS
    <2>1. SessionInv' /\ RestartInv' /\ FullInv' /\ HonestInv'
      BY SessionStep, RestartStep, FullStep, HonestStep
    <2>2. LabelInv'
      BY <2>1, LabelStep
    <2> QED BY <2>1, <2>2
  <1>3. Inv => (session = 1 \/ Forward => IncidentsPartition)
    BY CurrentPartition
  <1> HIDE DEF Inv
  <1> QED BY <1>1, <1>2, <1>3, PTL DEF Spec
=============================================================================
