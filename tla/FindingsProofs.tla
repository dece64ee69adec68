--------------------------- MODULE FindingsProofs ---------------------------
(***************************************************************************)
(* What findings and incidents keep of the alerts they are made from, for  *)
(* every sequence of alerts: a finding has the id and the source of an     *)
(* alert that was raised; incidents have ids of their own, and one lists   *)
(* findings of its source only.  Grouping, sorting and correlating are     *)
(* folds, so each is an instance of FoldProofs.                            *)
(***************************************************************************)
EXTENDS Findings, SequenceProofs

-----------------------------------------------------------------------------
(* A finding has the id and the source of an alert of those raised, and    *)
(* times that can be compared.                                             *)

Timed(a) == {"id", "src", "start", "end"} \subseteq DOMAIN a /\ a.start \in Int /\ a.end \in Int
Origin(raised, id, src) == \E a \in raised : a.id = id /\ a.src = src
Sourced(raised, a) == Timed(a) /\ Origin(raised, a.id, a.src)
AllSourced(raised, findings) == IsSeq(findings) /\ \A a \in Range(findings) : Sourced(raised, a)

GroupStep(alerts, findings, alert) == Resolved(alerts, findings, alert)
GroupHolds(alerts, findings) == AllSourced(Range(alerts), findings)
Grouping == INSTANCE FoldProofs WITH Op <- GroupStep, Holds <- GroupHolds
SortStep(raised, sorted, finding) == Placed(sorted, finding)
Sorting == INSTANCE FoldProofs WITH Op <- SortStep, Holds <- AllSourced

LEMMA MergedSourced ==
  ASSUME NEW raised, NEW old, Sourced(raised, old), NEW new, Sourced(raised, new)
  PROVE  Sourced(raised, Merged(old, new))
  <1> DEFINE strongest == IF new.confidence > old.confidence THEN new ELSE old
             start == Min({old.start, new.start})
             end == Max({old.end, new.end})
             flows == old.flows \cup new.flows
  <1>1. start \in Int /\ end \in Int
    BY DEF Sourced, Timed, Min, Max
  <1>2. Sourced(raised, strongest)
    OBVIOUS
  <1>3. Merged(old, new) = [strongest EXCEPT !.start = start, !.end = end, !.flows = flows]
    BY DEF Merged
  <1> HIDE DEF strongest, start, end, flows
  <1>4. /\ DOMAIN Merged(old, new) = DOMAIN strongest
        /\ Merged(old, new).id = strongest.id /\ Merged(old, new).src = strongest.src
        /\ Merged(old, new).start = start /\ Merged(old, new).end = end
    BY <1>2, <1>3 DEF Sourced, Timed
  <1> QED BY <1>1, <1>2, <1>4 DEF Sourced, Timed
LEMMA GroupedSourced ==
  ASSUME NEW raised, NEW findings, AllSourced(raised, findings), NEW alert, Sourced(raised, alert)
  PROVE  AllSourced(raised, Grouped(findings, alert))
  <1> DEFINE same == {i \in DOMAIN findings : Family(findings[i]) = Family(alert)}
             k == Min(same)
             new == Merged(findings[k], alert)
  <1>1. CASE same = {}
    BY <1>1, AppendIsSeq DEF Grouped, AllSourced
  <1>2. CASE same # {}
    <2>1. k \in DOMAIN findings
      <3>1. same \subseteq Nat
        BY SeqFacts DEF AllSourced
      <3> HIDE DEF same
      <3>2. k \in same
        BY <1>2, <3>1, MinOfNat
      <3> QED BY <3>2 DEF same
    <2>2. Sourced(raised, new)
      BY <2>1, SeqFacts, MergedSourced DEF AllSourced
    <2>3. Grouped(findings, alert) = [findings EXCEPT ![k] = new]
      BY <1>2 DEF Grouped
    <2> HIDE DEF same, k, new
    <2>4. IsSeq([findings EXCEPT ![k] = new])
          /\ Range([findings EXCEPT ![k] = new]) \subseteq Range(findings) \cup {new}
      BY ExceptIsSeq DEF AllSourced
    <2> QED BY <2>2, <2>3, <2>4 DEF AllSourced
  <1> QED BY <1>1, <1>2
LEMMA PlacedSourced ==
  ASSUME NEW raised, NEW sorted, AllSourced(raised, sorted), NEW finding, Sourced(raised, finding)
  PROVE  AllSourced(raised, Placed(sorted, finding))
  <1> DEFINE before == {i \in DOMAIN sorted : sorted[i].start <= finding.start}
             k == Max({0} \cup before)
  <1>1. k \in 0..Len(sorted)
    BY LastOf DEF AllSourced
  <1>2. Placed(sorted, finding) = InsertAt(sorted, k + 1, finding)
    BY DEF Placed
  <1> HIDE DEF k
  <1> QED BY <1>1, <1>2, InsertIsSeq DEF AllSourced

LEMMA InOrderSourced ==
  ASSUME NEW raised, NEW findings, AllSourced(raised, findings)
  PROVE  AllSourced(raised, InOrder(findings))
  <1>1. Len(findings) \in Nat /\ \A i \in 1..Len(findings) : Sourced(raised, findings[i])
    BY SeqFacts DEF AllSourced
  <1>2. AllSourced(raised, <<>>)
    BY EmptyIsSeq DEF AllSourced
  <1>3. \A i \in 1..Len(findings) : \A acc :
          AllSourced(raised, acc) => AllSourced(raised, SortStep(raised, acc, findings[i]))
    BY <1>1, PlacedSourced DEF SortStep
  <1>4. AllSourced(raised, Sorting!Result(raised, <<>>, findings))
    BY <1>1, <1>2, <1>3, Sorting!FoldInvariant
  <1>5. Sorting!Result(raised, <<>>, findings) = InOrder(findings)
    BY DEF Sorting!Result, Sorting!Folded, InOrder, Folded, SortStep
  <1> QED BY <1>4, <1>5
LEMMA ResolveSourced ==
  ASSUME NEW alerts, IsSeq(alerts), \A a \in Range(alerts) : Timed(a)
  PROVE  AllSourced(Range(alerts), ResolveFindings(alerts))
  <1> DEFINE grouped == Folded(LAMBDA findings, alert : Resolved(alerts, findings, alert), <<>>, alerts)
  <1>1. Len(alerts) \in Nat /\ \A i \in 1..Len(alerts) : Sourced(Range(alerts), alerts[i])
    BY SeqFacts DEF Sourced, Origin
  <1>2. GroupHolds(alerts, <<>>)
    BY EmptyIsSeq DEF GroupHolds, AllSourced
  <1>3. \A i \in 1..Len(alerts) : \A acc :
          GroupHolds(alerts, acc) => GroupHolds(alerts, GroupStep(alerts, acc, alerts[i]))
    BY <1>1, GroupedSourced DEF GroupHolds, GroupStep, Resolved
  <1>4. GroupHolds(alerts, Grouping!Result(alerts, <<>>, alerts))
    BY <1>1, <1>2, <1>3, Grouping!FoldInvariant
  <1>5. Grouping!Result(alerts, <<>>, alerts) = grouped
    BY DEF Grouping!Result, Grouping!Folded, Folded, GroupStep
  <1>6. AllSourced(Range(alerts), grouped)
    BY <1>4, <1>5 DEF GroupHolds
  <1>7. ResolveFindings(alerts) = InOrder(grouped)
    BY DEF ResolveFindings
  <1> HIDE DEF grouped
  <1> QED BY <1>6, <1>7, InOrderSourced

-----------------------------------------------------------------------------
(* Incidents.                                                              *)

Coherent(raised, x) ==
  /\ x = [id |-> x.id, src |-> x.src, alerts |-> x.alerts] /\ x.src = x.id[1]
  /\ AllSourced(raised, x.alerts) /\ Len(x.alerts) > 0
  /\ \A a \in Range(x.alerts) : a.src = x.src
AllCoherent(raised, incidents) ==
  /\ IsSeq(incidents)
  /\ \A i \in 1..Len(incidents) : Coherent(raised, incidents[i])
  /\ \A i, j \in 1..Len(incidents) : incidents[i].id = incidents[j].id => i = j
CorrelateStep(raised, incidents, alert) == Correlated(incidents, alert)
Correlating == INSTANCE FoldProofs WITH Op <- CorrelateStep, Holds <- AllCoherent

LEMMA LastSeenInt ==
  ASSUME NEW raised, NEW x, Coherent(raised, x)
  PROVE  LastSeen(x) \in Int
  <1> DEFINE R == Range(x.alerts)
             ends == {a.end : a \in R}
  <1>1. IsFiniteSet(R) /\ R # {}
    BY RangeFinite, SeqFacts DEF Coherent, AllSourced
  <1>2. ends # {} /\ ends \subseteq Int
    BY <1>1 DEF Coherent, AllSourced, Sourced, Timed
  <1>3. IsFiniteSet(ends)
    <2> DEFINE f == [a \in R |-> a.end]
    <2>1. f \in Surjection(R, ends)
      BY DEF Surjection
    <2> HIDE DEF f, R, ends
    <2> QED BY <1>1, <2>1, FS_Surjection
  <1>4. LastSeen(x) = Max(ends)
    BY DEF LastSeen
  <1> HIDE DEF ends, R
  <1> QED BY <1>2, <1>3, <1>4, MaxOfFinite

(* The active incident is one of the candidates.                           *)
LEMMA ActiveIsNear ==
  ASSUME NEW raised, NEW incidents, AllCoherent(raised, incidents), NEW near,
         near \subseteq 1..Len(incidents), near # {}
  PROVE  Active(incidents, near) \in near
  <1> DEFINE seen(i) == LastSeen(incidents[i])
             times == {seen(i) : i \in near}
             latest == {i \in near : \A j \in near : seen(j) <= seen(i)}
  <1>1. \A i \in near : seen(i) \in Int
    BY LastSeenInt DEF AllCoherent
  <1>2. IsFiniteSet(near)
    <2>1. Len(incidents) \in Nat
      BY SeqFacts DEF AllCoherent
    <2>2. IsFiniteSet(1..Len(incidents))
      BY <2>1, FS_Interval
    <2>3. near \in SUBSET (1..Len(incidents))
      OBVIOUS
    <2> QED BY <2>2, <2>3, FS_Subset
  <1>3. IsFiniteSet(times) /\ times # {} /\ times \subseteq Int
    <2> DEFINE f == [i \in near |-> seen(i)]
    <2>1. f \in Surjection(near, times)
      BY DEF Surjection
    <2>2. times # {} /\ times \subseteq Int
      BY <1>1
    <2> HIDE DEF f, times
    <2> QED BY <1>2, <2>1, <2>2, FS_Surjection
  <1>4. PICK i \in near : seen(i) = Max(times) /\ \A y \in times : Max(times) >= y
    <2>1. Max(times) \in times /\ \A y \in times : Max(times) >= y
      <3> HIDE DEF times
      <3> QED BY <1>3, MaxOfFinite
    <2> QED BY <2>1
  <1>5. i \in latest
    BY <1>1, <1>4
  <1>6. latest \subseteq Nat /\ latest # {}
    <2>1. near \subseteq Nat
      BY SeqFacts DEF AllCoherent
    <2> QED BY <1>5, <2>1
  <1>7. Active(incidents, near) = Min(latest)
    BY DEF Active
  <1>8. latest \subseteq near
    OBVIOUS
  <1> HIDE DEF latest
  <1> QED BY <1>6, <1>7, <1>8, MinOfNat

LEMMA CorrelatedCoherent ==
  ASSUME NEW raised, NEW incidents, AllCoherent(raised, incidents), NEW alert, Sourced(raised, alert)
  PROVE  AllCoherent(raised, Correlated(incidents, alert))
  <1> DEFINE near == Candidates(incidents, alert)
             i == Active(incidents, near)
             new == NewIncident(alert)
             longer == [incidents[i] EXCEPT !.alerts = Append(@, alert)]
  <1>0. Len(incidents) \in Nat /\ DOMAIN incidents = 1..Len(incidents) /\ IsSeq(incidents)
    BY SeqFacts DEF AllCoherent
  <1>1. near \subseteq 1..Len(incidents) /\ \A k \in near : incidents[k].src = alert.src
    BY <1>0 DEF Candidates
  <1>2. Coherent(raised, new)
    <2>1. <<alert>> \in Seq({alert}) /\ Len(<<alert>>) = 1
      OBVIOUS
    <2>2. IsSeq(<<alert>>) /\ Range(<<alert>>) \subseteq {alert}
      BY <2>1, SeqIsSeq
    <2> QED BY <2>1, <2>2 DEF NewIncident, Coherent, AllSourced
  <1>3. CASE near = {}
    <2> DEFINE same == {k \in DOMAIN incidents : incidents[k].id = new.id}
    <2>1. Correlated(incidents, alert) = IF same = {} THEN Append(incidents, new)
                                         ELSE [incidents EXCEPT ![Min(same)] = new]
      BY <1>3 DEF Correlated, Opened
    <2>2. CASE same = {}
      <3> DEFINE all == Append(incidents, new)
      <3>1. /\ IsSeq(all) /\ Len(all) = Len(incidents) + 1 /\ all[Len(incidents) + 1] = new
            /\ \A k \in 1..Len(incidents) : all[k] = incidents[k]
        BY <1>0, AppendIsSeq
      <3>2. \A k \in 1..Len(incidents) : incidents[k].id # new.id
        BY <1>0, <2>2
      <3> HIDE DEF all, new, same
      <3>3. \A k \in 1..Len(all) : k = Len(incidents) + 1 \/ k \in 1..Len(incidents)
        BY <1>0, <3>1
      <3>4. AllCoherent(raised, all)
        BY <1>2, <3>1, <3>2, <3>3 DEF AllCoherent
      <3> QED BY <2>1, <2>2, <3>4 DEF all, same
    <2>3. CASE same # {}
      <3> DEFINE k == Min(same)
                 all == [incidents EXCEPT ![k] = new]
      <3>1. k \in 1..Len(incidents) /\ incidents[k].id = new.id
        <4>1. same \subseteq Nat
          BY <1>0
        <4> HIDE DEF same
        <4>2. k \in same
          BY <2>3, <4>1, MinOfNat
        <4> QED BY <1>0, <4>2 DEF same
      <3> HIDE DEF k, new, same
      <3>2. /\ IsSeq(all) /\ Len(all) = Len(incidents)
            /\ \A m \in 1..Len(incidents) : all[m] = IF m = k THEN new ELSE incidents[m]
        BY <1>0, ExceptIsSeq, Zenon
      <3> HIDE DEF all
      <3>3. AllCoherent(raised, all)
        BY <1>2, <3>1, <3>2 DEF AllCoherent
      <3> QED BY <2>1, <2>3, <3>3 DEF all, same, k, new
    <2> QED BY <2>2, <2>3
  <1>4. CASE near # {} /\ alert.id \in AlertIds(incidents[i])
    BY <1>4 DEF Correlated
  <1>5. CASE near # {} /\ alert.id \notin AlertIds(incidents[i])
    <2> DEFINE all == [incidents EXCEPT ![i] = longer]
    <2>1. i \in 1..Len(incidents) /\ incidents[i].src = alert.src
      BY <1>1, <1>5, ActiveIsNear
    <2>2. Correlated(incidents, alert) = all
      BY <1>5 DEF Correlated
    <2>3. Coherent(raised, incidents[i])
      BY <2>1 DEF AllCoherent
    <2>4. Coherent(raised, longer) /\ longer.id = incidents[i].id
      <3>1. longer = [id |-> incidents[i].id, src |-> incidents[i].src, alerts |-> Append(incidents[i].alerts, alert)]
        BY <2>3 DEF Coherent
      <3>2. /\ IsSeq(Append(incidents[i].alerts, alert)) /\ Len(Append(incidents[i].alerts, alert)) > 0
            /\ Range(Append(incidents[i].alerts, alert)) = Range(incidents[i].alerts) \cup {alert}
        BY <2>3, AppendIsSeq, SeqFacts DEF Coherent, AllSourced
      <3> HIDE DEF longer, i
      <3> QED BY <2>1, <2>3, <3>1, <3>2 DEF Coherent, AllSourced
    <2> HIDE DEF i, longer
    <2>5. /\ IsSeq(all) /\ Len(all) = Len(incidents)
          /\ \A m \in 1..Len(incidents) : all[m] = IF m = i THEN longer ELSE incidents[m]
      BY <1>0, ExceptIsSeq, Zenon
    <2> HIDE DEF all
    <2>6. AllCoherent(raised, all)
      BY <2>1, <2>4, <2>5 DEF AllCoherent
    <2> QED BY <2>2, <2>6
  <1> QED BY <1>3, <1>4, <1>5

(* The incidents of any findings.                                          *)
LEMMA IncidentsCoherent ==
  ASSUME NEW raised, NEW findings, AllSourced(raised, findings)
  PROVE  AllCoherent(raised, Incidents(findings))
  <1>1. Len(findings) \in Nat /\ \A i \in 1..Len(findings) : Sourced(raised, findings[i])
    BY SeqFacts DEF AllSourced
  <1>2. AllCoherent(raised, <<>>)
    BY EmptyIsSeq DEF AllCoherent
  <1>3. \A i \in 1..Len(findings) : \A acc :
          AllCoherent(raised, acc) => AllCoherent(raised, CorrelateStep(raised, acc, findings[i]))
    BY <1>1, CorrelatedCoherent DEF CorrelateStep
  <1>4. AllCoherent(raised, Correlating!Result(raised, <<>>, findings))
    BY <1>1, <1>2, <1>3, Correlating!FoldInvariant
  <1>5. Correlating!Result(raised, <<>>, findings) = Incidents(findings)
    BY DEF Correlating!Result, Correlating!Folded, Incidents, Folded, CorrelateStep
  <1> QED BY <1>4, <1>5

-----------------------------------------------------------------------------
(* What stands among the alerts is exactly what the findings say: one      *)
(* finding of a family, as wide and as strong as its alerts together.  So  *)
(* more alerts can only widen a finding, or contradict it.                 *)

Full(a) ==
  /\ {"id", "type", "subtype", "src", "dst", "start", "end", "flows", "confidence"} \subseteq DOMAIN a
  /\ a.start \in Int /\ a.end \in Int /\ a.confidence \in Int
  /\ a.type = "reconnaissance" => a.subtype \notin SynFloods
Stands(alerts) == {a \in Range(alerts) : ~ Contradicted(a, alerts)}
Of(S, f) == {a \in S : Family(a) = Family(f)}
(* No wider and no stronger than what it is made from.                     *)
Built(S, f) ==
  /\ \E a \in Of(S, f) : f.start = a.start
  /\ \E a \in Of(S, f) : f.end = a.end
  /\ \E a \in Of(S, f) : f.confidence = a.confidence
  /\ \E a \in Of(S, f) : f.id = a.id
  /\ \A x \in f.flows : \E a \in Of(S, f) : x \in a.flows
AllShown(S, F) == \A a \in S : \E f \in F : Widens(a, f)
Single(F) == \A f, g \in F : Family(f) = Family(g) => f = g
Presents(S, F) == AllShown(S, F) /\ Single(F) /\ \A f \in F : Built(S, f)
Gathers(S, X) ==
  /\ IsSeq(X) /\ \A i \in 1..Len(X) : Full(X[i]) /\ Built(S, X[i])
  /\ \A i, j \in 1..Len(X) : Family(X[i]) = Family(X[j]) => i = j
  /\ \A a \in S : \E i \in 1..Len(X) : Widens(a, X[i])

LEMMA WidensSelf == ASSUME NEW a, Full(a) PROVE Widens(a, a)
  BY DEF Full, Widens
LEMMA WidensOn ==
  ASSUME NEW f, NEW g, NEW h, f.start \in Int, f.end \in Int, f.confidence \in Int, Full(g), Full(h),
         Widens(f, g), Widens(g, h)
  PROVE  Widens(f, h)
  BY DEF Full, Widens

LEMMA MergedWidens ==
  ASSUME NEW old, Full(old), NEW new, Full(new), Family(old) = Family(new)
  PROVE  LET m == Merged(old, new)
         IN  /\ Full(m) /\ Family(m) = Family(new) /\ Widens(old, m) /\ Widens(new, m)
             /\ m.start \in {old.start, new.start} /\ m.end \in {old.end, new.end}
             /\ m.confidence \in {old.confidence, new.confidence} /\ m.flows = old.flows \cup new.flows
             /\ m.id \in {old.id, new.id}
  <1> DEFINE strongest == IF new.confidence > old.confidence THEN new ELSE old
             start == Min({old.start, new.start})
             end == Max({old.end, new.end})
             flows == old.flows \cup new.flows
             m == Merged(old, new)
  <1>1. start \in {old.start, new.start} /\ start <= old.start /\ start <= new.start
    BY DEF Full, Min
  <1>2. end \in {old.end, new.end} /\ end >= old.end /\ end >= new.end
    BY MaxOfTwo DEF Full
  <1>3. /\ Full(strongest) /\ Family(strongest) = Family(new)
        /\ strongest.confidence \in {old.confidence, new.confidence} /\ strongest.id \in {old.id, new.id}
        /\ strongest.confidence >= old.confidence /\ strongest.confidence >= new.confidence
    BY DEF Full
  <1>4. m = [strongest EXCEPT !.start = start, !.end = end, !.flows = flows]
    BY DEF Merged
  <1> HIDE DEF strongest, start, end
  <1>5. /\ DOMAIN m = DOMAIN strongest
        /\ m.type = strongest.type /\ m.subtype = strongest.subtype /\ m.src = strongest.src
        /\ m.dst = strongest.dst /\ m.confidence = strongest.confidence /\ m.id = strongest.id
        /\ m.start = start /\ m.end = end /\ m.flows = flows
    BY <1>3, <1>4 DEF Full
  <1> HIDE DEF m
  <1>6. Family(m) = Family(new)
    BY <1>3, <1>5 DEF Family
  <1>7. m.start \in Int /\ m.end \in Int /\ m.confidence \in Int
    BY <1>1, <1>2, <1>3, <1>5 DEF Full
  <1>8. Full(m)
    BY <1>3, <1>5, <1>7 DEF Full
  <1>9. Widens(old, m) /\ Widens(new, m)
    BY <1>1, <1>2, <1>3, <1>5, <1>6 DEF Widens
  <1> QED BY <1>1, <1>2, <1>3, <1>5, <1>6, <1>8, <1>9 DEF m

LEMMA BuiltGrows ==
  ASSUME NEW S, NEW T, S \subseteq T, NEW f, Built(S, f)
  PROVE  Built(T, f)
  <1>1. Of(S, f) \subseteq Of(T, f)
    BY DEF Of
  <1> QED BY <1>1 DEF Built
LEMMA BuiltOne ==
  ASSUME NEW S, NEW a \in S
  PROVE  Built(S, a)
  BY DEF Built, Of
LEMMA MergedBuilt ==
  ASSUME NEW S, NEW old, Full(old), Built(S, old), NEW new, Full(new), Family(old) = Family(new)
  PROVE  Built(S \cup {new}, Merged(old, new))
  <1> DEFINE m == Merged(old, new)
             T == S \cup {new}
  <1>1. /\ Family(m) = Family(new)
        /\ m.start \in {old.start, new.start} /\ m.end \in {old.end, new.end}
        /\ m.confidence \in {old.confidence, new.confidence} /\ m.flows = old.flows \cup new.flows
        /\ m.id \in {old.id, new.id}
    BY MergedWidens
  <1>2. Of(S, old) \subseteq Of(T, m) /\ new \in Of(T, m)
    BY <1>1 DEF Of
  <1> HIDE DEF m, T
  <1>3. /\ \E a \in Of(T, m) : m.start = a.start
        /\ \E a \in Of(T, m) : m.end = a.end
        /\ \E a \in Of(T, m) : m.confidence = a.confidence
        /\ \E a \in Of(T, m) : m.id = a.id
    BY <1>1, <1>2 DEF Built
  <1>4. \A x \in m.flows : \E a \in Of(T, m) : x \in a.flows
    BY <1>1, <1>2 DEF Built
  <1>5. Built(T, m)
    BY <1>3, <1>4 DEF Built
  <1> QED BY <1>5 DEF m, T

(* One more alert.                                                         *)
LEMMA GroupedShows ==
  ASSUME NEW S, \A a \in S : Full(a), NEW X, Gathers(S, X), NEW new, Full(new)
  PROVE  Gathers(S \cup {new}, Grouped(X, new))
  <1> DEFINE T == S \cup {new}
             same == {i \in DOMAIN X : Family(X[i]) = Family(new)}
             k == Min(same)
             m == Merged(X[k], new)
  <1>0. Len(X) \in Nat /\ DOMAIN X = 1..Len(X)
    BY SeqFacts DEF Gathers
  <1>1. CASE same = {}
    <2> DEFINE Y == Append(X, new)
    <2>1. Grouped(X, new) = Y
      BY <1>1 DEF Grouped
    <2>2. /\ IsSeq(Y) /\ Len(Y) = Len(X) + 1 /\ Y[Len(X) + 1] = new
          /\ \A i \in 1..Len(X) : Y[i] = X[i]
      BY AppendIsSeq DEF Gathers
    <2>3. \A i \in 1..Len(X) : Family(X[i]) # Family(new)
      BY <1>0, <1>1
    <2> HIDE DEF Y, same, T
    <2>4. \A i \in 1..Len(Y) : i \in 1..Len(X) \/ i = Len(X) + 1
      BY <1>0, <2>2
    <2>5. \A i \in 1..Len(Y) : Full(Y[i]) /\ Built(T, Y[i])
      <3>1. S \subseteq T /\ new \in T
        BY DEF T
      <3>2. \A i \in 1..Len(X) : Full(X[i]) /\ Built(T, X[i])
        BY <3>1, BuiltGrows DEF Gathers
      <3>3. Built(T, new)
        BY <3>1, BuiltOne
      <3> QED BY <2>2, <2>4, <3>2, <3>3
    <2>6. \A i, j \in 1..Len(Y) : Family(Y[i]) = Family(Y[j]) => i = j
      BY <2>2, <2>3, <2>4 DEF Gathers
    <2>7. \A a \in T : \E i \in 1..Len(Y) : Widens(a, Y[i])
      <3>1. 1..Len(X) \subseteq 1..Len(Y) /\ Len(X) + 1 \in 1..Len(Y)
        BY <1>0, <2>2
      <3>2. ASSUME NEW a \in S PROVE \E i \in 1..Len(Y) : Widens(a, Y[i])
        <4>1. PICK i \in 1..Len(X) : Widens(a, X[i])
          BY DEF Gathers
        <4> QED BY <2>2, <3>1, <4>1
      <3>3. Widens(new, Y[Len(X) + 1])
        BY <2>2, WidensSelf
      <3> QED BY <3>1, <3>2, <3>3 DEF T
    <2>8. Gathers(T, Y)
      BY <2>2, <2>5, <2>6, <2>7 DEF Gathers
    <2> QED BY <2>1, <2>8 DEF T
  <1>2. CASE same # {}
    <2> DEFINE Y == [X EXCEPT ![k] = m]
    <2>1. k \in 1..Len(X) /\ Family(X[k]) = Family(new)
      <3>1. same \subseteq Nat
        BY <1>0
      <3> HIDE DEF same
      <3>2. k \in same
        BY <1>2, <3>1, MinOfNat
      <3> QED BY <1>0, <3>2 DEF same
    <2>2. Grouped(X, new) = Y
      BY <1>2 DEF Grouped
    <2>3. Full(X[k]) /\ Built(S, X[k])
      BY <2>1 DEF Gathers
    <2>4. /\ Full(m) /\ Family(m) = Family(X[k]) /\ Widens(X[k], m) /\ Widens(new, m)
      BY <2>1, <2>3, MergedWidens
    <2>5. Built(T, m)
      BY <2>1, <2>3, MergedBuilt
    <2> HIDE DEF m, k, same
    <2>6. /\ IsSeq(Y) /\ Len(Y) = Len(X)
          /\ \A i \in 1..Len(X) : Y[i] = IF i = k THEN m ELSE X[i]
      <3>1. IsSeq(X)
        BY DEF Gathers
      <3>2. IsSeq([X EXCEPT ![k] = m])
        BY <3>1, ExceptIsSeq, Zenon
      <3>3. Len([X EXCEPT ![k] = m]) = Len(X)
        BY <3>1, ExceptIsSeq, Zenon
      <3>4. \A j \in 1..Len(X) : [X EXCEPT ![k] = m][j] = IF j = k THEN m ELSE X[j]
        BY <1>0, <3>1 DEF IsSeq
      <3> QED BY <3>2, <3>3, <3>4, Zenon
    <2> HIDE DEF Y, T
    <2>7. \A i \in 1..Len(Y) : Family(Y[i]) = Family(X[i])
      BY <2>4, <2>6
    <2>8. \A i \in 1..Len(Y) : Full(Y[i]) /\ Built(T, Y[i])
      <3>1. S \subseteq T
        BY DEF T
      <3>2. \A i \in 1..Len(X) : Full(X[i]) /\ Built(T, X[i])
        BY <3>1, BuiltGrows DEF Gathers
      <3> QED BY <2>4, <2>5, <2>6, <3>2
    <2>9. \A i, j \in 1..Len(Y) : Family(Y[i]) = Family(Y[j]) => i = j
      BY <2>6, <2>7 DEF Gathers
    <2>10. ASSUME NEW a \in S PROVE \E i \in 1..Len(Y) : Widens(a, Y[i])
      <3>1. PICK i \in 1..Len(X) : Widens(a, X[i])
        BY DEF Gathers
      <3>2. CASE i = k
        <4>1. Full(a) /\ a.start \in Int /\ a.end \in Int /\ a.confidence \in Int
          BY DEF Full
        <4>2. Widens(a, m)
          BY <2>3, <2>4, <3>1, <3>2, <4>1, WidensOn
        <4> QED BY <2>1, <2>6, <4>2
      <3> QED BY <2>6, <3>1, <3>2
    <2>11. \A a \in T : \E i \in 1..Len(Y) : Widens(a, Y[i])
      BY <2>1, <2>4, <2>6, <2>10 DEF T
    <2>12. Gathers(T, Y)
      BY <2>6, <2>8, <2>9, <2>11 DEF Gathers
    <2> QED BY <2>2, <2>12 DEF T
  <1> QED BY <1>1, <1>2
GatherStep(alerts, findings, alert) == Resolved(alerts, findings, alert)
Anyhow(c, acc) == TRUE
Gathering == INSTANCE FoldProofs WITH Op <- GatherStep, Holds <- Anyhow
SortingAll == INSTANCE FoldProofs WITH Op <- SortStep, Holds <- Anyhow

LEMMA GatherIsRun ==
  ASSUME NEW alerts, Len(alerts) \in Nat
  PROVE  \E run : /\ run[0] = <<>>
                  /\ \A i \in 1..Len(alerts) : run[i] = GatherStep(alerts, run[i - 1], alerts[i])
                  /\ Gathering!Result(alerts, <<>>, alerts) = run[Len(alerts)]
  BY Gathering!FoldIsRun
(* All the alerts, one after another.                                      *)
LEMMA GroupsShow ==
  ASSUME NEW alerts, IsSeq(alerts), \A a \in Range(alerts) : Full(a)
  PROVE  Gathers(Stands(alerts), Folded(LAMBDA findings, alert : Resolved(alerts, findings, alert), <<>>, alerts))
  <1> DEFINE n == Len(alerts)
             S(k) == {alerts[i] : i \in {j \in 1..k : ~ Contradicted(alerts[j], alerts)}}
             grouped == Folded(LAMBDA findings, alert : Resolved(alerts, findings, alert), <<>>, alerts)
  <1>1. n \in Nat /\ DOMAIN alerts = 1..n /\ \A i \in 1..n : Full(alerts[i])
    BY SeqFacts
  <1>2. PICK run : /\ run[0] = <<>>
                   /\ \A i \in 1..Len(alerts) : run[i] = GatherStep(alerts, run[i - 1], alerts[i])
                   /\ Gathering!Result(alerts, <<>>, alerts) = run[Len(alerts)]
    <2>1. Len(alerts) \in Nat
      BY <1>1
    <2> QED BY <2>1, GatherIsRun
  <1>3. grouped = run[n]
    BY <1>2 DEF Gathering!Result, Gathering!Folded, Folded, GatherStep
  <1> DEFINE T == {k \in 0..n : Gathers(S(k), run[k])}
  <1>4. 0 \in T
    <2>1. S(0) = {}
      OBVIOUS
    <2>2. Gathers({}, <<>>)
      BY EmptyIsSeq DEF Gathers
    <2> HIDE DEF S
    <2>3. 0 \in 0..n
      BY <1>1
    <2>4. run[0] = <<>>
      BY <1>2
    <2>5. Gathers(S(0), run[0])
      BY <2>1, <2>2, <2>4, Zenon
    <2> HIDE DEF n
    <2> QED BY <2>3, <2>5
  <1>5. ASSUME NEW k \in 0..n, k < n, k \in T PROVE k + 1 \in T
    <2> DEFINE a == alerts[k + 1]
    <2>1. k + 1 \in 1..n /\ k + 1 \in 0..n /\ (k + 1) - 1 = k
      BY <1>1, <1>5
    <2>2. run[k + 1] = Resolved(alerts, run[k], a)
      BY <1>2, <2>1 DEF GatherStep
    <2>3. Gathers(S(k), run[k])
      BY <1>5
    <2>4. \A x \in S(k) : Full(x)
      BY <1>1, <2>1
    <2>5. CASE Contradicted(a, alerts)
      <3>1. S(k + 1) = S(k)
        BY <2>1, <2>5
      <3>2. run[k + 1] = run[k]
        BY <2>2, <2>5 DEF Resolved
      <3> HIDE DEF S
      <3> QED BY <2>1, <2>3, <3>1, <3>2
    <2>6. CASE ~ Contradicted(a, alerts)
      <3>1. S(k + 1) = S(k) \cup {a}
        BY <2>1, <2>6
      <3>2. run[k + 1] = Grouped(run[k], a)
        BY <2>2, <2>6 DEF Resolved
      <3>3. Full(a)
        BY <1>1, <2>1
      <3> HIDE DEF S, a
      <3>4. Gathers(S(k) \cup {a}, Grouped(run[k], a))
        BY <2>3, <2>4, <3>3, GroupedShows
      <3> QED BY <2>1, <3>1, <3>2, <3>4
    <2> QED BY <2>5, <2>6
  <1>6. n \in T
    <2> HIDE DEF T, n
    <2> QED BY <1>1, <1>4, <1>5, PrefixInduction
  <1>7. S(n) = Stands(alerts)
    <2>1. Range(alerts) = {alerts[i] : i \in 1..n}
      BY <1>1 DEF Range
    <2> QED BY <2>1 DEF Stands
  <1>8. Gathers(S(n), run[n])
    BY <1>6
  <1> HIDE DEF S, n
  <1> QED BY <1>3, <1>7, <1>8

(* Sorting loses nothing.                                                  *)
LEMMA InOrderKeeps ==
  ASSUME NEW findings, IsSeq(findings)
  PROVE  IsSeq(InOrder(findings)) /\ Range(InOrder(findings)) = Range(findings)
  <1> DEFINE n == Len(findings)
             S(k) == {findings[i] : i \in 1..k}
  <1>1. n \in Nat /\ DOMAIN findings = 1..n
    BY SeqFacts
  <1>2. PICK run : /\ run[0] = <<>>
                   /\ \A i \in 1..n : run[i] = SortStep({}, run[i - 1], findings[i])
                   /\ SortingAll!Result({}, <<>>, findings) = run[n]
    BY <1>1, SortingAll!FoldIsRun
  <1>3. InOrder(findings) = run[n]
    BY <1>2 DEF SortingAll!Result, SortingAll!Folded, InOrder, Folded, SortStep
  <1> DEFINE T == {k \in 0..n : IsSeq(run[k]) /\ Range(run[k]) = S(k)}
  <1>4. 0 \in T
    <2>1. S(0) = {}
      OBVIOUS
    <2> HIDE DEF S
    <2>2. 0 \in 0..n
      BY <1>1
    <2>3. run[0] = <<>>
      BY <1>2
    <2>4. IsSeq(run[0]) /\ Range(run[0]) = S(0)
      BY <2>1, <2>3, EmptyIsSeq, Zenon
    <2> HIDE DEF n
    <2> QED BY <2>2, <2>4
  <1>5. ASSUME NEW k \in 0..n, k < n, k \in T PROVE k + 1 \in T
    <2> DEFINE f == findings[k + 1]
               s == run[k]
               m == Max({0} \cup {i \in DOMAIN s : s[i].start <= f.start})
    <2>1. k + 1 \in 1..n /\ k + 1 \in 0..n /\ (k + 1) - 1 = k
      BY <1>1, <1>5
    <2>2. run[k + 1] = Placed(s, f)
      BY <1>2, <2>1 DEF SortStep
    <2>3. IsSeq(s) /\ Range(s) = S(k)
      BY <1>5
    <2>4. S(k + 1) = S(k) \cup {f}
      BY <2>1
    <2> HIDE DEF S, s, f
    <2>5. m \in 0..Len(s)
      BY <2>3, LastOf
    <2>6. Placed(s, f) = InsertAt(s, m + 1, f)
      BY DEF Placed
    <2> HIDE DEF m
    <2>7. IsSeq(InsertAt(s, m + 1, f)) /\ Range(InsertAt(s, m + 1, f)) = Range(s) \cup {f}
      BY <2>3, <2>5, InsertIsSeq, InsertKeeps
    <2>8. IsSeq(run[k + 1]) /\ Range(run[k + 1]) = S(k + 1)
      BY <2>2, <2>3, <2>4, <2>6, <2>7
    <2> QED BY <2>1, <2>8
  <1>6. n \in T
    <2> HIDE DEF T, n
    <2> QED BY <1>1, <1>4, <1>5, PrefixInduction
  <1>7. S(n) = Range(findings)
    BY <1>1 DEF Range
  <1>8. IsSeq(run[n]) /\ Range(run[n]) = S(n)
    BY <1>6
  <1> HIDE DEF S, n
  <1> QED BY <1>3, <1>7, <1>8

(* Findings are placed in the order of their starts.                       *)
Started(s) == IsSeq(s) /\ \A i \in 1..Len(s) : s[i].start \in Int
Ascending(s) == Started(s) /\ \A i, j \in 1..Len(s) : i <= j => s[i].start <= s[j].start

LEMMA PlacedAscends ==
  ASSUME NEW s, Ascending(s), NEW f, f.start \in Int
  PROVE  Ascending(Placed(s, f))
  <1> DEFINE n == Len(s)
             early == {i \in DOMAIN s : s[i].start <= f.start}
             S == {0} \cup early
             k == Max(S)
             t == InsertAt(s, k + 1, f)
  <1>1. IsSeq(s) /\ n \in Nat /\ DOMAIN s = 1..n /\ \A i \in 1..n : s[i].start \in Int
    BY SeqFacts DEF Ascending, Started
  <1>2. k \in 0..n /\ k \in S /\ \A i \in S : i <= k
    <2>1. S \subseteq 0..n /\ S \in SUBSET (0..n) /\ S # {}
      BY <1>1
    <2>2. IsFiniteSet(S) /\ S \subseteq Int
      <3>1. IsFiniteSet(0..n)
        BY <1>1, FS_Interval
      <3> HIDE DEF S
      <3>2. IsFiniteSet(S)
        BY <2>1, <3>1, FS_Subset
      <3>3. S \subseteq Int
        BY <2>1
      <3> QED BY <3>2, <3>3
    <2> HIDE DEF S
    <2>3. k \in S /\ \A i \in S : k >= i
      BY <2>1, <2>2, MaxOfFinite
    <2> HIDE DEF k
    <2>4. \A i \in S : i \in Int
      BY <2>2
    <2> QED BY <2>1, <2>3, <2>4
  <1>3. \A i \in 1..n : i <= k => s[i].start <= f.start
    <2> SUFFICES ASSUME NEW i \in 1..n, i <= k PROVE s[i].start <= f.start
      OBVIOUS
    <2>1. k \in 1..n /\ s[k].start <= f.start
      <3>1. k # 0
        BY <1>2
      <3> HIDE DEF k
      <3> QED BY <1>1, <1>2, <3>1
    <2> HIDE DEF k
    <2>2. s[i].start <= s[k].start
      BY <2>1 DEF Ascending
    <2> QED BY <1>1, <2>1, <2>2
  <1>4. \A i \in 1..n : i > k => f.start <= s[i].start
    <2> SUFFICES ASSUME NEW i \in 1..n, i > k PROVE f.start <= s[i].start
      OBVIOUS
    <2>1. i \notin S
      <3> HIDE DEF S
      <3> QED BY <1>2
    <2> HIDE DEF k
    <2> QED BY <1>1, <2>1
  <1>5. Placed(s, f) = t
    BY DEF Placed
  <1> HIDE DEF k
  <1>6. /\ IsSeq(t) /\ Len(t) = n + 1 /\ t[k + 1] = f
        /\ \A i \in 1..k : t[i] = s[i]
        /\ \A i \in (k + 2)..(n + 1) : t[i] = s[i - 1]
    BY <1>1, <1>2, InsertParts
  <1> HIDE DEF t, n
  <1>7. \A i \in 1..(n + 1) :
          \/ i \in 1..k /\ i \in 1..n
          \/ i = k + 1
          \/ i \in (k + 2)..(n + 1) /\ i - 1 \in 1..n /\ i - 1 > k
    BY <1>1, <1>2
  <1>8. \A i \in 1..(n + 1) : t[i].start \in Int
    BY <1>1, <1>6, <1>7
  <1>9. \A i \in 1..(n + 1) : i <= k => t[i].start <= f.start
    BY <1>2, <1>3, <1>6, <1>7
  <1>10. \A i \in 1..(n + 1) : i > k + 1 => f.start <= t[i].start
    BY <1>2, <1>4, <1>6, <1>7
  <1>11. ASSUME NEW i \in 1..(n + 1), NEW j \in 1..(n + 1), i <= j
         PROVE  t[i].start <= t[j].start
    <2>1. CASE i <= k /\ j <= k
      <3>1. i \in 1..n /\ j \in 1..n /\ i \in 1..k /\ j \in 1..k
        BY <1>1, <1>2, <2>1
      <3> QED BY <1>6, <1>11, <3>1 DEF Ascending, n
    <2>2. CASE i <= k /\ j > k
      <3>1. j = k + 1 \/ j > k + 1
        BY <1>2, <2>2
      <3>2. t[i].start <= f.start /\ f.start <= t[j].start
        BY <1>6, <1>9, <1>10, <2>2, <3>1
      <3> QED BY <1>8, <3>2
    <2>3. CASE i = k + 1
      <3>1. j = k + 1 \/ j > k + 1
        BY <1>2, <1>11, <2>3
      <3> QED BY <1>6, <1>10, <2>3, <3>1
    <2>4. CASE i > k + 1
      <3>1. i \in (k + 2)..(n + 1) /\ j \in (k + 2)..(n + 1) /\ i - 1 \in 1..n /\ j - 1 \in 1..n /\ i - 1 <= j - 1
        BY <1>1, <1>2, <1>11, <2>4
      <3>2. s[i - 1].start <= s[j - 1].start
        BY <3>1 DEF Ascending, n
      <3> QED BY <1>6, <3>1, <3>2
    <2>5. i <= k \/ i = k + 1 \/ i > k + 1
      BY <1>2
    <2>6. j <= k \/ j > k
      BY <1>2
    <2> QED BY <2>1, <2>2, <2>3, <2>4, <2>5, <2>6
  <1>12. Ascending(t)
    BY <1>6, <1>8, <1>11 DEF Ascending, Started
  <1> QED BY <1>5, <1>12

AscendingSoFar(c, sorted) == Ascending(sorted)
SortingStarts == INSTANCE FoldProofs WITH Op <- SortStep, Holds <- AscendingSoFar
LEMMA InOrderAscends ==
  ASSUME NEW findings, Started(findings)
  PROVE  Ascending(InOrder(findings))
  <1>1. Len(findings) \in Nat /\ \A i \in 1..Len(findings) : findings[i].start \in Int
    BY SeqFacts DEF Started
  <1>2. AscendingSoFar({}, <<>>)
    BY EmptyIsSeq DEF AscendingSoFar, Ascending, Started
  <1>3. \A i \in 1..Len(findings) : \A acc :
          AscendingSoFar({}, acc) => AscendingSoFar({}, SortStep({}, acc, findings[i]))
    BY <1>1, PlacedAscends DEF SortStep, AscendingSoFar
  <1>4. AscendingSoFar({}, SortingStarts!Result({}, <<>>, findings))
    BY <1>1, <1>2, <1>3, SortingStarts!FoldInvariant
  <1>5. SortingStarts!Result({}, <<>>, findings) = InOrder(findings)
    BY DEF SortingStarts!Result, SortingStarts!Folded, InOrder, Folded, SortStep
  <1> QED BY <1>4, <1>5 DEF AscendingSoFar

LEMMA ResolveShows ==
  ASSUME NEW alerts, IsSeq(alerts), \A a \in Range(alerts) : Full(a)
  PROVE  Presents(Stands(alerts), Range(ResolveFindings(alerts)))
  <1> DEFINE X == Folded(LAMBDA findings, alert : Resolved(alerts, findings, alert), <<>>, alerts)
             S == Stands(alerts)
  <1>1. Gathers(S, X)
    BY GroupsShow
  <1>2. ResolveFindings(alerts) = InOrder(X)
    BY DEF ResolveFindings
  <1> HIDE DEF X, S
  <1>3. IsSeq(X)
    BY <1>1 DEF Gathers
  <1>4. Range(ResolveFindings(alerts)) = Range(X)
    BY <1>2, <1>3, InOrderKeeps
  <1>5. \A f \in Range(X) : \E i \in 1..Len(X) : X[i] = f
    BY <1>3, FoundAt
  <1>6. \A i \in 1..Len(X) : X[i] \in Range(X)
    BY <1>3, SeqFacts
  <1>7. AllShown(S, Range(X))
    BY <1>1, <1>6 DEF Gathers, AllShown
  <1>8. Single(Range(X))
    BY <1>1, <1>5 DEF Gathers, Single
  <1>9. \A f \in Range(X) : Built(S, f)
    BY <1>1, <1>5 DEF Gathers
  <1> QED BY <1>4, <1>7, <1>8, <1>9 DEF Presents, S

(* A finding made from alerts that all still stand has widened.            *)
LEMMA BuiltWidens ==
  ASSUME NEW S, NEW F, AllShown(S, F), Single(F), \A a \in S : Full(a), NEW T, NEW f, Built(T, f),
         Of(T, f) \subseteq S
  PROVE  \E g \in F : Widens(f, g)
  <1>1. \A a \in Of(T, f) : \E g \in F : Widens(a, g) /\ Family(g) = Family(f)
    BY DEF AllShown, Widens, Of
  <1>2. PICK b \in Of(T, f) : f.start = b.start
    BY DEF Built
  <1>3. PICK g \in F : Widens(b, g) /\ Family(g) = Family(f)
    BY <1>1
  <1>4. \A a \in Of(T, f) : Widens(a, g)
    BY <1>1, <1>3 DEF Single
  <1>5. g.start <= f.start /\ f.end <= g.end /\ f.confidence <= g.confidence
    BY <1>2, <1>4 DEF Built, Widens
  <1>6. f.flows \subseteq g.flows
    BY <1>4 DEF Built, Widens
  <1> QED BY <1>3, <1>5, <1>6 DEF Widens

(* The findings of more alerts keep each finding of fewer, unless it is a  *)
(* SYN flood of flows that a scan by the same source has.                  *)
LEMMA FindingsWiden ==
  ASSUME NEW A, IsSeq(A), NEW B, IsSeq(B), \A a \in Range(B) : Full(a), Range(A) \subseteq Range(B),
         NEW f \in Range(ResolveFindings(A))
  PROVE  \/ \E g \in Range(ResolveFindings(B)) : Widens(f, g)
         \/ /\ f.subtype \in SynFloods
            /\ \E r \in Range(ResolveFindings(B)) :
                 r.type = "reconnaissance" /\ r.src = f.src /\ r.flows \cap f.flows # {}
  <1> DEFINE S == Stands(A)
             T == Stands(B)
             E == Range(ResolveFindings(A))
             F == Range(ResolveFindings(B))
  <1>1. Presents(S, E) /\ Presents(T, F)
    BY ResolveShows
  <1>2. \A a \in S \cup T : Full(a)
    BY DEF Stands
  <1>3. Built(S, f)
    BY <1>1 DEF Presents
  <1>4. CASE Of(S, f) \subseteq T
    <2> HIDE DEF S, T, E, F
    <2>1. \E g \in F : Widens(f, g)
      BY <1>1, <1>2, <1>3, <1>4, BuiltWidens DEF Presents
    <2> QED BY <2>1 DEF F
  <1>5. CASE ~ (Of(S, f) \subseteq T)
    <2>1. PICK a \in Of(S, f) : a \notin T
      BY <1>5
    <2>2. a \in S /\ Family(a) = Family(f) /\ a \in Range(B)
      BY DEF Of, Stands
    <2>3. Contradicted(a, B)
      BY <2>1, <2>2 DEF Stands
    <2>4. PICK i \in DOMAIN B : B[i].type = "reconnaissance" /\ B[i].src = a.src /\ B[i].flows \cap a.flows # {}
      BY <2>3 DEF Contradicted
    <2>5. B[i] \in Range(B) /\ a.subtype \in SynFloods
      BY <2>3, SeqFacts DEF Contradicted
    <2>6. B[i] \in T
      BY <2>4, <2>5 DEF Stands, Contradicted, Full
    <2>7. PICK r \in F : Widens(B[i], r)
      BY <1>1, <2>6 DEF Presents, AllShown
    <2>8. PICK h \in E : Widens(a, h)
      BY <1>1, <2>2 DEF Presents, AllShown
    <2>9. h = f
      BY <1>1, <2>2, <2>8 DEF Presents, Single, Widens
    <2>10. f.subtype = a.subtype /\ f.src = a.src /\ r.type = B[i].type /\ r.src = B[i].src
      BY <2>2, <2>7 DEF Widens, Family
    <2>11. r.flows \cap f.flows # {}
      BY <2>4, <2>7, <2>8, <2>9 DEF Widens
    <2> QED BY <2>4, <2>5, <2>7, <2>10, <2>11
  <1> QED BY <1>4, <1>5

-----------------------------------------------------------------------------
(* Incidents partition the findings: each finding is in exactly one, which *)
(* covers it, and incidents of one source lie apart.                       *)

Spans(x) ==
  IsSeq(x.alerts) /\ Len(x.alerts) > 0 /\ \A a \in Range(x.alerts) : a.start \in Int /\ a.end \in Int
LEMMA SeenFacts ==
  ASSUME NEW x, Spans(x)
  PROVE  /\ FirstSeen(x) \in Int /\ LastSeen(x) \in Int
         /\ \A a \in Range(x.alerts) : FirstSeen(x) <= a.start /\ a.end <= LastSeen(x)
         /\ \E a \in Range(x.alerts) : a.start = FirstSeen(x)
         /\ \E a \in Range(x.alerts) : a.end = LastSeen(x)
  <1> DEFINE R == Range(x.alerts)
             starts == {a.start : a \in R}
             ends == {a.end : a \in R}
             f == [a \in R |-> a.start]
             g == [a \in R |-> a.end]
  <1>1. IsFiniteSet(R) /\ R # {}
    BY RangeFinite, SeqFacts DEF Spans
  <1>2. starts # {} /\ starts \subseteq Int /\ ends # {} /\ ends \subseteq Int
    BY <1>1 DEF Spans
  <1>3. IsFiniteSet(starts)
    <2>1. IsFiniteSet({f[a] : a \in R})
      <3> HIDE DEF f, R
      <3> QED BY <1>1, ImageFinite
    <2>2. {f[a] : a \in R} = starts
      OBVIOUS
    <2> HIDE DEF starts
    <2> QED BY <2>1, <2>2
  <1>4. IsFiniteSet(ends)
    <2>1. IsFiniteSet({g[a] : a \in R})
      <3> HIDE DEF g, R
      <3> QED BY <1>1, ImageFinite
    <2>2. {g[a] : a \in R} = ends
      OBVIOUS
    <2> HIDE DEF ends
    <2> QED BY <2>1, <2>2
  <1>5. FirstSeen(x) = Min(starts) /\ LastSeen(x) = Max(ends)
    BY DEF FirstSeen, LastSeen
  <1>6. Min(starts) \in starts /\ \A y \in starts : Min(starts) <= y
    <2> HIDE DEF starts
    <2> QED BY <1>2, <1>3, MinOfFinite
  <1>7. Max(ends) \in ends /\ \A y \in ends : Max(ends) >= y
    <2> HIDE DEF ends
    <2> QED BY <1>2, <1>4, MaxOfFinite
  <1>8. /\ FirstSeen(x) \in Int /\ (\E a \in R : a.start = FirstSeen(x))
        /\ \A a \in R : FirstSeen(x) <= a.start
    BY <1>2, <1>5, <1>6
  <1>9. /\ LastSeen(x) \in Int /\ (\E a \in R : a.end = LastSeen(x))
        /\ \A a \in R : LastSeen(x) >= a.end /\ a.end \in Int
    BY <1>2, <1>5, <1>7
  <1> HIDE DEF R
  <1>10. \A a \in R : a.end <= LastSeen(x)
    BY <1>9
  <1> QED BY <1>8, <1>9, <1>10 DEF R

(* Findings that run forward in time and whose ids tell their source and   *)
(* their end.                                                              *)
Orderly(D) ==
  /\ \A f \in D : f.start \in Int /\ f.end \in Int /\ f.start <= f.end
  /\ \A f, g \in D : f.id = g.id => f.src = g.src /\ f.end = g.end
HeldFrom(D, x) ==
  /\ x = [id |-> x.id, src |-> x.src, alerts |-> x.alerts]
  /\ IsSeq(x.alerts) /\ Len(x.alerts) > 0 /\ Range(x.alerts) \subseteq D
  /\ \A a \in Range(x.alerts) : a.src = x.src
  /\ x.id = <<x.src, FirstSeen(x)>>
Covers(x, f) ==
  f.id \in AlertIds(x) /\ x.src = f.src /\ FirstSeen(x) <= f.start /\ f.end <= LastSeen(x)
LieApart(X) ==
  \A i, j \in 1..Len(X) :
    i < j /\ X[i].src = X[j].src => FirstSeen(X[j]) - LastSeen(X[i]) > CorrelationWindow
Parted(D, X) ==
  /\ IsSeq(X) /\ \A i \in 1..Len(X) : HeldFrom(D, X[i])
  /\ \A f \in D : \E i \in 1..Len(X) : Covers(X[i], f)
  /\ LieApart(X)

LEMMA HeldFacts ==
  ASSUME NEW D, Orderly(D), NEW x, HeldFrom(D, x)
  PROVE  /\ Spans(x) /\ FirstSeen(x) \in Int /\ LastSeen(x) \in Int /\ FirstSeen(x) <= LastSeen(x)
         /\ \E a \in D : a.start = FirstSeen(x)
  <1>1. Spans(x)
    BY DEF Orderly, HeldFrom, Spans
  <1>2. PICK a \in Range(x.alerts) : a.start = FirstSeen(x)
    BY <1>1, SeenFacts
  <1>3. a \in D /\ a.start \in Int /\ a.end \in Int /\ a.start <= a.end
    BY DEF Orderly, HeldFrom
  <1>4. a.end <= LastSeen(x) /\ LastSeen(x) \in Int
    BY <1>1, SeenFacts
  <1> QED BY <1>1, <1>2, <1>3, <1>4
LEMMA HeldMore ==
  ASSUME NEW D, NEW E, D \subseteq E, NEW x, HeldFrom(D, x)
  PROVE  HeldFrom(E, x)
  BY DEF HeldFrom

(* One more finding, no earlier than those before: only the last incident  *)
(* of its source can be near.                                              *)
LEMMA CorrelatedParts ==
  ASSUME NEW D, NEW X, Parted(D, X), NEW f, Orderly(D \cup {f}), \A g \in D : g.start <= f.start
  PROVE  Parted(D \cup {f}, Correlated(X, f))
  <1> DEFINE n == Len(X)
             E == D \cup {f}
             near == Candidates(X, f)
             w == CorrelationWindow
  <1>0. /\ n \in Nat /\ DOMAIN X = 1..n /\ IsSeq(X) /\ w \in Nat
        /\ f.start \in Int /\ f.end \in Int /\ f.start <= f.end /\ f \in E
    BY SeqFacts, CorrelationAssumption DEF Parted, Orderly
  <1>1. Orderly(D) /\ Orderly(E) /\ D \subseteq E
    BY DEF Orderly
  <1>2. \A i \in 1..n : /\ HeldFrom(D, X[i]) /\ HeldFrom(E, X[i]) /\ Spans(X[i])
                        /\ FirstSeen(X[i]) \in Int /\ LastSeen(X[i]) \in Int
                        /\ FirstSeen(X[i]) <= LastSeen(X[i]) /\ FirstSeen(X[i]) <= f.start
    BY <1>1, HeldFacts, HeldMore DEF Parted
  <1> HIDE DEF E, w
  <1>3. near \subseteq 1..n
    BY <1>0 DEF Candidates
  <1>4. \A i \in 1..n : i \in near <=> X[i].src = f.src /\ f.start - LastSeen(X[i]) <= w
    <2>1. \A i \in 1..n : f.end >= FirstSeen(X[i]) - w
      BY <1>0, <1>2
    <2> QED BY <1>0, <2>1 DEF Candidates, w
  <1> HIDE DEF near, n
  <1>5. \A i, j \in 1..n : i < j /\ X[i].src = X[j].src => FirstSeen(X[j]) - LastSeen(X[i]) > w
    BY DEF Parted, LieApart, n, w
  <1>6. \A i \in near : \A j \in 1..n : X[j].src = f.src => ~(i < j)
    BY <1>0, <1>2, <1>3, <1>4, <1>5
  <1>7. \A i, j \in near : i = j
    BY <1>0, <1>3, <1>4, <1>6
  <1>8. \A g \in D : \E i \in 1..n : Covers(X[i], g)
    BY DEF Parted, n
  <1>9. CASE near = {}
    <2> DEFINE new == NewIncident(f)
               same == {k \in DOMAIN X : X[k].id = new.id}
               all == Append(X, new)
    <2>1. new = [id |-> <<f.src, f.start>>, src |-> f.src, alerts |-> <<f>>]
      BY DEF NewIncident
    <2>2. IsSeq(<<f>>) /\ Range(<<f>>) = {f} /\ Len(<<f>>) = 1
      BY DEF IsSeq, Range
    <2>3. new.id = <<f.src, f.start>> /\ new.src = f.src /\ new.alerts = <<f>>
      BY <2>1
    <2> HIDE DEF new
    <2>4. Spans(new)
      BY <1>0, <2>2, <2>3 DEF Spans
    <2>5. FirstSeen(new) = f.start /\ LastSeen(new) = f.end
      BY <2>2, <2>3, <2>4, SeenFacts
    <2>6. HeldFrom(E, new)
      BY <1>0, <2>1, <2>2, <2>3, <2>5 DEF HeldFrom
    <2>7. Covers(new, f)
      BY <1>0, <2>2, <2>3, <2>5 DEF Covers, AlertIds
    <2>8. \A k \in 1..n : X[k].src = f.src => f.start - LastSeen(X[k]) > w
      BY <1>0, <1>2, <1>4, <1>9
    <2>9. same = {}
      <3> SUFFICES ASSUME NEW k \in 1..n, X[k].id = new.id PROVE FALSE
        BY <1>0
      <3>1. X[k].id = <<X[k].src, FirstSeen(X[k])>>
        BY <1>2 DEF HeldFrom
      <3>2. X[k].src = f.src /\ FirstSeen(X[k]) = f.start
        BY <2>3, <3>1
      <3> QED BY <1>0, <1>2, <2>8, <3>2
    <2>10. Correlated(X, f) = all
      BY <1>9, <2>9 DEF Correlated, Opened, near, new
    <2>11. /\ IsSeq(all) /\ Len(all) = n + 1 /\ all[n + 1] = new
           /\ \A k \in 1..n : all[k] = X[k]
      BY <1>0, AppendIsSeq DEF n
    <2> HIDE DEF all, same
    <2>12. \A k \in 1..(n + 1) : k \in 1..n \/ k = n + 1
      BY <1>0
    <2>13. \A k \in 1..(n + 1) : HeldFrom(E, all[k])
      BY <1>2, <2>6, <2>11, <2>12
    <2>14. ASSUME NEW g \in E PROVE \E k \in 1..(n + 1) : Covers(all[k], g)
      <3>1. CASE g \in D
        <4>1. PICK k \in 1..n : Covers(X[k], g)
          BY <1>8, <3>1
        <4> QED BY <1>0, <2>11, <4>1
      <3>2. CASE g = f
        BY <1>0, <2>7, <2>11, <3>2
      <3> QED BY <3>1, <3>2 DEF E
    <2>15. ASSUME NEW i \in 1..(n + 1), NEW j \in 1..(n + 1), i < j, all[i].src = all[j].src
           PROVE  FirstSeen(all[j]) - LastSeen(all[i]) > w
      <3>1. i \in 1..n /\ all[i] = X[i]
        BY <1>0, <2>11, <2>15
      <3>2. CASE j \in 1..n
        BY <1>5, <2>11, <2>15, <3>1, <3>2
      <3>3. CASE j = n + 1
        BY <2>3, <2>5, <2>8, <2>11, <2>15, <3>1, <3>3
      <3> QED BY <2>12, <3>2, <3>3
    <2>16. Parted(E, all)
      BY <2>11, <2>13, <2>14, <2>15 DEF Parted, LieApart, w
    <2> QED BY <2>10, <2>16 DEF E
  <1>10. CASE near # {}
    <2>1. PICK i \in near : near = {i}
      BY <1>7, <1>10
    <2>2. i \in 1..n /\ X[i].src = f.src /\ f.start - LastSeen(X[i]) <= w
      BY <1>3, <1>4
    <2>3. Active(X, near) = i
      <3>1. {k \in near : \A j \in near : LastSeen(X[j]) <= LastSeen(X[k])} = {i}
        BY <1>2, <2>1, <2>2
      <3>2. {i} \subseteq Nat /\ {i} # {}
        BY <1>0, <2>2
      <3>3. Min({i}) \in {i}
        BY <3>2, MinOfNat
      <3> QED BY <3>1, <3>3 DEF Active
    <2>4. CASE f.id \in AlertIds(X[i])
      <3>1. Correlated(X, f) = X
        BY <1>10, <2>3, <2>4 DEF Correlated, near
      <3>2. PICK a \in Range(X[i].alerts) : a.id = f.id
        BY <2>4 DEF AlertIds
      <3>3. a \in E /\ a.end <= LastSeen(X[i])
        BY <1>2, <2>2, SeenFacts DEF HeldFrom
      <3>4. a.end = f.end
        BY <1>0, <1>1, <3>2, <3>3 DEF Orderly
      <3>5. Covers(X[i], f)
        BY <1>2, <2>2, <2>4, <3>3, <3>4 DEF Covers
      <3>6. \A g \in E : \E k \in 1..n : Covers(X[k], g)
        BY <1>8, <2>2, <3>5 DEF E
      <3>7. Parted(E, X)
        BY <1>0, <1>2, <1>5, <3>6 DEF Parted, LieApart, n, w
      <3> QED BY <3>1, <3>7 DEF E
    <2>5. CASE f.id \notin AlertIds(X[i])
      <3> DEFINE x == X[i]
                 longer == [x EXCEPT !.alerts = Append(@, f)]
                 all == [X EXCEPT ![i] = longer]
      <3>1. Correlated(X, f) = all
        BY <1>10, <2>3, <2>5 DEF Correlated, near
      <3>2. HeldFrom(E, x) /\ Spans(x) /\ FirstSeen(x) \in Int /\ LastSeen(x) \in Int /\ FirstSeen(x) <= f.start
        BY <1>2, <2>2
      <3>3. x = [id |-> x.id, src |-> x.src, alerts |-> x.alerts] /\ x.src = f.src
        BY <2>2, <3>2 DEF HeldFrom
      <3>4. /\ longer = [id |-> longer.id, src |-> longer.src, alerts |-> longer.alerts]
            /\ longer.id = x.id /\ longer.src = x.src /\ longer.alerts = Append(x.alerts, f)
        <4> HIDE DEF x
        <4>1. longer = [id |-> x.id, src |-> x.src, alerts |-> Append(x.alerts, f)]
          BY <3>3
        <4> HIDE DEF longer
        <4> QED BY <4>1
      <3>5. /\ IsSeq(all) /\ Len(all) = n
            /\ \A m \in 1..n : all[m] = IF m = i THEN longer ELSE X[m]
        <4> HIDE DEF longer, x
        <4> QED BY <1>0, <2>2, ExceptIsSeq, Zenon DEF n
      <3> HIDE DEF longer, all
      <3>6. /\ IsSeq(longer.alerts) /\ Len(longer.alerts) > 0
            /\ Range(longer.alerts) = Range(x.alerts) \cup {f}
        <4>1. IsSeq(x.alerts) /\ Len(x.alerts) \in Nat
          BY <3>2, SeqFacts DEF HeldFrom
        <4> HIDE DEF x
        <4>2. /\ IsSeq(Append(x.alerts, f)) /\ Len(Append(x.alerts, f)) = Len(x.alerts) + 1
              /\ Range(Append(x.alerts, f)) = Range(x.alerts) \cup {f}
          BY <4>1, AppendIsSeq
        <4> QED BY <3>4, <4>1, <4>2
      <3> HIDE DEF x
      <3>7. Spans(longer)
        BY <1>0, <3>2, <3>6 DEF Spans
      <3>8. /\ FirstSeen(longer) = FirstSeen(x) /\ f.end <= LastSeen(longer)
            /\ LastSeen(x) <= LastSeen(longer) /\ LastSeen(longer) \in Int
        <4>1. /\ FirstSeen(longer) \in Int /\ LastSeen(longer) \in Int
              /\ \A a \in Range(longer.alerts) : FirstSeen(longer) <= a.start /\ a.end <= LastSeen(longer)
          BY <3>7, SeenFacts
        <4>2. PICK a \in Range(longer.alerts) : a.start = FirstSeen(longer)
          BY <3>7, SeenFacts
        <4>3. PICK b \in Range(x.alerts) : b.start = FirstSeen(x)
          BY <3>2, SeenFacts
        <4>4. PICK c \in Range(x.alerts) : c.end = LastSeen(x)
          BY <3>2, SeenFacts
        <4>5. \A y \in Range(x.alerts) : FirstSeen(x) <= y.start
          BY <3>2, SeenFacts
        <4>6. FirstSeen(x) <= a.start
          BY <3>2, <3>6, <4>5
        <4>7. FirstSeen(longer) <= b.start
          BY <3>6, <4>1
        <4>8. c.end <= LastSeen(longer) /\ f.end <= LastSeen(longer)
          BY <3>6, <4>1
        <4> QED BY <3>2, <4>1, <4>2, <4>3, <4>4, <4>6, <4>7, <4>8
      <3>9. HeldFrom(E, longer)
        <4>1. x.id = <<x.src, FirstSeen(x)>> /\ Range(x.alerts) \subseteq E /\ \A a \in Range(x.alerts) : a.src = x.src
          BY <3>2 DEF HeldFrom
        <4> QED BY <1>0, <3>3, <3>4, <3>6, <3>8, <4>1 DEF HeldFrom
      <3>10. \A g \in D : Covers(x, g) => Covers(longer, g)
        <4>1. AlertIds(x) \subseteq AlertIds(longer)
          BY <3>6 DEF AlertIds
        <4>2. ASSUME NEW g, Covers(x, g), g \in D PROVE Covers(longer, g)
          <5>1. g.end \in Int
            BY <1>1, <4>2 DEF Orderly
          <5> QED BY <3>2, <3>4, <3>8, <4>1, <4>2, <5>1 DEF Covers
        <4> QED BY <4>2
      <3>11. Covers(longer, f)
        <4>1. f.id \in AlertIds(longer)
          BY <3>6 DEF AlertIds
        <4> QED BY <3>2, <3>3, <3>4, <3>8, <4>1 DEF Covers
      <3>12. X[i] = x
        BY DEF x
      <3>13. \A k \in 1..n : HeldFrom(E, all[k])
        BY <1>2, <3>5, <3>9
      <3>14. ASSUME NEW g \in E PROVE \E k \in 1..n : Covers(all[k], g)
        <4>1. CASE g \in D
          <5>1. PICK k \in 1..n : Covers(X[k], g)
            BY <1>8, <4>1
          <5> QED BY <3>5, <3>10, <3>12, <4>1, <5>1
        <4>2. CASE g = f
          BY <2>2, <3>5, <3>11, <4>2
        <4> QED BY <4>1, <4>2 DEF E
      <3>15. ASSUME NEW j \in 1..n, NEW k \in 1..n, j < k, all[j].src = all[k].src
             PROVE  FirstSeen(all[k]) - LastSeen(all[j]) > w
        <4>1. X[j].src = X[k].src
          BY <3>4, <3>5, <3>12, <3>15
        <4>2. j # i
          BY <1>6, <2>2, <3>15, <4>1
        <4>3. LastSeen(all[j]) = LastSeen(X[j]) /\ FirstSeen(all[k]) = FirstSeen(X[k])
          BY <3>5, <3>8, <3>12, <4>2
        <4> QED BY <1>5, <3>15, <4>1, <4>3
      <3>16. Parted(E, all)
        BY <3>5, <3>13, <3>14, <3>15 DEF Parted, LieApart, w
      <3> QED BY <3>1, <3>16 DEF E
    <2> QED BY <2>4, <2>5
  <1> QED BY <1>9, <1>10
PartStep(c, incidents, alert) == Correlated(incidents, alert)
Parting == INSTANCE FoldProofs WITH Op <- PartStep, Holds <- Anyhow
LEMMA IncidentsParted ==
  ASSUME NEW F, Ascending(F), Orderly(Range(F))
  PROVE  Parted(Range(F), Incidents(F))
  <1> DEFINE n == Len(F)
             S(k) == {F[i] : i \in 1..k}
  <1>1. n \in Nat /\ DOMAIN F = 1..n /\ S(n) = Range(F) /\ IsSeq(F)
    BY SeqFacts DEF Ascending, Started, Range
  <1>2. PICK run : /\ run[0] = <<>>
                   /\ \A i \in 1..n : run[i] = PartStep({}, run[i - 1], F[i])
                   /\ Parting!Result({}, <<>>, F) = run[n]
    BY <1>1, Parting!FoldIsRun, SMTT(30)
  <1>3. Incidents(F) = run[n]
    BY <1>2 DEF Parting!Result, Parting!Folded, Incidents, Folded, PartStep
  <1> DEFINE T == {k \in 0..n : Parted(S(k), run[k])}
  <1>4. 0 \in T
    <2>1. S(0) = {}
      OBVIOUS
    <2>2. 0 \in 0..n /\ run[0] = <<>>
      BY <1>1, <1>2
    <2> HIDE DEF S, n
    <2>3. Parted({}, <<>>)
      BY EmptyIsSeq DEF Parted, LieApart
    <2>4. Parted(S(0), run[0])
      BY <2>1, <2>2, <2>3, Zenon
    <2> QED BY <2>2, <2>4
  <1>5. ASSUME NEW k \in 0..n, k < n, k \in T PROVE k + 1 \in T
    <2> DEFINE f == F[k + 1]
    <2>1. k + 1 \in 1..n /\ k + 1 \in 0..n /\ (k + 1) - 1 = k
      BY <1>1, <1>5
    <2>2. run[k + 1] = Correlated(run[k], f)
      BY <1>2, <2>1 DEF PartStep
    <2>3. S(k + 1) = S(k) \cup {f}
      BY <2>1
    <2>4. S(k + 1) \subseteq Range(F)
      BY <1>1, <2>1 DEF Range
    <2>5. \A g \in S(k) : g.start <= f.start
      <3>1. \A i \in 1..k : i \in 1..n /\ i <= k + 1
        BY <1>1, <2>1
      <3> QED BY <2>1, <3>1 DEF Ascending
    <2>6. Parted(S(k), run[k])
      BY <1>5
    <2> HIDE DEF S, f, n
    <2>7. Orderly(S(k) \cup {f})
      BY <2>3, <2>4 DEF Orderly
    <2>8. Parted(S(k + 1), run[k + 1])
      BY <2>2, <2>3, <2>5, <2>6, <2>7, CorrelatedParts
    <2> QED BY <2>1, <2>8
  <1>6. n \in T
    <2> HIDE DEF T, n
    <2> QED BY <1>1, <1>4, <1>5, PrefixInduction
  <1>7. Parted(S(n), run[n])
    BY <1>6
  <1> HIDE DEF S, n
  <1> QED BY <1>1, <1>3, <1>7

(* A finding is in one incident only: two that list its id would both hold *)
(* a finding of its source that ends when it does, and so lie together.    *)
Partition(found, all) ==
  /\ \A f \in found : \E i \in DOMAIN all :
       /\ \A j \in DOMAIN all : f.id \in AlertIds(all[j]) <=> j = i
       /\ all[i].src = f.src /\ FirstSeen(all[i]) <= f.start /\ f.end <= LastSeen(all[i])
  /\ \A i, j \in DOMAIN all : i # j /\ all[i].src = all[j].src =>
       \/ FirstSeen(all[i]) - LastSeen(all[j]) > CorrelationWindow
       \/ FirstSeen(all[j]) - LastSeen(all[i]) > CorrelationWindow
LEMMA PartedPartition ==
  ASSUME NEW D, Orderly(D), NEW X, Parted(D, X)
  PROVE  Partition(D, X)
  <1> DEFINE n == Len(X)
             w == CorrelationWindow
  <1>1. n \in Nat /\ DOMAIN X = 1..n /\ w \in Nat
    BY SeqFacts, CorrelationAssumption DEF Parted
  <1>2. \A i \in 1..n : /\ HeldFrom(D, X[i]) /\ Spans(X[i])
                        /\ FirstSeen(X[i]) \in Int /\ LastSeen(X[i]) \in Int
    BY HeldFacts DEF Parted
  <1>3. \A i, j \in 1..n :
          i < j /\ X[i].src = X[j].src => FirstSeen(X[j]) - LastSeen(X[i]) > w
    BY DEF Parted, LieApart
  <1> HIDE DEF n, w
  <1>4. \A i, j \in 1..n : i # j /\ X[i].src = X[j].src =>
          \/ FirstSeen(X[i]) - LastSeen(X[j]) > w
          \/ FirstSeen(X[j]) - LastSeen(X[i]) > w
    <2> SUFFICES ASSUME NEW i \in 1..n, NEW j \in 1..n, i # j, X[i].src = X[j].src
                 PROVE  \/ FirstSeen(X[i]) - LastSeen(X[j]) > w
                        \/ FirstSeen(X[j]) - LastSeen(X[i]) > w
      OBVIOUS
    <2>1. i < j \/ j < i
      BY <1>1
    <2> QED BY <1>3, <2>1
  <1>5. ASSUME NEW f \in D
        PROVE  \E i \in 1..n :
                 /\ \A j \in 1..n : f.id \in AlertIds(X[j]) <=> j = i
                 /\ X[i].src = f.src /\ FirstSeen(X[i]) <= f.start /\ f.end <= LastSeen(X[i])
    <2>1. PICK i \in 1..n : Covers(X[i], f)
      BY DEF Parted, n
    <2>2. f.start \in Int /\ f.end \in Int /\ f.start <= f.end
      BY DEF Orderly
    <2>3. /\ f.id \in AlertIds(X[i]) /\ X[i].src = f.src
          /\ FirstSeen(X[i]) <= f.start /\ f.end <= LastSeen(X[i])
      BY <2>1 DEF Covers
    <2>4. ASSUME NEW j \in 1..n, f.id \in AlertIds(X[j]), j # i PROVE FALSE
      <3>1. PICK a \in Range(X[j].alerts) : a.id = f.id
        BY <2>4 DEF AlertIds
      <3>2. a \in D /\ a.src = X[j].src
        BY <1>2 DEF HeldFrom
      <3>3. a.src = f.src /\ a.end = f.end /\ a.start \in Int /\ a.start <= a.end
        BY <3>1, <3>2 DEF Orderly
      <3>4. FirstSeen(X[j]) <= a.start /\ a.end <= LastSeen(X[j])
        BY <1>2, SeenFacts
      <3>5. FirstSeen(X[j]) <= f.end /\ f.end <= LastSeen(X[j])
        BY <1>2, <2>2, <3>3, <3>4
      <3>6. FirstSeen(X[i]) <= f.end /\ f.end <= LastSeen(X[i])
        BY <1>2, <2>2, <2>3
      <3>7. X[i].src = X[j].src
        BY <2>3, <3>2, <3>3
      <3>8. \/ FirstSeen(X[i]) - LastSeen(X[j]) > w
            \/ FirstSeen(X[j]) - LastSeen(X[i]) > w
        BY <1>4, <2>4, <3>7
      <3> QED BY <1>1, <1>2, <2>2, <3>5, <3>6, <3>8
    <2> QED BY <2>3, <2>4
  <1> QED BY <1>1, <1>4, <1>5 DEF Partition, w

(* When two alerts that stand share an id, they are one family, or they end *)
(* together and nothing of their families ends later.                      *)
Twins(S, a, b) ==
  \/ Family(a) = Family(b)
  \/ /\ a.src = b.src /\ a.end = b.end
     /\ \A c \in S : Family(c) = Family(a) \/ Family(c) = Family(b) => c.end <= a.end
LEMMA PresentedOrderly ==
  ASSUME NEW S, NEW F, Presents(S, F), \A a \in S : Full(a) /\ a.start <= a.end,
         \A a, b \in S : a.id = b.id => Twins(S, a, b)
  PROVE  Orderly(F)
  <1>1. ASSUME NEW f \in F
        PROVE  /\ f.start \in Int /\ f.end \in Int
               /\ \E a \in S : Family(a) = Family(f) /\ f.id = a.id
               /\ \E c \in S : Family(c) = Family(f) /\ f.end = c.end
               /\ \A a \in S : Family(a) = Family(f) => Widens(a, f)
    <2>1. Built(S, f)
      BY DEF Presents
    <2>2. \A a \in S : Family(a) = Family(f) => Widens(a, f)
      <3> SUFFICES ASSUME NEW a \in S, Family(a) = Family(f) PROVE Widens(a, f)
        OBVIOUS
      <3>1. PICK g \in F : Widens(a, g)
        BY DEF Presents, AllShown
      <3>2. g = f
        BY <3>1 DEF Presents, Single, Widens
      <3> QED BY <3>1, <3>2
    <2> QED BY <2>1, <2>2 DEF Built, Of, Full
  <1>2. ASSUME NEW f \in F PROVE f.start <= f.end
    <2>1. PICK a \in S : Family(a) = Family(f)
      BY <1>1
    <2>2. f.start <= a.start /\ a.end <= f.end
      BY <1>1, <2>1 DEF Widens
    <2> QED BY <1>1, <2>2 DEF Full
  <1>3. ASSUME NEW f \in F, NEW g \in F, f.id = g.id PROVE f.src = g.src /\ f.end = g.end
    <2>1. PICK a \in S : Family(a) = Family(f) /\ f.id = a.id
      BY <1>1
    <2>2. PICK b \in S : Family(b) = Family(g) /\ g.id = b.id
      BY <1>1
    <2>3. Twins(S, a, b)
      BY <1>3, <2>1, <2>2
    <2>4. CASE Family(a) = Family(b)
      BY <2>1, <2>2, <2>4 DEF Presents, Single
    <2>5. CASE /\ a.src = b.src /\ a.end = b.end
               /\ \A c \in S : Family(c) = Family(a) \/ Family(c) = Family(b) => c.end <= a.end
      <3>1. f.src = a.src /\ g.src = b.src
        BY <2>1, <2>2 DEF Family
      <3>2. f.end = a.end
        <4>1. PICK c \in S : Family(c) = Family(f) /\ f.end = c.end
          BY <1>1
        <4>2. f.end <= a.end
          BY <2>1, <2>5, <4>1
        <4>3. a.end <= f.end /\ a.end \in Int
          BY <1>1, <2>1 DEF Widens, Full
        <4> QED BY <1>1, <4>2, <4>3
      <3>3. g.end = b.end
        <4>1. PICK c \in S : Family(c) = Family(g) /\ g.end = c.end
          BY <1>1
        <4>2. g.end <= b.end
          BY <2>2, <2>5, <4>1
        <4>3. b.end <= g.end /\ b.end \in Int
          BY <1>1, <2>2 DEF Widens, Full
        <4> QED BY <1>1, <4>2, <4>3
      <3> QED BY <2>5, <3>1, <3>2, <3>3
    <2> QED BY <2>3, <2>4, <2>5 DEF Twins
  <1> QED BY <1>1, <1>2, <1>3 DEF Orderly

LEMMA ResolveAscends ==
  ASSUME NEW alerts, IsSeq(alerts), \A a \in Range(alerts) : Full(a)
  PROVE  Ascending(ResolveFindings(alerts))
  <1> DEFINE X == Folded(LAMBDA findings, alert : Resolved(alerts, findings, alert), <<>>, alerts)
             S == Stands(alerts)
  <1>1. Gathers(S, X)
    BY GroupsShow
  <1>2. ResolveFindings(alerts) = InOrder(X)
    BY DEF ResolveFindings
  <1> HIDE DEF X, S
  <1>3. Started(X)
    BY <1>1 DEF Gathers, Started, Full
  <1> QED BY <1>2, <1>3, InOrderAscends

(* The findings of alerts are partitioned by their incidents.              *)
THEOREM FindingsPartition ==
  ASSUME NEW A, IsSeq(A), \A a \in Range(A) : Full(a) /\ a.start <= a.end,
         \A a, b \in Stands(A) : a.id = b.id => Twins(Stands(A), a, b)
  PROVE  Partition(Range(ResolveFindings(A)), Incidents(ResolveFindings(A)))
  <1> DEFINE F == ResolveFindings(A)
  <1>1. Presents(Stands(A), Range(F)) /\ Ascending(F)
    BY ResolveShows, ResolveAscends
  <1>2. \A a \in Stands(A) : Full(a) /\ a.start <= a.end
    BY DEF Stands
  <1> HIDE DEF F
  <1>3. Orderly(Range(F))
    BY <1>1, <1>2, PresentedOrderly
  <1>4. Partition(Range(F), Incidents(F))
    BY <1>1, <1>3, IncidentsParted, PartedPartition
  <1> QED BY <1>4 DEF F
=============================================================================
