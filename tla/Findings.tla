------------------------------ MODULE Findings ------------------------------
(***************************************************************************)
(* From alerts to what an analyst sees: contradictions are dropped, the    *)
(* alerts of one family are merged into one finding, and findings of one   *)
(* source that lie close together in time form an incident.                *)
(***************************************************************************)
EXTENDS SlidingWindow

CONSTANT CorrelationWindow  (* correlation_window_seconds                  *)

ASSUME CorrelationAssumption == CorrelationWindow \in Nat \ {0}

SynFloods == {"syn_flood", "distributed_source_syn_flood"}
(* The flows are those of a scan by the same source.                       *)
Contradicted(alert, alerts) ==
  /\ alert.subtype \in SynFloods
  /\ \E i \in DOMAIN alerts : /\ alerts[i].type = "reconnaissance"
                              /\ alerts[i].src = alert.src
                              /\ alerts[i].flows \cap alert.flows # {}
Family(alert) == <<alert.type, alert.subtype, alert.src, alert.dst>>
Merged(old, new) ==
  [(IF new.confidence > old.confidence THEN new ELSE old) EXCEPT
     !.start = Min({old.start, new.start}), !.end = Max({old.end, new.end}),
     !.flows = old.flows \cup new.flows]
Grouped(findings, alert) ==
  LET same == {i \in DOMAIN findings : Family(findings[i]) = Family(alert)}
  IN  IF same = {} THEN Append(findings, alert)
      ELSE [findings EXCEPT ![Min(same)] = Merged(@, alert)]
(* A contradicted alert is left out.                                       *)
Resolved(alerts, findings, alert) ==
  IF Contradicted(alert, alerts) THEN findings ELSE Grouped(findings, alert)
(* Mutant of InOrder: findings in the order their families appeared.       *)
AsRaised(findings) == findings
(* Findings of equal start keep no particular order here.                  *)
Placed(sorted, finding) ==
  InsertAt(sorted, Max({0} \cup {i \in DOMAIN sorted : sorted[i].start <= finding.start}) + 1, finding)
InOrder(findings) == Folded(Placed, <<>>, findings)
ResolveFindings(alerts) ==
  InOrder(Folded(LAMBDA findings, alert : Resolved(alerts, findings, alert), <<>>, alerts))

(* What a finding is to a later one of its family.                         *)
Widens(f, g) ==
  /\ Family(f) = Family(g) /\ f.flows \subseteq g.flows
  /\ g.start <= f.start /\ f.end <= g.end /\ f.confidence <= g.confidence

(* The incident store.                                                     *)
FirstSeen(incident) == Min({a.start : a \in Range(incident.alerts)})
LastSeen(incident) == Max({a.end : a \in Range(incident.alerts)})
AlertIds(incident) == {a.id : a \in Range(incident.alerts)}

Candidates(incidents, alert) ==
  {i \in DOMAIN incidents :
     /\ incidents[i].src = alert.src
     /\ alert.start - LastSeen(incidents[i]) <= CorrelationWindow
     /\ alert.end >= FirstSeen(incidents[i]) - CorrelationWindow}
Active(incidents, near) ==
  Min({i \in near : \A j \in near : LastSeen(incidents[j]) <= LastSeen(incidents[i])})
NewIncident(alert) ==
  [id |-> <<alert.src, alert.start>>, src |-> alert.src, alerts |-> <<alert>>]
Opened(incidents, new) ==
  LET same == {i \in DOMAIN incidents : incidents[i].id = new.id}
  IN  IF same = {} THEN Append(incidents, new) ELSE [incidents EXCEPT ![Min(same)] = new]
Correlated(incidents, alert) ==
  LET near == Candidates(incidents, alert)
      i == Active(incidents, near)
  IN  IF near = {} THEN Opened(incidents, NewIncident(alert))
      ELSE IF alert.id \in AlertIds(incidents[i]) THEN incidents
           ELSE [incidents EXCEPT ![i].alerts = Append(@, alert)]
Incidents(findings) == Folded(Correlated, <<>>, findings)

ThreatWeight(type) ==
  CASE type = "reconnaissance" -> 15 [] type = "command_and_control" -> 35
    [] type = "denial_of_service" -> 25 [] type = "dns_threat" -> 25
    [] type = "data_exfiltration" -> 40 [] OTHER -> 10

(* Risk: distinct threats, a bonus for several detectors, confidence.      *)
ThreatTypes(incident) == {a.type : a \in Range(incident.alerts)}
Detectors(incident) == {a.id[1] : a \in Range(incident.alerts)}
Confidence(incident) == Total(incident.alerts, LAMBDA a : a.confidence) \div Len(incident.alerts)
Risk(incident) ==
  Min({100, MapThenSumSet(ThreatWeight, ThreatTypes(incident))
            + 8 * (Cardinality(Detectors(incident)) - 1) + Confidence(incident) \div 5})
Severity(score) ==
  IF score >= 80 THEN "critical" ELSE IF score >= 60 THEN "high" ELSE IF score >= 35 THEN "medium" ELSE "low"
(* The strongest incident anchors the score of a replay; breadth adds.     *)
Breadth(n) == Min({15, 3 * Max({0, n - 1})})
AggregateRisk(incidents) ==
  IF incidents = <<>> THEN 0
  ELSE Min({100, Max({Risk(i) : i \in Range(incidents)}) + Breadth(Len(incidents))
                 + Breadth(Cardinality(UNION {ThreatTypes(i) : i \in Range(incidents)}))})
=============================================================================
