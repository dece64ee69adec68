---------------------------- MODULE AnalystStore ----------------------------
(***************************************************************************)
(* The analyst store's tables and what each statement does to them: the    *)
(* upserts of an import, reviews, saved runs, the reading queries and the  *)
(* export of a saved run.  The tables are one record, db; a transaction is *)
(* an expression over it.                                                  *)
(***************************************************************************)
EXTENDS Findings

Statuses     == {"open", "investigating", "resolved", "false_positive"}
Dispositions == {"confirmed_malicious", "benign", "needs_review"}

NoRows == [incidents |-> <<>>, alerts |-> <<>>, feedback |-> {}, runs |-> <<>>]

(* An incident as a report records it.  The conclusion is the set of the   *)
(* alerts it was drawn from, empty if there is none.                       *)
Recorded(incident) ==
  [id |-> incident.id, src |-> incident.src, first |-> FirstSeen(incident),
   last |-> LastSeen(incident), risk |-> Risk(incident), members |-> AlertIds(incident),
   status |-> "open", conclusion |-> AlertIds(incident)]
RecordedAll(findings) == {Recorded(i) : i \in Range(Incidents(findings))}
Report(status, run, findings) ==
  [status |-> status, run |-> run, alerts |-> Range(findings), incidents |-> RecordedAll(findings)]

(* Incidents from older versions get the conclusion their alerts support.  *)
ConclusionOf(incident, ids) ==
  IF incident.conclusion # {} THEN incident
  ELSE [incident EXCEPT !.conclusion = incident.members \cap ids]
Backfilled(db) ==
  LET Upgraded(row) == [row EXCEPT !.payload = ConclusionOf(row.payload, DOMAIN db.alerts)]
  IN  [db EXCEPT !.incidents = [id \in DOMAIN @ |-> Upgraded(@[id])]]

(* ON CONFLICT: the row keeps its status column, the payload is replaced.  *)
(* Mutant of Upserted: the status column is replaced as well.              *)
ResettingUpserted(rows, incident) == [payload |-> incident, status |-> incident.status]
Upserted(rows, incident) ==
  [payload |-> incident,
   status |-> IF incident.id \in DOMAIN rows THEN rows[incident.id].status ELSE incident.status]
Stored(rows, incidents) ==
  [id \in DOMAIN rows \cup {i.id : i \in incidents} |->
     IF \E i \in incidents : i.id = id
     THEN Upserted(rows, CHOOSE i \in incidents : i.id = id) ELSE rows[id]]
(* An alert is linked to the incident of this import that lists it, or to  *)
(* none: an earlier link does not survive.  The link is the set of it.     *)
OwnerOf(alert, incidents) ==
  LET owners == {i \in incidents : alert.id \in i.members}
  IN  IF owners = {} THEN {} ELSE {(CHOOSE i \in owners : TRUE).id}
Imported(db, incidents, alerts, feedback) ==
  [db EXCEPT
        !.incidents = Stored(@, {ConclusionOf(i, {a.id : a \in alerts}) : i \in incidents}),
        !.alerts = [a \in DOMAIN @ \cup {b.id : b \in alerts} |->
                      IF \E b \in alerts : b.id = a
                      THEN LET new == CHOOSE b \in alerts : b.id = a
                           IN  [payload |-> new, incident |-> OwnerOf(new, incidents)]
                      ELSE @[a]],
        !.feedback = @ \cup feedback]
Saved(db, run, report) == [db EXCEPT !.runs = Put(@, run, report)]
(* project_analysis_run: both in one transaction.                          *)
Projected(db, run, report) == Saved(Imported(db, report.incidents, report.alerts, {}), run, report)

(* A review writes the status twice: in its column and in the payload that *)
(* was read.                                                               *)
Reviewed(db, id, payload, status) ==
  IF id \notin DOMAIN db.incidents THEN db
  ELSE [db EXCEPT !.incidents[id] = [payload |-> [payload EXCEPT !.status = status], status |-> status]]

(* The reading queries.  Members whose row belongs to another incident,    *)
(* and rows the payload no longer lists, are not shown.                    *)
Shown(db, id) == [db.incidents[id].payload EXCEPT !.status = db.incidents[id].status]
Queue(db, status) == {Shown(db, id) : id \in {i \in DOMAIN db.incidents : db.incidents[i].status = status}}
Evidence(db, id) ==
  {a \in DOMAIN db.alerts : db.alerts[a].incident = {id} /\ a \in db.incidents[id].payload.members}
Listed(db) == {r \in DOMAIN db.runs : db.runs[r].status = "completed"}

(* The export of a run: its own identity in the saved report, and every    *)
(* alert under exactly one incident, of the same source.                   *)
ExportValid(report) ==
  /\ report.status = "completed" /\ report.run # None
  /\ \A a, b \in report.alerts : a.id = b.id => a = b
  /\ \A i, j \in report.incidents : i # j => i.id # j.id /\ i.members \cap j.members = {}
  /\ \A i \in report.incidents :
       /\ i.first <= i.last /\ i.risk \in 0..100 /\ i.members # {}
       /\ \A m \in i.members : \E a \in report.alerts : a.id = m /\ a.src = i.src
  /\ {a.id : a \in report.alerts} \subseteq UNION {i.members : i \in report.incidents}
Exportable(db, run) == db.runs[run].run = run /\ ExportValid(db.runs[run])

(* The payload without what reviews may change.                            *)
Unreviewed(payload) == [payload EXCEPT !.status = "open"]
=============================================================================
