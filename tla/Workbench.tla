----------------------------- MODULE Workbench -----------------------------
(***************************************************************************)
(* Everything that shares one analyst store: the requests of the HTTP API  *)
(* (uploads and the instant demonstration, the simulated stream, reviews,  *)
(* downloads), the command line's correlation, the continuous worker with  *)
(* its journal, and the operator's coordinated backup and restore.  A      *)
(* signed store takes SQLite's write lock for a whole review; a plain one  *)
(* reads the row first and writes it later.                                *)
(***************************************************************************)
EXTENDS AnalystStore, AccessControl

CONSTANTS
  Scenes,      (* names of deployments                                     *)
  Settings,    (* of each: [mode, signed, callers, kinds, replays, legacy, *)
               (* feed, backups], and the bounds [jobs, reviews, statuses, *)
               (* dispositions, ticks]                                     *)
  Replays,     (* by name: [live, last], the alerts a session raises while *)
               (* it runs and those completing it adds                     *)
  Legacy,      (* [incidents, alerts, feedback] of saved demonstration     *)
               (* files, written before conclusions were recorded          *)
  LiveRun      (* the worker's run id                                      *)

VARIABLES
  scene, clock,
  db,          (* the tables                                               *)
  lock,        (* who holds SQLite's write lock across steps               *)
  jobs,        (* analyses under way, by the run they will save            *)
  started,     (* how many analyses have started                           *)
  review,      (* a status update between its read and its write           *)
  worker,      (* the continuous worker is open                            *)
  journal,     (* its checkpoint: lines committed, and the last report     *)
  backup,      (* the copies of a backup under way                         *)
  bundle,      (* a completed backup                                       *)
  restored,    (* what a restore has verified and left for cutover         *)
  decided,     (* history: the last status an analyst gave each incident   *)
  projected,   (* history: the last payload imported for each incident     *)
  authors,     (* history: on whose behalf the API wrote                   *)
  sealed,      (* history: what the bundle held when it was completed      *)
  reviews      (* how many reviews and downloads were made                 *)

operator == <<backup, bundle, restored, sealed>>
feeding  == <<worker, journal>>
desk     == <<jobs, started, review, reviews>>
vars == <<scene, clock, db, lock, feeding, operator, desk, decided, projected, authors>>

Setup == Settings[scene]
SettingValid(s) ==
  /\ s.mode \in {"local-demo", "required"} /\ s.signed \in BOOLEAN
  /\ s.mode = "required" => s.signed   (* create_app refuses otherwise *)
  /\ s.statuses \subseteq Statuses /\ s.dispositions \subseteq Dispositions
  /\ s.kinds \subseteq {"upload", "stream", "correlate", "export"} /\ s.replays \subseteq DOMAIN Replays
  /\ s.feed \in DOMAIN Replays \cup {None}
ASSUME ScenesAssumption == \A s \in Scenes : SettingValid(Settings[s])
ASSUME NamesAssumption == None \notin {"review", "backup"}
AlertsOf(replay) == Range(replay.live) \cup Range(replay.last)
AllAlerts == (UNION {AlertsOf(Replays[r]) : r \in DOMAIN Replays}) \cup Legacy.alerts
(* An alert's id is a digest over its source, or over a flood's target,    *)
(* type and times: within one session, where a target's alerts of a type   *)
(* are spaced, it names a source; across sessions it may not.              *)
NamesSources(alerts) == \A x, y \in alerts : x.id = y.id => x.src = y.src
ASSUME AlertsAssumption ==
  /\ \A r \in DOMAIN Replays :
       /\ Replays[r].live \in Seq(AllAlerts) /\ Replays[r].last \in Seq(AllAlerts)
       /\ NamesSources(AlertsOf(Replays[r]))
  /\ \A x \in AllAlerts :
       {"id", "src", "start", "end"} \subseteq DOMAIN x /\ x.start \in Int /\ x.end \in Int
  /\ IsFiniteSet(Legacy.alerts) /\ NamesSources(Legacy.alerts)
(* The saved demonstration was written by an incident store like this one. *)
ASSUME LegacyAssumption ==
  \A i \in Legacy.incidents :
    /\ {"id", "src", "members", "status", "conclusion"} \subseteq DOMAIN i /\ i.src = i.id[1]
    /\ \A j \in Legacy.incidents : i.id = j.id => i = j
    /\ \A m \in i.members : \E x \in Legacy.alerts : x.id = m /\ x.src = i.src

FinalFindings(name) == ResolveFindings(Replays[name].live \o Replays[name].last)
(* The worker's report once it has taken n lines of its feed.              *)
LiveReport(n) ==
  Report("following", LiveRun, ResolveFindings(SubSeq(Replays[Setup.feed].live, 1, n)))
HasFeed == Setup.feed # None

Init ==
  /\ scene \in Scenes /\ clock = 0
  /\ db \in {NoRows} \cup (IF Setup.legacy
                           THEN {[Imported(NoRows, {}, Legacy.alerts, Legacy.feedback) EXCEPT !.incidents =
                                   Stored(<<>>, Legacy.incidents)]}
                           ELSE {})
  /\ lock = None /\ jobs = <<>> /\ started = 0 /\ review = None /\ reviews = 0
  /\ worker = FALSE /\ journal = [lines |-> 0, status |-> "following"]
  /\ backup = None /\ bundle = None /\ restored = None /\ sealed = None
  /\ decided = <<>> /\ projected = [id \in DOMAIN db.incidents |-> db.incidents[id].payload]
  /\ authors = {}

(* Requests.  A caller and the principal it acts as when it was admitted;  *)
(* `by' is the set of at most one such act that work is done for.          *)
Act(caller, method, path) ==
  {[caller |-> caller, as |-> p, at |-> clock, method |-> method, path |-> path] :
   p \in Admitted(Setup.mode, caller, method, path, clock)}
Unlocked == lock = None
Acted(by) == authors' = authors \cup by
Writes(new, by) == Unlocked /\ db' = new /\ Acted(by)
Publishes(report) ==
  projected' = [id \in DOMAIN projected \cup {i.id : i \in report.incidents} |->
                  IF \E i \in report.incidents : i.id = id
                  THEN CHOOSE i \in report.incidents : i.id = id ELSE projected[id]]

-----------------------------------------------------------------------------
(* Analyses.  The run id is a fresh one.                                   *)

Begin(kind, replay, by) ==
  /\ kind \in Setup.kinds /\ replay \in Setup.replays /\ started < Setup.jobs
  /\ started' = started + 1
  /\ jobs' = Put(jobs, started + 1,
       [kind |-> kind, replay |-> replay, by |-> by, seen |-> 0, base |-> {},
        step |-> IF kind = "stream" THEN "reading" ELSE IF kind = "correlate" THEN "restoring" ELSE "importing"])
  /\ UNCHANGED <<scene, clock, db, lock, review, reviews, feeding, operator, decided, projected, authors>>
Waits(j, step) == j \in DOMAIN jobs /\ jobs[j].step = step
Moves(j, step) == jobs' = [jobs EXCEPT ![j].step = step]
Dropped(j) == [k \in DOMAIN jobs \ {j} |-> jobs[k]]

(* POST /api/replays/analyse and /api/demo/run; the analysis itself is     *)
(* over before anything is stored.                                         *)
Upload(caller, replay) ==
  \E act \in Act(caller, "POST", "analyse") : Begin("upload", replay, {act})
(* GET /api/stream/simulated.                                              *)
Stream(caller, replay) ==
  \E act \in Act(caller, "GET", "stream") : Begin("stream", replay, {act})
(* correlate-alerts on the command line, over the alerts stored so far.    *)
Correlate(replay) == Begin("correlate", replay, {})

(* What a job will publish: the command line adds its alerts to incidents  *)
(* of the stored ones; it resolves nothing and saves no run.               *)
WithRestored(job) == InOrder(SetToSeq(job.base)) \o Replays[job.replay].live
JobReport(j) ==
  LET job == jobs[j]
  IN  IF job.kind = "correlate"
      THEN [status |-> "completed", run |-> None, alerts |-> Range(Replays[job.replay].live),
            incidents |-> RecordedAll(WithRestored(job))]
      ELSE Report("completed", IF job.kind = "stream" THEN None ELSE j, FinalFindings(job.replay))

RestoreAlerts(j) ==
  /\ Waits(j, "restoring")
  /\ jobs' = [jobs EXCEPT ![j].base = {db.alerts[x].payload : x \in DOMAIN db.alerts},
                          ![j].step = "importing"]
  /\ UNCHANGED <<scene, clock, db, lock, started, review, reviews, feeding, operator, decided, projected, authors>>

(* A stream's next alert: if it is part of an incident now, the run so far *)
(* is saved as running.                                                    *)
Provisional(j) ==
  Report("running", None, ResolveFindings(SubSeq(Replays[jobs[j].replay].live, 1, jobs[j].seen + 1)))
ProvisionalSave(d, run, report) == Saved(d, run, report)
Observe(j) ==
  LET alert == Replays[jobs[j].replay].live[jobs[j].seen + 1]
  IN  /\ Waits(j, "reading") /\ jobs[j].seen < Len(Replays[jobs[j].replay].live)
      /\ jobs' = [jobs EXCEPT ![j].seen = @ + 1]
      /\ IF \E i \in Provisional(j).incidents : alert.id \in i.members
         THEN Writes(ProvisionalSave(db, j, Provisional(j)), jobs[j].by)
         ELSE UNCHANGED <<db, authors>>
      /\ UNCHANGED <<scene, clock, lock, started, review, reviews, feeding, operator, decided, projected>>
StreamEnds(j) ==
  /\ Waits(j, "reading") /\ jobs[j].seen = Len(Replays[jobs[j].replay].live)
  /\ Moves(j, "importing")
  /\ UNCHANGED <<scene, clock, db, lock, started, review, reviews, feeding, operator, decided, projected, authors>>

(* The findings in one transaction, the completed run in a second.         *)
(* Mutant of Rows: the run first.                                          *)
SwappedRows(j, step) ==
  IF step = "importing" THEN Saved(db, j, JobReport(j))
  ELSE Imported(db, JobReport(j).incidents, JobReport(j).alerts, {})
Rows(j, step) ==
  IF step = "importing" THEN Imported(db, JobReport(j).incidents, JobReport(j).alerts, {})
  ELSE Saved(db, j, JobReport(j))
Import(j) ==
  /\ Waits(j, "importing")
  /\ Writes(Rows(j, "importing"), jobs[j].by)
  /\ Publishes(JobReport(j))
  /\ IF jobs[j].kind = "correlate" THEN jobs' = Dropped(j) ELSE Moves(j, "saving")
  /\ UNCHANGED <<scene, clock, lock, started, review, reviews, feeding, operator, decided>>
Save(j) ==
  /\ Waits(j, "saving")
  /\ Writes(Rows(j, "saving"), jobs[j].by)
  /\ jobs' = Dropped(j)
  /\ UNCHANGED <<scene, clock, lock, started, review, reviews, feeding, operator, decided, projected>>

(* An error, a lock that stays busy for too long, or a client that goes    *)
(* away: the job stops where it is.                                        *)
Stops(j) ==
  /\ j \in DOMAIN jobs /\ jobs' = Dropped(j)
  /\ UNCHANGED <<scene, clock, db, lock, started, review, reviews, feeding, operator, decided, projected, authors>>

(* POST /api/demo/load.                                                    *)
LoadDemo(caller) ==
  \E act \in Act(caller, "POST", "demo") :
    /\ Setup.legacy
    /\ Writes(Imported(db, Legacy.incidents, Legacy.alerts, Legacy.feedback), {act})
    /\ Publishes(Legacy)
    /\ UNCHANGED <<scene, clock, lock, jobs, started, review, reviews, feeding, operator, decided>>

(* The API is restarted: what was under way is gone, and a plain SQLite    *)
(* store gives older incidents their conclusions.                          *)
Restart ==
  /\ jobs' = <<>> /\ review' = None
  /\ lock' = IF lock = "review" THEN None ELSE lock
  /\ db' = IF Setup.signed THEN db ELSE Backfilled(db)
  /\ UNCHANGED <<scene, clock, started, reviews, feeding, operator, decided, projected, authors>>

-----------------------------------------------------------------------------
(* Reviews.                                                                *)

(* Mutant of LocksReview: a signed store reads before it takes the lock.   *)
NeverLocks(signed) == FALSE
LocksReview(signed) == signed
ReadForReview(caller, id, status) ==
  \E act \in Act(caller, "PATCH", "incident") :
    /\ review = None /\ reviews < Setup.reviews
    /\ id \in DOMAIN db.incidents
    /\ LocksReview(Setup.signed) => Unlocked
    /\ lock' = IF LocksReview(Setup.signed) THEN "review" ELSE lock
    /\ review' = [by |-> {act}, id |-> id, status |-> status, payload |-> db.incidents[id].payload]
    /\ reviews' = reviews + 1
    /\ UNCHANGED <<scene, clock, db, jobs, started, feeding, operator, decided, projected, authors>>
WriteReview ==
  /\ review # None /\ lock \in {None, "review"}
  /\ db' = Reviewed(db, review.id, review.payload, review.status)
  /\ lock' = None /\ review' = None
  /\ decided' = Put(decided, review.id, review.status)
  /\ Acted(review.by)
  /\ UNCHANGED <<scene, clock, jobs, started, reviews, feeding, operator, projected>>

(* In protected mode the analyst is the authenticated principal, whatever  *)
(* name the request gives.                                                 *)
Feedback(caller, id, disposition) ==
  \E act \in Act(caller, "POST", "incident") :
    /\ reviews < Setup.reviews /\ id \in DOMAIN db.incidents
    /\ Writes([db EXCEPT !.feedback = @ \cup
                 {[incident |-> id, disposition |-> disposition, at |-> clock,
                   analyst |-> IF Setup.mode = "required" THEN act.as.principal ELSE "typed"]}], {act})
    /\ reviews' = reviews + 1
    /\ UNCHANGED <<scene, clock, lock, jobs, started, review, feeding, operator, decided, projected>>

(* Administrators delete completed runs under the retention policy of the  *)
(* signed store; findings and reviews stay.                                *)
Retire(caller, run) ==
  \E act \in Act(caller, "POST", "security") :
    /\ Setup.mode = "required" /\ run \in Listed(db)
    /\ Writes([db EXCEPT !.runs = [r \in DOMAIN @ \ {run} |-> @[r]]], {act})
    /\ UNCHANGED <<scene, clock, lock, desk, feeding, operator, decided, projected>>

(* GET /api/analysis-runs/{id}/export and /api/incidents/{id}/export.  A   *)
(* signed store records what it hands out in its ledger (AuditedStore's    *)
(* RecordExport), for viewers and foreign pages too; the tables stay.      *)
Downloads(act) ==
  /\ Setup.signed /\ "export" \in Setup.kinds /\ reviews < Setup.reviews
  /\ Writes(db, {act})
  /\ reviews' = reviews + 1
  /\ UNCHANGED <<scene, clock, lock, jobs, started, review, feeding, operator, decided, projected>>
ExportRun(caller, run) ==
  \E act \in Act(caller, "GET", "export") : Exportable(db, run) /\ Downloads(act)
ExportIncident(caller, id) ==
  \E act \in Act(caller, "GET", "export") : id \in DOMAIN db.incidents /\ Downloads(act)

Tick ==
  /\ clock < Setup.ticks /\ clock' = clock + 1
  /\ UNCHANGED <<scene, db, lock, desk, feeding, operator, decided, projected, authors>>

-----------------------------------------------------------------------------
(* The continuous worker: a batch is committed to the journal, then its    *)
(* report is projected; every poll and every start projects the last       *)
(* report again before anything is read.                                   *)

Journalled == journal.lines > 0
CommittedReport == [LiveReport(journal.lines) EXCEPT !.status = journal.status]
Delivered == LiveRun \in DOMAIN db.runs /\ db.runs[LiveRun] = CommittedReport

WorkerOpens ==
  /\ HasFeed /\ ~worker /\ backup = None
  /\ worker' = TRUE
  /\ UNCHANGED <<scene, clock, db, lock, desk, journal, operator, decided, projected, authors>>
WorkerDelivers ==
  /\ worker /\ Journalled
  /\ Writes(Projected(db, LiveRun, CommittedReport), {})
  /\ Publishes(CommittedReport)
  /\ UNCHANGED <<scene, clock, lock, desk, feeding, operator, decided>>
WorkerCommits ==
  /\ worker /\ journal.lines < Len(Replays[Setup.feed].live)
  /\ Journalled => Delivered
  /\ journal' = [lines |-> journal.lines + 1, status |-> "following"]
  /\ UNCHANGED <<scene, clock, db, lock, desk, worker, operator, decided, projected, authors>>
(* It is closed, dies, or fails and marks its last committed report.       *)
WorkerStops ==
  /\ worker /\ worker' = FALSE
  /\ \/ UNCHANGED journal
     \/ Journalled /\ journal' = [journal EXCEPT !.status = "failed"]
  /\ UNCHANGED <<scene, clock, db, lock, desk, operator, decided, projected, authors>>

-----------------------------------------------------------------------------
(* Coordinated recovery.                                                   *)

(* The journal's report is the run in the analyst store, and each of its   *)
(* findings is there as reported, reviews aside.                           *)
Paired(log, tables) ==
  LET report == [LiveReport(log.lines) EXCEPT !.status = log.status]
  IN  /\ log.lines > 0
      /\ LiveRun \in DOMAIN tables.runs /\ tables.runs[LiveRun] = report
      /\ \A a \in report.alerts : a.id \in DOMAIN tables.alerts /\ tables.alerts[a.id].payload = a
      /\ \A i \in report.incidents :
           /\ i.id \in DOMAIN tables.incidents
           /\ Unreviewed(tables.incidents[i.id].payload) = Unreviewed(i)

(* The worker's lifetime lock, the journal and the store are held until    *)
(* the copies are compared and the manifest, written last, names them.     *)
(* Mutant of FreezeForBackup: the store is not among what is held.         *)
FreezeJournalOnly ==
  /\ Setup.backups /\ Setup.signed /\ ~worker /\ Unlocked /\ backup = None /\ bundle = None
  /\ backup' = [journal |-> None, analyst |-> None]
  /\ UNCHANGED <<scene, clock, db, lock, desk, feeding, bundle, restored, sealed, decided, projected, authors>>
FreezeForBackup ==
  /\ Setup.backups /\ Setup.signed /\ ~worker /\ Unlocked /\ backup = None /\ bundle = None
  /\ lock' = "backup"
  /\ backup' = [journal |-> None, analyst |-> None]
  /\ UNCHANGED <<scene, clock, db, desk, feeding, bundle, restored, sealed, decided, projected, authors>>
CopyJournal ==
  /\ backup # None /\ backup.journal = None
  /\ backup' = [backup EXCEPT !.journal = journal]
  /\ UNCHANGED <<scene, clock, db, lock, desk, feeding, bundle, restored, sealed, decided, projected, authors>>
CopyAnalyst ==
  /\ backup # None /\ backup.journal # None /\ backup.analyst = None
  /\ backup' = [backup EXCEPT !.analyst = db]
  /\ UNCHANGED <<scene, clock, db, lock, desk, feeding, bundle, restored, sealed, decided, projected, authors>>
SealBundle ==
  /\ backup # None /\ backup.analyst # None /\ Paired(backup.journal, backup.analyst)
  /\ bundle' = [journal |-> backup.journal, analyst |-> backup.analyst, manifest |-> backup]
  /\ sealed' = backup /\ backup' = None /\ lock' = None
  /\ UNCHANGED <<scene, clock, db, desk, feeding, restored, decided, projected, authors>>
(* A mismatch, or a death at any point: a directory without a manifest.    *)
BackupFails ==
  /\ backup # None /\ backup' = None /\ lock' = None
  /\ UNCHANGED <<scene, clock, db, desk, feeding, bundle, restored, sealed, decided, projected, authors>>

(* Meanwhile the bundle's copy of the store is replaced by a later one.    *)
ReplaceCopy ==
  /\ bundle # None /\ restored = None /\ bundle.analyst # db
  /\ bundle' = [bundle EXCEPT !.analyst = db]
  /\ UNCHANGED <<scene, clock, db, lock, desk, feeding, backup, restored, sealed, decided, projected, authors>>

(* Mutant of Intact: the bytes are not compared with the manifest.         *)
Unread(files, manifest) == TRUE
Intact(files, manifest) == files.journal = manifest.journal /\ files.analyst = manifest.analyst
Restore ==
  /\ bundle # None /\ restored = None
  /\ Intact(bundle, bundle.manifest) /\ Paired(bundle.journal, bundle.analyst)
  /\ restored' = [journal |-> bundle.journal, analyst |-> bundle.analyst]
  /\ UNCHANGED <<scene, clock, db, lock, desk, feeding, backup, bundle, sealed, decided, projected, authors>>
(* The operator stops everything and moves to the restored files.          *)
CutOver ==
  /\ restored # None /\ ~worker /\ backup = None
  /\ db' = restored.analyst /\ journal' = restored.journal
  /\ jobs' = <<>> /\ review' = None /\ lock' = None
  /\ restored' = None /\ bundle' = None /\ sealed' = None
  /\ decided' = [id \in DOMAIN decided \cap DOMAIN restored.analyst.incidents |->
                   restored.analyst.incidents[id].status]
  /\ projected' = [id \in DOMAIN restored.analyst.incidents |-> restored.analyst.incidents[id].payload]
  /\ UNCHANGED <<scene, clock, started, reviews, worker, backup, authors>>

-----------------------------------------------------------------------------
Next ==
  \/ \E c \in Setup.callers :
       \/ \E r \in Setup.replays : Upload(c, r) \/ Stream(c, r)
       \/ LoadDemo(c)
       \/ \E id \in DOMAIN db.incidents :
            \/ \E s \in Setup.statuses : ReadForReview(c, id, s)
            \/ \E d \in Setup.dispositions : Feedback(c, id, d)
            \/ ExportIncident(c, id)
       \/ \E r \in DOMAIN db.runs : Retire(c, r) \/ ExportRun(c, r)
  \/ \E r \in Setup.replays : Correlate(r)
  \/ \E j \in DOMAIN jobs :
       RestoreAlerts(j) \/ Observe(j) \/ StreamEnds(j) \/ Import(j) \/ Save(j) \/ Stops(j)
  \/ WriteReview \/ Restart \/ Tick
  \/ WorkerOpens \/ WorkerDelivers \/ WorkerCommits \/ WorkerStops
  \/ FreezeForBackup \/ CopyJournal \/ CopyAnalyst \/ SealBundle \/ BackupFails
  \/ ReplaceCopy \/ Restore \/ CutOver
Spec == Init /\ [][Next]_vars

-----------------------------------------------------------------------------
(* Properties.                                                             *)

(* What an analyst decided of an incident is what every reader is shown,   *)
(* however often its findings are projected again, by whom, and across     *)
(* restarts (api_store.py: the upsert keeps the column, readers take it).  *)
DecisionsKept ==
  \A id \in DOMAIN decided :
    /\ id \in DOMAIN db.incidents /\ Shown(db, id).status = decided[id]
    /\ Shown(db, id) \in Queue(db, decided[id])

(* In a signed store an incident shows what was projected last, whatever   *)
(* reviews ran meanwhile, and no evidence of another incident              *)
(* (api_store.py: set_status under the immediate lock, get_incident).      *)
Stripped(payload) == [payload EXCEPT !.status = "open", !.conclusion = {}]
QueueCurrent ==
  Setup.signed =>
    \A id \in DOMAIN db.incidents :
      /\ Stripped(db.incidents[id].payload) = Stripped(projected[id])
      /\ \A a \in Evidence(db, id) : db.alerts[a].payload.src = db.incidents[id].payload.src

Final ==
  (UNION {RecordedAll(FinalFindings(r)) : r \in Setup.replays})
  \cup (IF HasFeed THEN UNION {LiveReport(n).incidents : n \in 1..Len(Replays[Setup.feed].live)} ELSE {})
  \cup Legacy.incidents
FinalOnly ==
  "correlate" \notin Setup.kinds =>
    \A id \in DOMAIN db.incidents : Stripped(db.incidents[id].payload) \in {Stripped(i) : i \in Final}
CompletedBacked ==
  \A r \in Listed(db) :
    /\ \A i \in db.runs[r].incidents : i.id \in DOMAIN db.incidents
    /\ \A a \in db.runs[r].alerts : a.id \in DOMAIN db.alerts
(* The queue and the listed runs agree both ways: a run listed as          *)
(* completed has all its findings in the queue, whatever failed between    *)
(* the two transactions, and nothing enters the queue that a stream only   *)
(* supposed before it saw the rest (analysis_service.py, demo.py and       *)
(* streaming_demo.py save the run last; provisional findings are saved     *)
(* with it alone).  The command line's correlation has findings of its own.*)
QueueMatchesRuns == CompletedBacked /\ FinalOnly

(* In protected mode everything the API wrote, it wrote for a caller that  *)
(* came over HTTPS with a credential valid when it was admitted.  Whatever *)
(* is more than the ledger's record of a download was asked for by a role  *)
(* above viewer, and not through a foreign page of the caller's browser;   *)
(* new feedback carries that principal's name (security.py, api.py).       *)
Authorised ==
  Setup.mode = "required" =>
    /\ \A act \in authors :
         /\ act.caller.secure /\ act.as \in Credentials /\ act.at < act.as.expires
         /\ act.path # "export" =>
              /\ act.as.role \in {"analyst", "admin"}
              /\ act.caller.name # "" => act.caller.origin # "foreign"
    /\ \A f \in db.feedback \ Legacy.feedback :
         \E act \in authors : act.as.principal = f.analyst /\ act.as.role # "viewer"

(* When a backup is completed its two copies, made one after the other     *)
(* while requests come in, are both what journal and store hold then, no   *)
(* worker runs, and the store shows the journal's last report              *)
(* (stream_recovery.py: lifetime, journal and store locks are held from    *)
(* before the first copy until the manifest is written).                   *)
Coordinated ==
  [][bundle = None /\ bundle' # None =>
       /\ bundle'.manifest = [journal |-> journal, analyst |-> db]
       /\ ~worker /\ Delivered]_vars

(* What a restore certifies is what the backup held, reviews included,     *)
(* though a copy from another moment took its place in between.            *)
RestoredFaithful == restored # None => restored = sealed

(* Every completed run can be exported under its id (siem_export.py).      *)
CompletedExportable == \A r \in Listed(db) : Exportable(db, r)
=============================================================================
