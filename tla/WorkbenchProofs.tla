-------------------------- MODULE WorkbenchProofs --------------------------
(***************************************************************************)
(* The workbench's promises, for any deployment, findings and reviews: a   *)
(* completed backup holds journal and store as they both are at that       *)
(* moment, and a restore certifies that backup; in protected mode whatever *)
(* the API writes, but the record of a download, is for an authorised      *)
(* principal; decisions are kept; the queue and the completed runs agree;  *)
(* and a signed store's queue shows what was projected last, with evidence *)
(* of its own source.                                                      *)
(***************************************************************************)
EXTENDS Workbench, FindingsProofs

-----------------------------------------------------------------------------
(* Coordinated recovery.                                                   *)

Pair(x) == x = [journal |-> x.journal, analyst |-> x.analyst]

(* While a backup is under way there is no bundle, so none to restore; a   *)
(* bundle's manifest is what was sealed.                                   *)
BackupAlone    == backup # None => bundle = None /\ Pair(backup)
(* Nothing moves under it: each copy is still what it was made of.         *)
BackupFrozen   == backup # None =>
  /\ lock = "backup" /\ ~worker /\ Setup.signed
  /\ backup.journal # None => backup.journal = journal
  /\ backup.analyst # None => backup.journal # None /\ backup.analyst = db
BundleNamed    == bundle # None =>
  /\ bundle = [journal |-> bundle.journal, analyst |-> bundle.analyst, manifest |-> sealed]
  /\ sealed # None
RestoreBacked  == restored # None => bundle # None /\ restored = sealed
SealedPair     == sealed # None => Pair(sealed)
RecoveryInv == BackupAlone /\ BackupFrozen /\ BundleNamed /\ RestoreBacked /\ SealedPair

LEMMA RecoveryInit == Init => RecoveryInv
  BY DEF Init, RecoveryInv, BackupAlone, BackupFrozen, BundleNamed, RestoreBacked, SealedPair

(* Most steps leave the operator's files alone, and what is being copied.  *)
LEMMA Unattended ==
  ASSUME RecoveryInv, scene' = scene, UNCHANGED operator,
         backup # None => UNCHANGED <<db, lock, worker, journal>>
  PROVE  RecoveryInv'
  BY DEF RecoveryInv, BackupAlone, BackupFrozen, BundleNamed, RestoreBacked, SealedPair, operator,
         Pair, Setup

(* A download is recorded for its caller and changes no table.             *)
LEMMA DownloadKeeps ==
  ASSUME NEW caller, NEW x, ExportRun(caller, x) \/ ExportIncident(caller, x)
  PROVE  /\ UNCHANGED <<scene, db, lock, jobs, review, worker, journal, backup, bundle, restored, sealed,
                         feeding, operator, decided, projected>>
         /\ \E act \in Act(caller, "GET", "export") : Acted({act})
  BY DEF ExportRun, ExportIncident, Downloads, Writes, feeding, operator

LEMMA RecoveryStep == RecoveryInv /\ [Next]_vars => RecoveryInv'
  <1> SUFFICES ASSUME RecoveryInv, [Next]_vars PROVE RecoveryInv'
    OBVIOUS
  (* Whoever writes needs the lock that a backup holds.                    *)
  <1>0. backup # None => lock = "backup" /\ ~ Unlocked /\ ~worker /\ Setup.signed
    BY NamesAssumption DEF RecoveryInv, BackupFrozen, Unlocked
  <1> USE DEF operator, feeding, desk
  <1>1. CASE \E c \in Setup.callers :
          \/ \E r \in Setup.replays : Upload(c, r) \/ Stream(c, r)
          \/ LoadDemo(c)
          \/ \E id \in DOMAIN db.incidents :
               \/ \E s \in Setup.statuses : ReadForReview(c, id, s)
               \/ \E d \in Setup.dispositions : Feedback(c, id, d)
               \/ ExportIncident(c, id)
          \/ \E r \in DOMAIN db.runs : Retire(c, r) \/ ExportRun(c, r)
    <2>1. ASSUME NEW c, NEW r, Upload(c, r) \/ Stream(c, r) PROVE RecoveryInv'
      BY <2>1, Unattended DEF Upload, Stream, Begin
    <2>2. ASSUME NEW c, LoadDemo(c) PROVE RecoveryInv'
      BY <2>2, <1>0, Unattended DEF LoadDemo, Writes
    <2>3. ASSUME NEW c, NEW id, NEW s, ReadForReview(c, id, s) PROVE RecoveryInv'
      BY <2>3, <1>0, Unattended DEF ReadForReview, LocksReview
    <2>4. ASSUME NEW c, NEW id, NEW d, Feedback(c, id, d) PROVE RecoveryInv'
      BY <2>4, <1>0, Unattended DEF Feedback, Writes
    <2>5. ASSUME NEW c, NEW r, Retire(c, r) PROVE RecoveryInv'
      BY <2>5, <1>0, Unattended DEF Retire, Writes
    <2>6. ASSUME NEW c, NEW x, ExportIncident(c, x) \/ ExportRun(c, x) PROVE RecoveryInv'
      BY <2>6, DownloadKeeps, Unattended
    <2> QED BY <1>1, <2>1, <2>2, <2>3, <2>4, <2>5, <2>6
  <1>2. CASE \E r \in Setup.replays : Correlate(r)
    BY <1>2, Unattended DEF Correlate, Begin
  <1>3. CASE \E j \in DOMAIN jobs :
          RestoreAlerts(j) \/ Observe(j) \/ StreamEnds(j) \/ Import(j) \/ Save(j) \/ Stops(j)
    BY <1>3, <1>0, Unattended DEF RestoreAlerts, Observe, StreamEnds, Import, Save, Stops, Writes
  <1>4. CASE WriteReview \/ Restart \/ Tick
    BY <1>4, <1>0, NamesAssumption, Unattended DEF WriteReview, Restart, Tick
  <1>5. CASE WorkerOpens \/ WorkerDelivers \/ WorkerCommits \/ WorkerStops
    BY <1>5, <1>0, Unattended DEF WorkerOpens, WorkerDelivers, WorkerCommits, WorkerStops, Writes
  <1>6. CASE UNCHANGED vars
    BY <1>6, Unattended DEF vars
  <1> USE DEF RecoveryInv
  (* The rest change the operator's files.                                 *)
  <1>7. CASE FreezeForBackup
    BY <1>7 DEF FreezeForBackup, BackupAlone, BackupFrozen, BundleNamed, RestoreBacked, SealedPair,
                Pair, Setup
  <1>8. CASE CopyJournal
    BY <1>8 DEF CopyJournal, BackupAlone, BackupFrozen, BundleNamed, RestoreBacked, SealedPair,
                Pair, Setup
  <1>9. CASE CopyAnalyst
    BY <1>9 DEF CopyAnalyst, BackupAlone, BackupFrozen, BundleNamed, RestoreBacked, SealedPair,
                Pair, Setup
  <1>10. CASE SealBundle
    BY <1>10 DEF SealBundle, BackupAlone, BackupFrozen, BundleNamed, RestoreBacked, SealedPair,
                 Pair, Setup
  <1>11. CASE BackupFails
    BY <1>11 DEF BackupFails, BackupAlone, BackupFrozen, BundleNamed, RestoreBacked, SealedPair,
                 Pair, Setup
  <1>12. CASE ReplaceCopy
    BY <1>12 DEF ReplaceCopy, BackupAlone, BackupFrozen, BundleNamed, RestoreBacked, SealedPair,
                 Pair, Setup
  (* The copies equal the manifest's, so what was sealed.                  *)
  <1>13. CASE Restore
    <2>1. sealed = [journal |-> bundle.journal, analyst |-> bundle.analyst]
      BY <1>13 DEF Restore, Intact, BundleNamed, SealedPair, Pair
    <2> QED
      BY <1>13, <2>1 DEF Restore, BackupAlone, BackupFrozen, BundleNamed, RestoreBacked, SealedPair,
                         Pair, Setup
  <1>14. CASE CutOver
    BY <1>14 DEF CutOver, BackupAlone, BackupFrozen, BundleNamed, RestoreBacked, SealedPair,
                 Pair, Setup
  <1> QED BY <1>1, <1>2, <1>3, <1>4, <1>5, <1>6, <1>7, <1>8, <1>9, <1>10, <1>11, <1>12, <1>13, <1>14
          DEF Next

LEMMA RecoveryHolds == Spec => []RecoveryInv
  BY RecoveryInit, RecoveryStep, PTL DEF Spec

(* What a restore certifies is what the backup held (stream_recovery.py).  *)
THEOREM RestoreIsFaithful == Spec => []RestoredFaithful
  <1>1. RecoveryInv => RestoredFaithful
    BY DEF RecoveryInv, RestoreBacked, RestoredFaithful
  <1> QED BY <1>1, RecoveryHolds, PTL

(* A completed backup holds what journal and store both hold when its      *)
(* manifest is written, with no worker running and the journal's last      *)
(* report in the store: between the first copy and the manifest the locks  *)
(* kept every request, review and worker away (stream_recovery.py).        *)
THEOREM BackupsCoordinated == Spec => Coordinated
  <1> DEFINE Completes == bundle = None /\ bundle' # None
             Together  == bundle'.manifest = [journal |-> journal, analyst |-> db] /\ ~worker /\ Delivered
  <1>1. ASSUME RecoveryInv, [Next]_vars, Completes PROVE Together
    (* Of all steps only the last of a backup makes a bundle.              *)
    <2>1. SealBundle
      <3>1. bundle' = bundle \/ bundle' = None \/ bundle # None \/ SealBundle
        BY <1>1, DownloadKeeps DEF Next, vars, operator, Upload, Stream, Begin, LoadDemo, ReadForReview,
           Feedback, Retire, Correlate, RestoreAlerts, Observe, StreamEnds, Import, Save, Stops,
           WriteReview, Restart, Tick, WorkerOpens, WorkerDelivers, WorkerCommits, WorkerStops,
           FreezeForBackup, CopyJournal, CopyAnalyst, BackupFails, ReplaceCopy, Restore, CutOver
      <3> QED BY <1>1, <3>1
    <2>2. /\ backup # None /\ backup.analyst # None /\ Paired(backup.journal, backup.analyst)
          /\ bundle'.manifest = backup
      BY <2>1 DEF SealBundle
    <2>3. backup = [journal |-> backup.journal, analyst |-> backup.analyst]
      BY <1>1, <2>2 DEF RecoveryInv, BackupAlone, Pair
    <2>4. ~worker /\ backup.analyst = db /\ (backup.journal # None => backup.journal = journal)
          /\ backup.journal # None
      BY <1>1, <2>2 DEF RecoveryInv, BackupFrozen
    <2>5. Delivered
      BY <2>2, <2>4 DEF Paired, Delivered, CommittedReport
    <2> QED BY <2>2, <2>3, <2>4, <2>5
  <1>2. RecoveryInv /\ [Next]_vars => [Completes => Together]_vars
    BY <1>1
  <1> QED BY <1>2, RecoveryHolds, PTL DEF Spec, Coordinated

-----------------------------------------------------------------------------
(* Protected mode.                                                         *)

Covered(act) ==
  /\ act.caller.secure /\ act.as \in Credentials /\ act.at < act.as.expires
  /\ act.path # "export" =>
       /\ act.as.role \in {"analyst", "admin"}
       /\ act.caller.name # "" => act.caller.origin # "foreign"
Tables == {"incidents", "alerts", "feedback", "runs"}
(* New feedback in these tables is that of an author.                      *)
Attributed(tables, who) ==
  /\ DOMAIN tables = Tables
  /\ \A f \in tables.feedback \ Legacy.feedback :
       \E act \in who : act.as.principal = f.analyst /\ act.as.role # "viewer"

(* Whoever has written, or has work or a review under way, was covered     *)
(* when it was admitted; copies of the store are as attributed as it is.   *)
AuthorsCovered == \A act \in authors : Covered(act)
JobsCovered ==
  \A j \in DOMAIN jobs : "by" \in DOMAIN jobs[j] /\ \A act \in jobs[j].by : Covered(act)
ReviewCovered == review # None => \A act \in review.by : Covered(act)
CopiesAttributed ==
  /\ backup # None /\ backup.analyst # None => Attributed(backup.analyst, authors)
  /\ bundle # None => Attributed(bundle.analyst, authors)
  /\ restored # None => Attributed(restored.analyst, authors)
Upheld ==
  AuthorsCovered /\ JobsCovered /\ ReviewCovered /\ Attributed(db, authors) /\ CopiesAttributed
AuthInv == Setup.mode = "required" => Upheld

(* Whoever is admitted for a write, or for a download, is covered for it.  *)
LEMMA ActCovered ==
  ASSUME Setup.mode = "required", NEW caller, NEW method, NEW path,
         path # "export" => Mutates(method, path), NEW by \in Act(caller, method, path)
  PROVE  Covered(by) /\ by.path = path
  <1>1. PICK p \in Admitted("required", caller, method, path, clock) :
          by = [caller |-> caller, as |-> p, at |-> clock, method |-> method, path |-> path]
    BY DEF Act
  <1>2. /\ p \in Credentials /\ clock < p.expires /\ caller.secure
        /\ RoleCovers(p.role, method, path) /\ OriginTrusted(caller, method, path)
    BY <1>1 DEF Admitted, Known
  <1>3. path # "export" => p.role \in {"analyst", "admin"}
    BY <1>2, CredentialsAssumption DEF RoleCovers, CredentialsValid, Roles
  <1>4. path # "export" /\ caller.name # "" => caller.origin # "foreign"
    BY <1>2, OriginsAssumption DEF OriginTrusted
  <1> QED BY <1>1, <1>2, <1>3, <1>4 DEF Covered

LEMMA Attribution ==
  ASSUME NEW tables, NEW who, Attributed(tables, who), NEW new, DOMAIN new = Tables,
         new.feedback \subseteq tables.feedback \cup Legacy.feedback, NEW more, who \subseteq more
  PROVE  Attributed(new, more)
  BY DEF Attributed

(* No statement but the one of a review's feedback adds feedback.          *)
LEMMA ImportedFeedback ==
  ASSUME NEW d, DOMAIN d = Tables, NEW i, NEW a, NEW f
  PROVE  DOMAIN Imported(d, i, a, f) = Tables /\ Imported(d, i, a, f).feedback = d.feedback \cup f
  BY DEF Imported, Tables
LEMMA LoadedFeedback ==
  ASSUME DOMAIN db = Tables, db' = Imported(db, Legacy.incidents, Legacy.alerts, Legacy.feedback)
  PROVE  DOMAIN db' = Tables /\ db'.feedback = db.feedback \cup Legacy.feedback
  <1> DEFINE i == Legacy.incidents
             a == Legacy.alerts
             f == Legacy.feedback
  <1>1. db' = Imported(db, i, a, f)
    OBVIOUS
  <1> HIDE DEF i, a, f
  <1>2. DOMAIN Imported(db, i, a, f) = Tables /\ Imported(db, i, a, f).feedback = db.feedback \cup f
    BY ImportedFeedback
  <1>3. DOMAIN db' = Tables /\ db'.feedback = db.feedback \cup f
    BY <1>1, <1>2
  <1> QED BY <1>3 DEF f
LEMMA SavedFeedback ==
  ASSUME NEW d, DOMAIN d = Tables, NEW run, NEW report
  PROVE  DOMAIN Saved(d, run, report) = Tables /\ Saved(d, run, report).feedback = d.feedback
  BY DEF Saved, Tables
LEMMA ProjectedFeedback ==
  ASSUME NEW d, DOMAIN d = Tables, NEW run, NEW report
  PROVE  DOMAIN Projected(d, run, report) = Tables /\ Projected(d, run, report).feedback = d.feedback
  <1> DEFINE e == Imported(d, report.incidents, report.alerts, {})
  <1>1. DOMAIN e = Tables /\ e.feedback = d.feedback
    <2> DEFINE incidents == report.incidents
               alerts    == report.alerts
    <2> HIDE DEF incidents, alerts
    <2>1. \A f : DOMAIN Imported(d, incidents, alerts, f) = Tables
               /\ Imported(d, incidents, alerts, f).feedback = d.feedback \cup f
      BY ImportedFeedback
    <2>2. e = Imported(d, incidents, alerts, {})
      BY DEF incidents, alerts
    <2>3. DOMAIN e = Tables /\ e.feedback = d.feedback \cup {}
      BY <2>1, <2>2
    <2> QED BY <2>3
  <1> HIDE DEF e
  <1>2. Projected(d, run, report) = Saved(e, run, report)
    BY DEF Projected, e
  <1> QED BY <1>1, <1>2, SavedFeedback
LEMMA ReviewedFeedback ==
  ASSUME NEW d, DOMAIN d = Tables, NEW id, NEW payload, NEW status
  PROVE  DOMAIN Reviewed(d, id, payload, status) = Tables /\ Reviewed(d, id, payload, status).feedback = d.feedback
  BY DEF Reviewed, Tables
LEMMA BackfilledFeedback ==
  ASSUME NEW d, DOMAIN d = Tables
  PROVE  DOMAIN Backfilled(d) = Tables /\ Backfilled(d).feedback = d.feedback
  BY DEF Backfilled, Tables

LEMMA AuthInit == Init => AuthInv
  <1> SUFFICES ASSUME Init PROVE Upheld
    BY DEF AuthInv
  <1>1. DOMAIN NoRows = Tables /\ NoRows.feedback = {}
    BY DEF NoRows, Tables
  <1>2. DOMAIN db = Tables /\ db.feedback \subseteq Legacy.feedback
    <2>1. CASE db = NoRows
      BY <2>1, <1>1
    <2>2. CASE db # NoRows
      <3> DEFINE file == Imported(NoRows, {}, Legacy.alerts, Legacy.feedback)
      <3>1. DOMAIN file = Tables /\ file.feedback = {} \cup Legacy.feedback
        <4>1. \A i, a, f : DOMAIN Imported(NoRows, i, a, f) = Tables
                         /\ Imported(NoRows, i, a, f).feedback = NoRows.feedback \cup f
          BY <1>1, ImportedFeedback, Zenon
        <4>2. DOMAIN file = Tables /\ file.feedback = NoRows.feedback \cup Legacy.feedback
          BY <4>1, ZenonT(60)
        <4> QED BY <1>1, <4>2
      <3> DEFINE rows == Stored(<<>>, Legacy.incidents)
      <3> DEFINE loaded == [file EXCEPT !.incidents = rows]
      <3>2. db \in {NoRows} \cup (IF Setup.legacy THEN {loaded} ELSE {})
        BY DEF Init
      <3> HIDE DEF file, rows
      <3>3. DOMAIN loaded = Tables /\ loaded.feedback = file.feedback
        BY <3>1 DEF Tables
      <3> HIDE DEF loaded
      <3> QED BY <2>2, <3>1, <3>2, <3>3
    <2> QED BY <2>1, <2>2
  <1>3. Attributed(db, authors)
    BY <1>2 DEF Attributed
  <1> QED BY <1>3 DEF Init, Upheld, AuthorsCovered, JobsCovered, ReviewCovered, CopiesAttributed

(* More authors leave the copies attributed.                               *)
LEMMA CopiesStay ==
  ASSUME CopiesAttributed, UNCHANGED operator, authors \subseteq authors'
  PROVE  CopiesAttributed'
  BY DEF CopiesAttributed, operator, Attributed

(* A write on behalf of a covered author, of tables that gain no feedback  *)
(* but the files' or the author's own.                                     *)
LEMMA CoveredWrite ==
  ASSUME AuthorsCovered, CopiesAttributed, Attributed(db, authors), UNCHANGED operator,
         NEW by, \A act \in by : Covered(act), Acted(by),
         DOMAIN db' = Tables, db'.feedback \subseteq db.feedback \cup Legacy.feedback
  PROVE  AuthorsCovered' /\ CopiesAttributed' /\ Attributed(db, authors)'
  <1>1. authors' = authors \cup by
    BY DEF Acted
  <1>2. AuthorsCovered'
    BY <1>1 DEF AuthorsCovered
  <1> QED BY <1>1, <1>2, CopiesStay, Attribution

(* Taking up and dropping work.                                            *)
LEMMA JobsBegin ==
  ASSUME JobsCovered, NEW kind, NEW replay, NEW by, \A act \in by : Covered(act), Begin(kind, replay, by)
  PROVE  JobsCovered'
  <1> DEFINE job == [kind |-> kind, replay |-> replay, by |-> by, seen |-> 0, base |-> {},
                     step |-> IF kind = "stream" THEN "reading"
                              ELSE IF kind = "correlate" THEN "restoring" ELSE "importing"]
  <1>1. jobs' = [k \in DOMAIN jobs \cup {started + 1} |-> IF k = started + 1 THEN job ELSE jobs[k]]
    BY DEF Begin, Put
  <1>2. "by" \in DOMAIN job /\ job.by = by
    OBVIOUS
  <1> HIDE DEF job
  <1>3. \A j \in DOMAIN jobs' : jobs'[j] = job \/ (j \in DOMAIN jobs /\ jobs'[j] = jobs[j])
    BY <1>1
  <1> QED BY <1>2, <1>3 DEF JobsCovered
LEMMA JobsMove ==
  ASSUME JobsCovered, NEW j, NEW step, Moves(j, step)
  PROVE  JobsCovered'
  BY DEF JobsCovered, Moves
LEMMA JobsDrop ==
  ASSUME JobsCovered, NEW j, jobs' = Dropped(j)
  PROVE  JobsCovered'
  BY DEF JobsCovered, Dropped

(* What a job imports and saves has no feedback.                           *)
LEMMA RowsFeedback ==
  ASSUME DOMAIN db = Tables, NEW j, NEW step
  PROVE  DOMAIN Rows(j, step) = Tables /\ Rows(j, step).feedback = db.feedback
  <1> DEFINE report == JobReport(j)
             importing == Imported(db, report.incidents, report.alerts, {})
  <1>1. DOMAIN importing = Tables /\ importing.feedback = db.feedback \cup {}
    <2>1. \A i, a, f : DOMAIN Imported(db, i, a, f) = Tables
                     /\ Imported(db, i, a, f).feedback = db.feedback \cup f
      BY ImportedFeedback, Zenon
    <2> QED BY <2>1, Zenon
  <1>2. DOMAIN Saved(db, j, report) = Tables /\ Saved(db, j, report).feedback = db.feedback
    <2>1. \A run, r : DOMAIN Saved(db, run, r) = Tables /\ Saved(db, run, r).feedback = db.feedback
      BY SavedFeedback, Zenon
    <2> QED BY <2>1, Zenon
  <1>3. Rows(j, step) = IF step = "importing" THEN importing ELSE Saved(db, j, report)
    BY Zenon DEF Rows
  <1> HIDE DEF importing, report
  <1> QED BY <1>1, <1>2, <1>3

LEMMA SceneFixed == [Next]_vars => scene' = scene
  <1> SUFFICES ASSUME [Next]_vars PROVE scene' = scene
    OBVIOUS
  <1>1. CASE \E c \in Setup.callers :
          \/ \E r \in Setup.replays : Upload(c, r) \/ Stream(c, r)
          \/ LoadDemo(c)
          \/ \E id \in DOMAIN db.incidents :
               \/ \E s \in Setup.statuses : ReadForReview(c, id, s)
               \/ \E d \in Setup.dispositions : Feedback(c, id, d)
               \/ ExportIncident(c, id)
          \/ \E r \in DOMAIN db.runs : Retire(c, r) \/ ExportRun(c, r)
    BY <1>1, DownloadKeeps DEF Upload, Stream, Begin, LoadDemo, ReadForReview, Feedback, Retire
  <1>2. CASE (\E r \in Setup.replays : Correlate(r)) \/ WriteReview \/ Restart \/ Tick
    BY <1>2 DEF Correlate, Begin, WriteReview, Restart, Tick
  <1>3. CASE \E j \in DOMAIN jobs :
          RestoreAlerts(j) \/ Observe(j) \/ StreamEnds(j) \/ Import(j) \/ Save(j) \/ Stops(j)
    BY <1>3 DEF RestoreAlerts, Observe, StreamEnds, Import, Save, Stops
  <1>4. CASE WorkerOpens \/ WorkerDelivers \/ WorkerCommits \/ WorkerStops
    BY <1>4 DEF WorkerOpens, WorkerDelivers, WorkerCommits, WorkerStops
  <1>5. CASE FreezeForBackup \/ CopyJournal \/ CopyAnalyst \/ SealBundle \/ BackupFails
    BY <1>5 DEF FreezeForBackup, CopyJournal, CopyAnalyst, SealBundle, BackupFails
  <1>6. CASE ReplaceCopy \/ Restore \/ CutOver
    BY <1>6 DEF ReplaceCopy, Restore, CutOver
  <1> QED BY <1>1, <1>2, <1>3, <1>4, <1>5, <1>6 DEF Next, vars

LEMMA AuthStep == RecoveryInv /\ AuthInv /\ [Next]_vars => AuthInv'
  <1> SUFFICES ASSUME RecoveryInv, [Next]_vars, Setup.mode = "required",
                      AuthorsCovered, JobsCovered, ReviewCovered, Attributed(db, authors), CopiesAttributed
               PROVE  Upheld'
    BY SceneFixed DEF AuthInv, Upheld, Setup
  <1> USE DEF Upheld
  <1>0. DOMAIN db = Tables
    BY DEF Attributed
  (* What is unchanged stays as it was.                                    *)
  <1>a. ASSUME UNCHANGED authors PROVE AuthorsCovered'
    BY <1>a DEF AuthorsCovered
  <1>b. ASSUME UNCHANGED jobs PROVE JobsCovered'
    BY <1>b DEF JobsCovered
  <1>c. ASSUME UNCHANGED review PROVE ReviewCovered'
    BY <1>c DEF ReviewCovered
  <1>d. ASSUME UNCHANGED <<db, authors>> PROVE Attributed(db, authors)'
    BY <1>d
  <1>e. ASSUME UNCHANGED authors, UNCHANGED operator PROVE CopiesAttributed'
    BY <1>e, CopiesStay
  (* Requests.                                                             *)
  <1>1. ASSUME NEW c, NEW r, Upload(c, r) \/ Stream(c, r) PROVE Upheld'
    <2>1. PICK kind, act : Covered(act) /\ Begin(kind, r, {act})
      BY <1>1, ActCovered DEF Upload, Stream, Mutates
    <2>2. JobsCovered'
      BY <2>1, JobsBegin
    <2> QED BY <2>1, <2>2, <1>a, <1>c, <1>d, <1>e DEF Begin
  <1>2. ASSUME NEW r, Correlate(r) PROVE Upheld'
    <2>1. JobsCovered'
      BY <1>2, JobsBegin DEF Correlate
    <2> QED BY <1>2, <2>1, <1>a, <1>c, <1>d, <1>e DEF Correlate, Begin
  <1>3. ASSUME NEW c, LoadDemo(c) PROVE Upheld'
    <2>1. PICK act \in Act(c, "POST", "demo") :
            /\ db' = Imported(db, Legacy.incidents, Legacy.alerts, Legacy.feedback) /\ Acted({act})
            /\ UNCHANGED <<jobs, review, operator>>
      BY <1>3 DEF LoadDemo, Writes
    <2>2. Covered(act)
      BY ActCovered DEF Mutates
    <2>3. DOMAIN db' = Tables /\ db'.feedback = db.feedback \cup Legacy.feedback
      BY <1>0, <2>1, LoadedFeedback
    <2>4. AuthorsCovered' /\ CopiesAttributed' /\ Attributed(db, authors)'
      BY <2>1, <2>2, <2>3, CoveredWrite
    <2> QED BY <2>1, <2>4, <1>b, <1>c
  <1>4. ASSUME NEW c, NEW id, NEW s, ReadForReview(c, id, s) PROVE Upheld'
    <2>1. PICK act \in Act(c, "PATCH", "incident") :
            review' = [by |-> {act}, id |-> id, status |-> s, payload |-> db.incidents[id].payload]
      BY <1>4 DEF ReadForReview
    <2>2. ReviewCovered'
      BY <2>1, ActCovered DEF Mutates, ReviewCovered
    <2> QED BY <1>4, <2>2, <1>a, <1>b, <1>d, <1>e DEF ReadForReview
  (* The analyst named is the one who was admitted.                        *)
  <1>5. ASSUME NEW c, NEW id, NEW d, Feedback(c, id, d) PROVE Upheld'
    <2>1. PICK act \in Act(c, "POST", "incident") :
            /\ db' = [db EXCEPT !.feedback = @ \cup
                        {[incident |-> id, disposition |-> d, at |-> clock, analyst |-> act.as.principal]}]
            /\ Acted({act}) /\ UNCHANGED <<jobs, review, operator>>
      BY <1>5 DEF Feedback, Writes
    <2>2. Covered(act) /\ act.path = "incident"
      BY ActCovered DEF Mutates
    <2>3. authors' = authors \cup {act}
      BY <2>1 DEF Acted
    <2>4. AuthorsCovered' /\ CopiesAttributed'
      BY <2>1, <2>2, <2>3, CopiesStay DEF AuthorsCovered
    <2> DEFINE new == [incident |-> id, disposition |-> d, at |-> clock, analyst |-> act.as.principal]
    <2>5. DOMAIN db' = Tables /\ db'.feedback = db.feedback \cup {new}
      BY <1>0, <2>1 DEF Tables
    <2>6. act.as.principal = new.analyst /\ act.as.role # "viewer"
      BY <2>2 DEF Covered
    <2> HIDE DEF new
    <2>7. Attributed(db, authors)'
      BY <2>3, <2>5, <2>6 DEF Attributed
    <2> QED BY <2>1, <2>4, <2>7, <1>b, <1>c
  <1>6. ASSUME NEW c, NEW r, Retire(c, r) PROVE Upheld'
    <2>1. PICK act \in Act(c, "POST", "security") :
            /\ db' = [db EXCEPT !.runs = [x \in DOMAIN @ \ {r} |-> @[x]]]
            /\ Acted({act}) /\ UNCHANGED <<jobs, review, operator>>
      BY <1>6 DEF Retire, Writes, desk
    <2>2. Covered(act)
      BY ActCovered DEF Mutates
    <2>3. DOMAIN db' = Tables /\ db'.feedback = db.feedback
      BY <1>0, <2>1 DEF Tables
    <2>4. AuthorsCovered' /\ CopiesAttributed' /\ Attributed(db, authors)'
      BY <2>1, <2>2, <2>3, CoveredWrite
    <2> QED BY <2>1, <2>4, <1>b, <1>c
  (* A download changes no table.                                          *)
  <1>x. ASSUME NEW c, NEW x, ExportRun(c, x) \/ ExportIncident(c, x) PROVE Upheld'
    <2>1. /\ UNCHANGED <<db, jobs, review, operator>>
          /\ \E act \in Act(c, "GET", "export") : Acted({act})
      BY <1>x, DownloadKeeps
    <2>2. PICK act \in Act(c, "GET", "export") : Acted({act})
      BY <2>1
    <2>3. Covered(act)
      BY ActCovered
    <2>4. AuthorsCovered' /\ CopiesAttributed' /\ Attributed(db, authors)'
      BY <1>0, <2>1, <2>2, <2>3, CoveredWrite
    <2> QED BY <2>1, <2>4, <1>b, <1>c
  (* Work under way.                                                       *)
  <1>7. ASSUME NEW j \in DOMAIN jobs, RestoreAlerts(j) \/ StreamEnds(j) \/ Stops(j) PROVE Upheld'
    <2>1. JobsCovered'
      BY <1>7, JobsMove, JobsDrop DEF RestoreAlerts, StreamEnds, Stops, JobsCovered
    <2> QED BY <1>7, <2>1, <1>a, <1>c, <1>d, <1>e DEF RestoreAlerts, StreamEnds, Stops
  <1>8. ASSUME NEW j \in DOMAIN jobs, Observe(j) PROVE Upheld'
    <2>1. JobsCovered'
      BY <1>8 DEF Observe, JobsCovered
    <2>2. \/ Writes(ProvisionalSave(db, j, Provisional(j)), jobs[j].by)
          \/ UNCHANGED <<db, authors>>
      BY <1>8 DEF Observe
    <2>3. UNCHANGED <<review, operator>>
      BY <1>8 DEF Observe
    <2>4. CASE UNCHANGED <<db, authors>>
      BY <2>1, <2>3, <2>4, <1>a, <1>c, <1>d, <1>e
    <2>5. CASE Writes(ProvisionalSave(db, j, Provisional(j)), jobs[j].by)
      <3>1. \A run, r : DOMAIN Saved(db, run, r) = Tables /\ Saved(db, run, r).feedback = db.feedback
        BY <1>0, SavedFeedback, Zenon
      <3>2. DOMAIN db' = Tables /\ db'.feedback = db.feedback
        BY <2>5, <3>1, Zenon DEF Writes, ProvisionalSave
      <3>3. Acted(jobs[j].by) /\ \A act \in jobs[j].by : Covered(act)
        BY <2>5 DEF Writes, JobsCovered
      <3>4. AuthorsCovered' /\ CopiesAttributed' /\ Attributed(db, authors)'
        BY <2>3, <3>2, <3>3, CoveredWrite
      <3> QED BY <2>1, <2>3, <3>4, <1>c
    <2> QED BY <2>2, <2>4, <2>5
  <1>9. ASSUME NEW j \in DOMAIN jobs, Import(j) \/ Save(j) PROVE Upheld'
    <2>1. JobsCovered'
      BY <1>9, JobsMove, JobsDrop DEF Import, Save
    <2>2. PICK step : Writes(Rows(j, step), jobs[j].by)
      BY <1>9 DEF Import, Save
    <2>3. UNCHANGED <<review, operator>>
      BY <1>9 DEF Import, Save
    <2>4. DOMAIN db' = Tables /\ db'.feedback = db.feedback
      BY <1>0, <2>2, RowsFeedback DEF Writes
    <2>5. Acted(jobs[j].by) /\ \A act \in jobs[j].by : Covered(act)
      BY <2>2 DEF Writes, JobsCovered
    <2>6. AuthorsCovered' /\ CopiesAttributed' /\ Attributed(db, authors)'
      BY <2>3, <2>4, <2>5, CoveredWrite
    <2> QED BY <2>1, <2>3, <2>6, <1>c
  <1>10. CASE WriteReview
    <2>1. /\ db' = Reviewed(db, review.id, review.payload, review.status)
          /\ review # None /\ review' = None /\ Acted(review.by) /\ UNCHANGED <<jobs, operator>>
      BY <1>10 DEF WriteReview
    <2>2. DOMAIN db' = Tables /\ db'.feedback = db.feedback
      <3>1. \A id, p, s : DOMAIN Reviewed(db, id, p, s) = Tables /\ Reviewed(db, id, p, s).feedback = db.feedback
        BY <1>0, ReviewedFeedback, Zenon
      <3> QED BY <2>1, <3>1, Zenon
    <2>3. AuthorsCovered' /\ CopiesAttributed' /\ Attributed(db, authors)'
      BY <2>1, <2>2, CoveredWrite DEF ReviewCovered
    <2> QED BY <2>1, <2>3, <1>b DEF ReviewCovered
  <1>11. CASE Restart
    <2>1. jobs' = <<>> /\ review' = None /\ UNCHANGED <<authors, operator>>
          /\ db' = IF Setup.signed THEN db ELSE Backfilled(db)
      BY <1>11 DEF Restart
    <2>2. DOMAIN db' = Tables /\ db'.feedback = db.feedback
      BY <1>0, <2>1, BackfilledFeedback
    <2>3. Attributed(db, authors)'
      BY <2>1, <2>2, Attribution
    <2>4. JobsCovered' /\ ReviewCovered'
      BY <2>1 DEF JobsCovered, ReviewCovered
    <2> QED BY <2>1, <2>3, <2>4, <1>a, <1>e
  (* The worker acts for nobody.                                           *)
  <1>12. CASE Tick \/ WorkerOpens \/ WorkerCommits \/ WorkerStops \/ UNCHANGED vars
    BY <1>12, <1>a, <1>b, <1>c, <1>d, <1>e
       DEF Tick, WorkerOpens, WorkerCommits, WorkerStops, vars, desk
  <1>13. CASE WorkerDelivers
    <2>1. Writes(Projected(db, LiveRun, CommittedReport), {}) /\ UNCHANGED <<jobs, review, operator>>
      BY <1>13 DEF WorkerDelivers, desk
    <2>2. DOMAIN db' = Tables /\ db'.feedback = db.feedback
      <3>1. \A run, r : DOMAIN Projected(db, run, r) = Tables /\ Projected(db, run, r).feedback = db.feedback
        BY <1>0, ProjectedFeedback, Zenon
      <3> QED BY <2>1, <3>1, Zenon DEF Writes
    <2>3. AuthorsCovered' /\ CopiesAttributed' /\ Attributed(db, authors)'
      BY <2>1, <2>2, CoveredWrite DEF Writes
    <2> QED BY <2>1, <2>3, <1>b, <1>c
  (* The operator copies the store as it is.                               *)
  <1>14. CASE FreezeForBackup \/ CopyJournal \/ CopyAnalyst \/ SealBundle \/ BackupFails
              \/ ReplaceCopy \/ Restore
    <2>1. UNCHANGED <<db, authors, jobs, review>>
      BY <1>14 DEF FreezeForBackup, CopyJournal, CopyAnalyst, SealBundle, BackupFails,
                   ReplaceCopy, Restore, desk
    <2>2. CopiesAttributed'
      <3>1. CASE FreezeForBackup
        BY <3>1, <2>1 DEF FreezeForBackup, CopiesAttributed
      <3>2. CASE CopyJournal
        BY <3>2, <2>1 DEF CopyJournal, CopiesAttributed, RecoveryInv, BackupAlone, Pair
      <3>3. CASE CopyAnalyst
        BY <3>3, <2>1 DEF CopyAnalyst, CopiesAttributed, RecoveryInv, BackupAlone, Pair
      <3>4. CASE SealBundle
        BY <3>4, <2>1 DEF SealBundle, CopiesAttributed
      <3>5. CASE BackupFails
        BY <3>5, <2>1 DEF BackupFails, CopiesAttributed
      <3>6. CASE ReplaceCopy
        BY <3>6, <2>1 DEF ReplaceCopy, CopiesAttributed, RecoveryInv, BundleNamed
      <3>7. CASE Restore
        BY <3>7, <2>1 DEF Restore, CopiesAttributed
      <3> QED BY <1>14, <3>1, <3>2, <3>3, <3>4, <3>5, <3>6, <3>7
    <2> QED BY <2>1, <2>2, <1>a, <1>b, <1>c, <1>d
  <1>15. CASE CutOver
    <2>1. /\ db' = restored.analyst /\ restored # None /\ jobs' = <<>> /\ review' = None
          /\ UNCHANGED <<authors, backup>> /\ restored' = None /\ bundle' = None
      BY <1>15 DEF CutOver
    <2>2. Attributed(db, authors)' /\ CopiesAttributed'
      BY <2>1 DEF CopiesAttributed
    <2> QED BY <2>1, <2>2, <1>a DEF JobsCovered, ReviewCovered
  <1> HIDE DEF Upheld
  <1>16. CASE \E c \in Setup.callers :
          \/ \E r \in Setup.replays : Upload(c, r) \/ Stream(c, r)
          \/ LoadDemo(c)
          \/ \E id \in DOMAIN db.incidents :
               \/ \E s \in Setup.statuses : ReadForReview(c, id, s)
               \/ \E d \in Setup.dispositions : Feedback(c, id, d)
               \/ ExportIncident(c, id)
          \/ \E r \in DOMAIN db.runs : Retire(c, r) \/ ExportRun(c, r)
    BY <1>16, <1>1, <1>3, <1>4, <1>5, <1>6, <1>x
  <1>17. CASE \E j \in DOMAIN jobs :
          RestoreAlerts(j) \/ Observe(j) \/ StreamEnds(j) \/ Import(j) \/ Save(j) \/ Stops(j)
    BY <1>17, <1>7, <1>8, <1>9
  <1> QED
    BY <1>2, <1>10, <1>11, <1>12, <1>13, <1>14, <1>15, <1>16, <1>17 DEF Next

(* In protected mode everything the API wrote, it wrote for a principal    *)
(* admitted over HTTPS with a valid credential; but for the ledger's       *)
(* record of a download, of a sufficient role and not through a foreign    *)
(* page; feedback names that principal (security.py, api.py).              *)
THEOREM WritesAuthorised == Spec => []Authorised
  <1>1. AuthInv => Authorised
    BY DEF AuthInv, Upheld, AuthorsCovered, Covered, Attributed, Authorised
  <1>2. Spec => []AuthInv
    BY AuthInit, AuthStep, RecoveryHolds, PTL DEF Spec
  <1> QED BY <1>1, <1>2, PTL

-----------------------------------------------------------------------------
(* The queue.                                                              *)

(* What a review reads and writes has the payload's fields; a payload's    *)
(* source is in its incident's id.                                         *)
Filed(payload, id) ==
  {"src", "status", "conclusion"} \subseteq DOMAIN payload /\ payload.src = id[1]
OfFinal(payload) ==
  "correlate" \notin Setup.kinds => Stripped(payload) \in {Stripped(i) : i \in Final}
(* Only the command line mixes alerts of several sessions.                 *)
CollisionFree == "correlate" \in Setup.kinds => NamesSources(AllAlerts)

Backed(tables, incidents, alerts) ==
  /\ \A i \in incidents : i.id \in DOMAIN tables.incidents
  /\ \A a \in alerts : a.id \in DOMAIN tables.alerts
RowSound(row, id) ==
  /\ row = [payload |-> row.payload, status |-> row.status]
  /\ Filed(row.payload, id) /\ OfFinal(row.payload)
AlertSound(row) ==
  /\ Sourced(AllAlerts, row.payload)
  /\ CollisionFree => \A id \in row.incident : row.payload.src = id[1]
IncidentsSound(tables) == \A id \in DOMAIN tables.incidents : RowSound(tables.incidents[id], id)
AlertsSound(tables) ==
  IsFiniteSet(DOMAIN tables.alerts) /\ \A a \in DOMAIN tables.alerts : AlertSound(tables.alerts[a])
RunsSound(tables) ==
  \A r \in Listed(tables) : Backed(tables, tables.runs[r].incidents, tables.runs[r].alerts)
Sound(tables) ==
  DOMAIN tables = Tables /\ IncidentsSound(tables) /\ AlertsSound(tables) /\ RunsSound(tables)

(* What may be imported: incidents with ids of their own, which list       *)
(* alerts of their source only.                                            *)
Proper(incidents, alerts) ==
  /\ IsFiniteSet(alerts) /\ \A a \in alerts : Sourced(AllAlerts, a)
  /\ \A i \in incidents :
       /\ {"id", "members"} \subseteq DOMAIN i /\ Filed(i, i.id) /\ OfFinal(i)
       /\ \A j \in incidents : i.id = j.id => i = j
       /\ CollisionFree => \A a \in alerts : a.id \in i.members => a.src = i.src

(* A change that loses no row and no status.                               *)
Grown(old, new) ==
  /\ DOMAIN old.alerts \subseteq DOMAIN new.alerts
  /\ \A id \in DOMAIN old.incidents :
       id \in DOMAIN new.incidents /\ new.incidents[id].status = old.incidents[id].status

LEMMA Concluded ==
  ASSUME NEW i, {"status", "conclusion"} \subseteq DOMAIN i, NEW ids
  PROVE  LET c == ConclusionOf(i, ids)
         IN  /\ DOMAIN c = DOMAIN i /\ \A f \in DOMAIN i \ {"conclusion"} : c[f] = i[f]
             /\ Stripped(c) = Stripped(i)
  <1> DEFINE drawn == i.members \cap ids
  <1>1. ConclusionOf(i, ids) = IF i.conclusion # {} THEN i ELSE [i EXCEPT !.conclusion = drawn]
    BY DEF ConclusionOf
  <1> HIDE DEF drawn
  <1>2. DOMAIN [i EXCEPT !.conclusion = drawn] = DOMAIN i
        /\ \A f \in DOMAIN i \ {"conclusion"} : [i EXCEPT !.conclusion = drawn][f] = i[f]
    OBVIOUS
  <1>3. Stripped([i EXCEPT !.conclusion = drawn]) = Stripped(i)
    BY DEF Stripped
  <1> QED BY <1>1, <1>2, <1>3
(* The rows of an upsert; the tables of an import.                         *)
StoredAs(new, rows, incidents) ==
  /\ DOMAIN new = DOMAIN rows \cup {i.id : i \in incidents}
  /\ \A id \in DOMAIN new :
       \/ \E i \in incidents :
            /\ i.id = id
            /\ new[id] = [payload |-> i,
                         status |-> IF id \in DOMAIN rows THEN rows[id].status ELSE i.status]
       \/ id \in DOMAIN rows /\ new[id] = rows[id] /\ \A i \in incidents : i.id # id
ImportedAs(new, d, incidents, alerts) ==
  /\ DOMAIN new = Tables /\ new.runs = d.runs
  /\ new.incidents = Stored(d.incidents, {ConclusionOf(i, {a.id : a \in alerts}) : i \in incidents})
  /\ DOMAIN new.alerts = DOMAIN d.alerts \cup {a.id : a \in alerts}
  /\ \A a \in DOMAIN new.alerts :
       \/ \E b \in alerts : b.id = a /\ new.alerts[a] = [payload |-> b, incident |-> OwnerOf(b, incidents)]
       \/ a \in DOMAIN d.alerts /\ new.alerts[a] = d.alerts[a]

LEMMA StoredRows ==
  ASSUME NEW rows, NEW incidents
  PROVE  StoredAs(Stored(rows, incidents), rows, incidents)
  <1> DEFINE new == Stored(rows, incidents)
  <1>1. DOMAIN new = DOMAIN rows \cup {i.id : i \in incidents}
    BY DEF Stored
  <1>2. ASSUME NEW id \in DOMAIN new, \E i \in incidents : i.id = id
        PROVE  \E i \in incidents :
                 /\ i.id = id
                 /\ new[id] = [payload |-> i,
                              status |-> IF id \in DOMAIN rows THEN rows[id].status ELSE i.status]
    <2> DEFINE i == CHOOSE i \in incidents : i.id = id
    <2>1. i \in incidents /\ i.id = id
      BY <1>2
    <2>2. new[id] = Upserted(rows, i)
      BY <1>2 DEF Stored
    <2> HIDE DEF i
    <2> QED BY <2>1, <2>2 DEF Upserted
  <1>3. ASSUME NEW id \in DOMAIN new, ~ \E i \in incidents : i.id = id
        PROVE  id \in DOMAIN rows /\ new[id] = rows[id]
    BY <1>1, <1>3 DEF Stored
  <1> HIDE DEF new
  <1>4. StoredAs(new, rows, incidents)
    BY <1>1, <1>2, <1>3 DEF StoredAs
  <1> QED BY <1>4 DEF new

LEMMA ImportedTables ==
  ASSUME NEW d, DOMAIN d = Tables, NEW incidents, NEW alerts, NEW feedback
  PROVE  ImportedAs(Imported(d, incidents, alerts, feedback), d, incidents, alerts)
  <1> DEFINE new == Imported(d, incidents, alerts, feedback)
             ids == {a.id : a \in alerts}
             concluded == {ConclusionOf(i, ids) : i \in incidents}
             chosen(a) == CHOOSE b \in alerts : b.id = a
             rows == [a \in DOMAIN d.alerts \cup ids |->
                        IF \E b \in alerts : b.id = a
                        THEN [payload |-> chosen(a), incident |-> OwnerOf(chosen(a), incidents)]
                        ELSE d.alerts[a]]
  <1>1. new = [d EXCEPT !.incidents = Stored(@, concluded), !.alerts = rows, !.feedback = @ \cup feedback]
    BY DEF Imported
  <1> DEFINE stored == Stored(d.incidents, concluded)
  <1>2. new = [d EXCEPT !.incidents = stored, !.alerts = rows, !.feedback = @ \cup feedback]
    BY <1>1
  <1> HIDE DEF stored, new
  <1>3. ASSUME NEW a \in DOMAIN rows
        PROVE  \/ \E b \in alerts : b.id = a /\ rows[a] = [payload |-> b, incident |-> OwnerOf(b, incidents)]
               \/ a \in DOMAIN d.alerts /\ rows[a] = d.alerts[a]
    <2>1. CASE \E b \in alerts : b.id = a
      <3>1. chosen(a) \in alerts /\ chosen(a).id = a
        BY <2>1
      <3> QED BY <2>1, <3>1
    <2>2. CASE ~ \E b \in alerts : b.id = a
      BY <2>2
    <2> QED BY <2>1, <2>2
  <1>4. DOMAIN rows = DOMAIN d.alerts \cup ids
    OBVIOUS
  <1> HIDE DEF rows
  <1>5. DOMAIN new = Tables /\ new.runs = d.runs /\ new.incidents = stored /\ new.alerts = rows
    BY <1>2 DEF Tables
  <1>6. ImportedAs(new, d, incidents, alerts)
    BY <1>3, <1>4, <1>5 DEF ImportedAs, stored
  <1> QED BY <1>6 DEF new

LEMMA OwnerIs ==
  ASSUME NEW alert, NEW incidents, NEW id \in OwnerOf(alert, incidents)
  PROVE  \E i \in incidents : i.id = id /\ alert.id \in i.members
  BY DEF OwnerOf

(* An import keeps the tables sound and loses nothing; what it brought is  *)
(* there.                                                                  *)
LEMMA ImportSound ==
  ASSUME NEW d, Sound(d), NEW incidents, NEW alerts, Proper(incidents, alerts), NEW feedback
  PROVE  LET new == Imported(d, incidents, alerts, feedback)
         IN  Sound(new) /\ Grown(d, new) /\ Backed(new, incidents, alerts)
  <1> DEFINE new == Imported(d, incidents, alerts, feedback)
             ids == {a.id : a \in alerts}
             concluded == {ConclusionOf(i, ids) : i \in incidents}
  <1> HIDE DEF new, concluded
  <1>1. /\ DOMAIN new = Tables /\ new.runs = d.runs
        /\ new.incidents = Stored(d.incidents, concluded)
        /\ DOMAIN new.alerts = DOMAIN d.alerts \cup ids
        /\ \A a \in DOMAIN new.alerts :
             \/ \E b \in alerts : b.id = a /\ new.alerts[a] = [payload |-> b, incident |-> OwnerOf(b, incidents)]
             \/ a \in DOMAIN d.alerts /\ new.alerts[a] = d.alerts[a]
    <2>1. ImportedAs(new, d, incidents, alerts)
      BY ImportedTables DEF Sound, new
    <2> QED BY <2>1 DEF ImportedAs, concluded
  <1>2. ASSUME NEW c \in concluded
        PROVE  \E i \in incidents : /\ c.id = i.id /\ Filed(c, i.id) /\ OfFinal(c)
                                    /\ Stripped(c) = Stripped(i)
    <2>1. PICK i \in incidents : c = ConclusionOf(i, ids)
      BY DEF concluded
    <2>2. {"id", "members"} \subseteq DOMAIN i /\ Filed(i, i.id) /\ OfFinal(i)
      BY DEF Proper
    <2>3. /\ DOMAIN c = DOMAIN i /\ \A f \in DOMAIN i \ {"conclusion"} : c[f] = i[f]
          /\ Stripped(c) = Stripped(i)
      <3> HIDE DEF ids
      <3> QED BY <2>1, <2>2, Concluded DEF Filed
    <2> QED BY <2>2, <2>3 DEF Filed, OfFinal
  <1>3. {c.id : c \in concluded} = {i.id : i \in incidents}
    <2>1. {c.id : c \in concluded} \subseteq {i.id : i \in incidents}
      BY <1>2
    <2>2. ASSUME NEW i \in incidents PROVE i.id \in {c.id : c \in concluded}
      <3> DEFINE c == ConclusionOf(i, ids)
      <3>1. c \in concluded
        BY DEF concluded
      <3>2. c.id = i.id
        <4>1. {"id", "members"} \subseteq DOMAIN i /\ Filed(i, i.id)
          BY DEF Proper
        <4> HIDE DEF ids
        <4> QED BY <4>1, Concluded DEF Filed
      <3> QED BY <3>1, <3>2
    <2> QED BY <2>1, <2>2
  <1>0. StoredAs(new.incidents, d.incidents, concluded)
    BY <1>1, StoredRows
  <1>4. DOMAIN new.incidents = DOMAIN d.incidents \cup {i.id : i \in incidents}
    BY <1>0, <1>3 DEF StoredAs
  <1>5. Backed(new, incidents, alerts)
    BY <1>1, <1>4 DEF Backed
  <1>6. ASSUME NEW id \in DOMAIN new.incidents
        PROVE  /\ RowSound(new.incidents[id], id)
               /\ id \in DOMAIN d.incidents => new.incidents[id].status = d.incidents[id].status
    <2>1. \/ \E i \in concluded :
               /\ i.id = id
               /\ new.incidents[id] =
                    [payload |-> i, status |-> IF id \in DOMAIN d.incidents THEN d.incidents[id].status ELSE i.status]
          \/ id \in DOMAIN d.incidents /\ new.incidents[id] = d.incidents[id]
      BY <1>0 DEF StoredAs
    <2>2. CASE id \in DOMAIN d.incidents /\ new.incidents[id] = d.incidents[id]
      BY <2>2 DEF Sound, IncidentsSound
    <2>3. ASSUME NEW i \in concluded, i.id = id, NEW status,
                 new.incidents[id] = [payload |-> i, status |-> status]
          PROVE  RowSound(new.incidents[id], id) /\ new.incidents[id].status = status
      BY <1>2, <2>3 DEF RowSound
    <2> QED BY <2>1, <2>2, <2>3
  <1>7. IncidentsSound(new) /\ Grown(d, new)
    BY <1>1, <1>4, <1>6 DEF IncidentsSound, Grown
  <1>8. AlertsSound(new)
    <2>1. IsFiniteSet(ids)
      <3> DEFINE f == [a \in alerts |-> a.id]
      <3>1. f \in Surjection(alerts, ids)
        BY DEF Surjection
      <3> HIDE DEF f, ids
      <3> QED BY <3>1, FS_Surjection DEF Proper
    <2>2. IsFiniteSet(DOMAIN new.alerts)
      <3> DEFINE old == DOMAIN d.alerts
      <3>1. IsFiniteSet(old) /\ DOMAIN new.alerts = old \cup ids
        BY <1>1 DEF Sound, AlertsSound
      <3> HIDE DEF ids, old
      <3>2. IsFiniteSet(old \cup ids)
        BY <2>1, <3>1, FS_Union
      <3> QED BY <3>1, <3>2
    <2>3. ASSUME NEW a \in DOMAIN new.alerts PROVE AlertSound(new.alerts[a])
      <3>1. CASE a \in DOMAIN d.alerts /\ new.alerts[a] = d.alerts[a]
        BY <3>1 DEF Sound, AlertsSound
      <3>2. ASSUME NEW b \in alerts, new.alerts[a] = [payload |-> b, incident |-> OwnerOf(b, incidents)]
            PROVE  AlertSound(new.alerts[a])
        <4>1. Sourced(AllAlerts, b)
          BY DEF Proper
        <4>2. ASSUME CollisionFree, NEW id \in OwnerOf(b, incidents) PROVE b.src = id[1]
          <5>1. PICK i \in incidents : i.id = id /\ b.id \in i.members
            BY OwnerIs
          <5> QED BY <4>2, <5>1 DEF Proper, Filed
        <4> QED BY <3>2, <4>1, <4>2 DEF AlertSound
      <3> QED BY <1>1, <3>1, <3>2
    <2> QED BY <2>2, <2>3 DEF AlertsSound
  <1>9. RunsSound(new)
    <2>1. Listed(new) = Listed(d)
      BY <1>1 DEF Listed
    <2> QED BY <1>1, <1>4, <2>1 DEF Sound, RunsSound, Backed
  <1> QED BY <1>1, <1>5, <1>7, <1>8, <1>9 DEF Sound, new

LEMMA SaveSound ==
  ASSUME NEW d, Sound(d), NEW run, NEW report,
         report.status = "completed" => Backed(d, report.incidents, report.alerts)
  PROVE  LET new == Saved(d, run, report)
         IN  Sound(new) /\ new.incidents = d.incidents /\ new.alerts = d.alerts
  <1> DEFINE new == Saved(d, run, report)
  <1>1. /\ DOMAIN new = Tables /\ new.incidents = d.incidents /\ new.alerts = d.alerts
        /\ new.runs = [k \in DOMAIN d.runs \cup {run} |-> IF k = run THEN report ELSE d.runs[k]]
    BY DEF Sound, Saved, Put, Tables
  <1> HIDE DEF new
  <1>2. ASSUME NEW r \in Listed(new)
        PROVE  Backed(new, new.runs[r].incidents, new.runs[r].alerts)
    <2>1. CASE r = run
      BY <1>1, <2>1 DEF Listed, Backed
    <2>2. CASE r # run
      BY <1>1, <2>2 DEF Listed, Backed, Sound, RunsSound
    <2> QED BY <2>1, <2>2
  <1> QED BY <1>1, <1>2 DEF Sound, IncidentsSound, AlertsSound, RunsSound, new
LEMMA ProjectSound ==
  ASSUME NEW d, Sound(d), NEW run, NEW report, Proper(report.incidents, report.alerts)
  PROVE  Sound(Projected(d, run, report)) /\ Grown(d, Projected(d, run, report))
  <1> DEFINE e == Imported(d, report.incidents, report.alerts, {})
             new == Saved(e, run, report)
  <1>1. Sound(e) /\ Grown(d, e) /\ Backed(e, report.incidents, report.alerts)
    <2> DEFINE incidents == report.incidents
               alerts == report.alerts
    <2> HIDE DEF incidents, alerts
    <2>1. Proper(incidents, alerts)
      BY DEF incidents, alerts
    <2>2. \A f : LET i == Imported(d, incidents, alerts, f)
                 IN  Sound(i) /\ Grown(d, i) /\ Backed(i, incidents, alerts)
      BY <2>1, ImportSound
    <2> QED BY <2>2 DEF incidents, alerts
  <1>2. Projected(d, run, report) = new
    BY DEF Projected
  <1> HIDE DEF e
  <1>3. Sound(new) /\ new.incidents = e.incidents /\ new.alerts = e.alerts
    BY <1>1, SaveSound
  <1> QED BY <1>1, <1>2, <1>3 DEF Grown
(* The other statements change neither the rows there are nor the alerts.  *)
LEMMA RowsSound ==
  ASSUME NEW d, Sound(d), NEW new, DOMAIN new = Tables, new.alerts = d.alerts, new.runs = d.runs,
         DOMAIN new.incidents = DOMAIN d.incidents,
         \A id \in DOMAIN d.incidents : RowSound(new.incidents[id], id)
  PROVE  Sound(new)
  BY DEF Sound, IncidentsSound, AlertsSound, RunsSound, Listed, Backed
LEMMA ReviewedSound ==
  ASSUME NEW d, Sound(d), NEW id \in DOMAIN d.incidents, NEW payload, Filed(payload, id), OfFinal(payload),
         NEW status
  PROVE  LET new == Reviewed(d, id, payload, status)
             row == [payload |-> [payload EXCEPT !.status = status], status |-> status]
         IN  /\ Sound(new) /\ DOMAIN new.incidents = DOMAIN d.incidents /\ new.alerts = d.alerts
             /\ \A k \in DOMAIN d.incidents :
                  new.incidents[k] = IF k = id THEN row ELSE d.incidents[k]
             /\ Stripped(row.payload) = Stripped(payload)
  <1> DEFINE new == Reviewed(d, id, payload, status)
             row == [payload |-> [payload EXCEPT !.status = status], status |-> status]
  <1>1. new = [d EXCEPT !.incidents[id] = row]
    BY DEF Reviewed
  <1>2. /\ DOMAIN new = Tables /\ new.alerts = d.alerts /\ new.runs = d.runs
        /\ DOMAIN new.incidents = DOMAIN d.incidents
        /\ \A k \in DOMAIN d.incidents : new.incidents[k] = IF k = id THEN row ELSE d.incidents[k]
    <2> HIDE DEF row, new
    <2> QED BY <1>1 DEF Sound, Tables
  <1>3. Stripped(row.payload) = Stripped(payload)
    BY DEF Stripped
  <1>4. RowSound(row, id)
    BY <1>3 DEF RowSound, Filed, OfFinal
  <1>5. \A k \in DOMAIN d.incidents : RowSound(new.incidents[k], k)
    <2> HIDE DEF row, new
    <2> QED BY <1>2, <1>4 DEF Sound, IncidentsSound
  <1>6. Sound(new)
    <2> HIDE DEF row, new
    <2> QED BY <1>2, <1>5, RowsSound
  <1> QED BY <1>2, <1>3, <1>6
LEMMA BackfilledSound ==
  ASSUME NEW d, Sound(d)
  PROVE  Sound(Backfilled(d)) /\ Grown(d, Backfilled(d))
  <1> DEFINE new == Backfilled(d)
             ids == DOMAIN d.alerts
             row(id) == [d.incidents[id] EXCEPT !.payload = ConclusionOf(d.incidents[id].payload, ids)]
  <1>1. new = [d EXCEPT !.incidents = [id \in DOMAIN d.incidents |-> row(id)]]
    BY DEF Backfilled
  <1>2. /\ DOMAIN new = Tables /\ new.alerts = d.alerts /\ new.runs = d.runs
        /\ DOMAIN new.incidents = DOMAIN d.incidents
        /\ \A id \in DOMAIN d.incidents : new.incidents[id] = row(id)
    <2> HIDE DEF row, new
    <2> QED BY <1>1 DEF Sound, Tables
  <1>3. ASSUME NEW id \in DOMAIN d.incidents
        PROVE  RowSound(row(id), id) /\ row(id).status = d.incidents[id].status
    <2> DEFINE old == d.incidents[id]
               p == ConclusionOf(old.payload, ids)
    <2>1. RowSound(old, id)
      BY DEF Sound, IncidentsSound
    <2>2. /\ DOMAIN p = DOMAIN old.payload
          /\ \A f \in DOMAIN old.payload \ {"conclusion"} : p[f] = old.payload[f]
          /\ Stripped(p) = Stripped(old.payload)
      <3> HIDE DEF ids
      <3> QED BY <2>1, Concluded DEF RowSound, Filed
    <2> HIDE DEF p
    <2>3. [old EXCEPT !.payload = p] = [payload |-> p, status |-> old.status]
      BY <2>1 DEF RowSound
    <2>4. RowSound([payload |-> p, status |-> old.status], id)
      BY <2>1, <2>2 DEF RowSound, Filed, OfFinal
    <2> QED BY <2>3, <2>4 DEF p
  <1> HIDE DEF row, new
  <1>4. Sound(new)
    BY <1>2, <1>3, RowsSound
  <1> QED BY <1>2, <1>3, <1>4 DEF Grown, new

(* What is projected and imported is proper.                               *)
LEMMA SourcedMore ==
  ASSUME NEW raised, NEW a, Sourced(raised, a), NEW all, raised \subseteq all
  PROVE  Sourced(all, a)
  BY DEF Sourced, Origin
LEMMA FindingsProper ==
  ASSUME NEW raised, CollisionFree => NamesSources(raised), raised \subseteq AllAlerts,
         NEW findings, AllSourced(raised, findings), NEW alerts, alerts \subseteq Range(findings),
         \A i \in RecordedAll(findings) : OfFinal(i)
  PROVE  Proper(RecordedAll(findings), alerts)
  <1> DEFINE all == Incidents(findings)
  <1>1. AllCoherent(raised, all)
    BY IncidentsCoherent
  <1>2. IsFiniteSet(alerts) /\ \A a \in alerts : Sourced(raised, a) /\ Sourced(AllAlerts, a)
    <2>1. IsFiniteSet(Range(findings))
      BY RangeFinite DEF AllSourced
    <2>2. alerts \in SUBSET Range(findings)
      OBVIOUS
    <2>3. IsFiniteSet(alerts)
      BY <2>1, <2>2, FS_Subset
    <2>4. \A a \in alerts : Sourced(raised, a)
      BY DEF AllSourced
    <2> QED BY <2>3, <2>4, SourcedMore
  <1>3. ASSUME NEW i \in RecordedAll(findings)
        PROVE  \E k \in 1..Len(all) : i = Recorded(all[k])
    <2>1. PICK x \in Range(all) : i = Recorded(x)
      BY DEF RecordedAll
    <2>2. IsSeq(all)
      BY <1>1 DEF AllCoherent
    <2> HIDE DEF all
    <2> QED BY <2>1, <2>2, FoundAt
  <1> HIDE DEF all
  <1>4. ASSUME NEW k \in 1..Len(all)
        PROVE  LET i == Recorded(all[k])
               IN  /\ {"id", "members"} \subseteq DOMAIN i /\ Filed(i, i.id) /\ i.id = all[k].id
                   /\ CollisionFree => \A a \in alerts : a.id \in i.members => a.src = i.src
    <2> DEFINE x == all[k]
               i == Recorded(x)
    <2>1. Coherent(raised, x)
      BY <1>1 DEF AllCoherent
    <2>2. /\ {"id", "members", "src", "status", "conclusion"} \subseteq DOMAIN i
          /\ i.id = x.id /\ i.src = x.src /\ i.members = {b.id : b \in Range(x.alerts)}
      BY DEF Recorded, AlertIds
    <2>3. Filed(i, i.id)
      BY <2>1, <2>2 DEF Filed, Coherent
    <2>4. ASSUME CollisionFree, NEW a \in alerts, a.id \in i.members PROVE a.src = i.src
      <3>1. PICK b \in Range(x.alerts) : a.id = b.id
        BY <2>2, <2>4
      <3>2. Sourced(raised, a) /\ Sourced(raised, b) /\ b.src = x.src
        BY <1>2, <2>1 DEF Coherent, AllSourced
      <3>3. a.src = b.src
        BY <2>4, <3>1, <3>2 DEF Sourced, Origin, NamesSources
      <3> QED BY <2>2, <3>2, <3>3
    <2> QED BY <2>2, <2>3, <2>4
  <1>5. ASSUME NEW i \in RecordedAll(findings), NEW j \in RecordedAll(findings), i.id = j.id PROVE i = j
    BY <1>1, <1>3, <1>4, <1>5 DEF AllCoherent
  <1> QED BY <1>2, <1>3, <1>4, <1>5 DEF Proper

LEMMA ReplayAlerts ==
  ASSUME NEW r \in DOMAIN Replays
  PROVE  /\ IsSeq(Replays[r].live) /\ IsSeq(Replays[r].last)
         /\ AlertsOf(Replays[r]) \subseteq AllAlerts
         /\ \A a \in AllAlerts : Sourced(AllAlerts, a) /\ Timed(a)
  <1>1. IsSeq(Replays[r].live) /\ IsSeq(Replays[r].last)
    BY AlertsAssumption, SeqIsSeq
  <1>2. AlertsOf(Replays[r]) \subseteq AllAlerts
    BY DEF AllAlerts
  <1>3. \A a \in AllAlerts : Timed(a) /\ "src" \in DOMAIN a
    BY AlertsAssumption DEF Timed
  <1>4. \A a \in AllAlerts : Sourced(AllAlerts, a)
    BY <1>3 DEF Sourced, Origin
  <1> QED BY <1>1, <1>2, <1>3, <1>4
LEMMA ResolvedProper ==
  ASSUME NEW r \in DOMAIN Replays, NEW alerts, IsSeq(alerts), Range(alerts) \subseteq AlertsOf(Replays[r]),
         \A i \in RecordedAll(ResolveFindings(alerts)) : OfFinal(i)
  PROVE  Proper(RecordedAll(ResolveFindings(alerts)), Range(ResolveFindings(alerts)))
  <1> DEFINE raised == Range(alerts)
  <1>1. raised \subseteq AllAlerts /\ \A a \in raised : Timed(a)
    BY ReplayAlerts
  <1>2. NamesSources(raised)
    BY AlertsAssumption DEF NamesSources
  <1>3. AllSourced(raised, ResolveFindings(alerts))
    BY <1>1, ResolveSourced
  <1> HIDE DEF raised
  <1> QED BY <1>1, <1>2, <1>3, FindingsProper
LEMMA FinalProper ==
  ASSUME NEW r \in Setup.replays, Setup.replays \subseteq DOMAIN Replays
  PROVE  Proper(RecordedAll(FinalFindings(r)), Range(FinalFindings(r)))
  <1> DEFINE alerts == Replays[r].live \o Replays[r].last
  <1>1. r \in DOMAIN Replays
    OBVIOUS
  <1>2. IsSeq(alerts) /\ Range(alerts) \subseteq AlertsOf(Replays[r])
    BY <1>1, ReplayAlerts, ConcatIsSeq DEF AlertsOf
  <1>3. FinalFindings(r) = ResolveFindings(alerts)
    BY DEF FinalFindings
  <1>4. \A i \in RecordedAll(FinalFindings(r)) : OfFinal(i)
    BY DEF OfFinal, Final
  <1> HIDE DEF alerts
  <1> QED BY <1>1, <1>2, <1>3, <1>4, ResolvedProper
LEMMA LiveProper ==
  ASSUME HasFeed, Setup.feed \in DOMAIN Replays, NEW n \in 1..Len(Replays[Setup.feed].live)
  PROVE  Proper(LiveReport(n).incidents, LiveReport(n).alerts)
  <1> DEFINE live == Replays[Setup.feed].live
             alerts == SubSeq(live, 1, n)
  <1>1. IsSeq(live) /\ Range(live) \subseteq AlertsOf(Replays[Setup.feed])
    BY ReplayAlerts DEF AlertsOf
  <1>2. Len(live) \in Nat
    BY <1>1, SeqFacts
  <1>3. IsSeq(alerts) /\ Range(alerts) \subseteq AlertsOf(Replays[Setup.feed])
    BY <1>1, <1>2, SubSeqIsSeq
  <1>4. /\ LiveReport(n).incidents = RecordedAll(ResolveFindings(alerts))
        /\ LiveReport(n).alerts = Range(ResolveFindings(alerts))
    BY DEF LiveReport, Report
  <1>5. \A i \in LiveReport(n).incidents : OfFinal(i)
    <2> DEFINE of(k) == LiveReport(k).incidents
               all == UNION {of(k) : k \in 1..Len(Replays[Setup.feed].live)}
    <2>1. of(n) \subseteq all
      <3> HIDE DEF of
      <3> QED OBVIOUS
    <2>2. LiveReport(n).incidents \subseteq Final
      BY <2>1 DEF Final
    <2> QED BY <2>2 DEF OfFinal
  <1> HIDE DEF alerts
  <1> QED BY <1>3, <1>4, <1>5, ResolvedProper
LEMMA LegacyProper == Proper(Legacy.incidents, Legacy.alerts)
  <1>1. \A a \in Legacy.alerts : Sourced(AllAlerts, a)
    <2>1. Legacy.alerts \subseteq AllAlerts
      BY DEF AllAlerts
    <2> QED BY <2>1, AlertsAssumption DEF Sourced, Origin, Timed
  <1>2. \A i \in Legacy.incidents : OfFinal(i)
    <2>1. Legacy.incidents \subseteq Final
      BY DEF Final
    <2> QED BY <2>1 DEF OfFinal
  <1>3. \A i \in Legacy.incidents : \A a \in Legacy.alerts : a.id \in i.members => a.src = i.src
    BY LegacyAssumption, AlertsAssumption DEF NamesSources
  <1> QED BY <1>1, <1>2, <1>3, AlertsAssumption, LegacyAssumption DEF Proper, Filed

(* The command line's alerts come after those that were stored.            *)
LEMMA CorrelatedProper ==
  ASSUME "correlate" \in Setup.kinds, NEW job, IsFiniteSet(job.base),
         \A a \in job.base : Sourced(AllAlerts, a), job.replay \in DOMAIN Replays
  PROVE  Proper(RecordedAll(WithRestored(job)), Range(Replays[job.replay].live))
  <1> DEFINE base == InOrder(SetToSeq(job.base))
             live == Replays[job.replay].live
  <1>1. AllSourced(AllAlerts, SetToSeq(job.base))
    BY SetToSeqRange DEF AllSourced
  <1>2. AllSourced(AllAlerts, base)
    BY <1>1, InOrderSourced
  <1>3. AllSourced(AllAlerts, live)
    BY ReplayAlerts DEF AllSourced, AlertsOf
  <1>4. WithRestored(job) = base \o live
    BY DEF WithRestored
  <1> HIDE DEF base, live
  <1>5. AllSourced(AllAlerts, base \o live) /\ Range(live) \subseteq Range(base \o live)
    <2>1. IsSeq(base \o live) /\ Range(base \o live) \subseteq Range(base) \cup Range(live)
      BY <1>2, <1>3, ConcatIsSeq DEF AllSourced
    <2>2. ASSUME NEW a \in Range(live) PROVE a \in Range(base \o live)
      <3> DEFINE S == Range(base) \cup Range(live)
      <3>1. PICK k \in 1..Len(live) : live[k] = a
        BY <1>3, FoundAt DEF AllSourced
      <3>2. base \in Seq(S) /\ live \in Seq(S)
        BY <1>2, <1>3, SeqMonotonic DEF AllSourced, IsSeq
      <3> HIDE DEF S
      <3>3. /\ Len(base \o live) = Len(base) + Len(live) /\ Len(base) \in Nat /\ Len(live) \in Nat
            /\ (base \o live)[Len(base) + k] = a
        BY <3>1, <3>2, ConcatProperties, LenProperties
      <3>4. Len(base) + k \in DOMAIN (base \o live)
        BY <2>1, <3>3, SeqFacts
      <3> QED BY <3>3, <3>4 DEF Range
    <2> QED BY <1>2, <1>3, <2>1, <2>2 DEF AllSourced
  <1>6. \A i \in RecordedAll(WithRestored(job)) : OfFinal(i)
    BY DEF OfFinal
  <1>7. CollisionFree => NamesSources(AllAlerts)
    BY DEF CollisionFree
  <1> QED BY <1>4, <1>5, <1>6, <1>7, FindingsProper DEF live

(* Beside the tables: what is under way will fit them, the decisions are   *)
(* their status columns, and every copy is as sound as they are.           *)
JobSound(j) ==
  LET job == jobs[j]
  IN  /\ job = [kind |-> job.kind, replay |-> job.replay, by |-> job.by, seen |-> job.seen,
                base |-> job.base, step |-> job.step]
      /\ job.kind \in Setup.kinds /\ job.replay \in Setup.replays
      /\ IsFiniteSet(job.base) /\ \A a \in job.base : Sourced(AllAlerts, a)
      /\ job.step = "saving" =>
           /\ job.kind # "correlate"
           /\ Backed(db, RecordedAll(FinalFindings(job.replay)), Range(FinalFindings(job.replay)))
JobsSound == \A j \in DOMAIN jobs : JobSound(j)
ReviewSound ==
  review # None =>
    /\ review.id \in DOMAIN db.incidents /\ Filed(review.payload, review.id) /\ OfFinal(review.payload)
DecidedSound ==
  \A id \in DOMAIN decided : id \in DOMAIN db.incidents /\ db.incidents[id].status = decided[id]
LogSound(log) ==
  /\ log = [lines |-> log.lines, status |-> log.status] /\ log.lines \in Nat
  /\ log.lines > 0 => HasFeed /\ log.lines <= Len(Replays[Setup.feed].live)
WorkerSound == LogSound(journal) /\ (worker => HasFeed)
CopiesSound ==
  /\ backup # None => /\ backup.journal # None => LogSound(backup.journal)
                      /\ backup.analyst # None => backup.journal # None /\ Sound(backup.analyst)
  /\ bundle # None => LogSound(bundle.journal) /\ Sound(bundle.analyst)
  /\ restored # None => LogSound(restored.journal) /\ Sound(restored.analyst)
SettingSound ==
  Setup.replays \subseteq DOMAIN Replays /\ Setup.feed \in DOMAIN Replays \cup {None}
QueueInv ==
  SettingSound /\ Sound(db) /\ JobsSound /\ ReviewSound /\ DecidedSound /\ WorkerSound /\ CopiesSound

LEMMA QueueInit == Init => QueueInv
  <1> SUFFICES ASSUME Init PROVE QueueInv
    OBVIOUS
  <1>1. SettingSound
    BY ScenesAssumption DEF Init, SettingSound, SettingValid, Setup
  <1>2. Sound(NoRows)
    BY FS_EmptySet DEF Sound, NoRows, Tables, IncidentsSound, AlertsSound, RunsSound, Listed
  <1>3. Sound(db)
    <2>1. CASE db = NoRows
      BY <1>2, <2>1
    <2>2. CASE db # NoRows
      <3> DEFINE file == Imported(NoRows, {}, Legacy.alerts, Legacy.feedback)
                 rows == Stored(<<>>, Legacy.incidents)
                 loaded == [file EXCEPT !.incidents = rows]
      <3>1. db = loaded
        <4>1. db \in {NoRows} \cup (IF Setup.legacy THEN {loaded} ELSE {})
          BY DEF Init
        <4> HIDE DEF loaded
        <4> QED BY <2>2, <4>1
      <3>2. Proper({}, Legacy.alerts)
        BY LegacyProper DEF Proper
      <3>3. Sound(file)
        <4> DEFINE alerts == Legacy.alerts
                   feedback == Legacy.feedback
        <4> HIDE DEF alerts, feedback
        <4>1. Sound(Imported(NoRows, {}, alerts, feedback))
          BY <1>2, <3>2, ImportSound DEF alerts
        <4> QED BY <4>1 DEF alerts, feedback
      <3>4. StoredAs(rows, <<>>, Legacy.incidents)
        BY StoredRows
      <3>5. ASSUME NEW id \in DOMAIN rows PROVE RowSound(rows[id], id)
        <4>1. PICK i \in Legacy.incidents : i.id = id /\ rows[id].payload = i
                                        /\ rows[id] = [payload |-> i, status |-> rows[id].status]
          <5> DEFINE none == <<>>
          <5>1. DOMAIN none = {}
            OBVIOUS
          <5>2. StoredAs(rows, none, Legacy.incidents)
            BY <3>4
          <5> HIDE DEF none
          <5>3. \E i \in Legacy.incidents :
                  /\ i.id = id
                  /\ rows[id] = [payload |-> i, status |-> IF id \in DOMAIN none THEN none[id].status ELSE i.status]
            BY <5>1, <5>2 DEF StoredAs
          <5>4. PICK i \in Legacy.incidents :
                  i.id = id /\ \E status : rows[id] = [payload |-> i, status |-> status]
            BY <5>3
          <5> QED BY <5>4
        <4>2. Filed(i, id) /\ OfFinal(i)
          BY <4>1, LegacyProper DEF Proper
        <4> QED BY <4>1, <4>2 DEF RowSound
      <3>6. file.runs = <<>>
        <4> DEFINE alerts == Legacy.alerts
                   feedback == Legacy.feedback
        <4> HIDE DEF alerts, feedback
        <4>1. ImportedAs(Imported(NoRows, {}, alerts, feedback), NoRows, {}, alerts)
          BY ImportedTables DEF NoRows, Tables
        <4>2. Imported(NoRows, {}, alerts, feedback).runs = <<>>
          BY <4>1 DEF ImportedAs, NoRows
        <4> QED BY <4>2 DEF alerts, feedback
      <3> HIDE DEF file, rows
      <3>7. /\ DOMAIN loaded = Tables /\ loaded.incidents = rows /\ loaded.alerts = file.alerts
            /\ loaded.runs = file.runs
        BY <3>3 DEF Sound, Tables
      <3> HIDE DEF loaded
      <3>8. Listed(loaded) = {}
        BY <3>6, <3>7 DEF Listed
      <3>9. Sound(loaded)
        BY <3>3, <3>5, <3>7, <3>8 DEF Sound, IncidentsSound, AlertsSound, RunsSound
      <3> QED BY <3>1, <3>9
    <2> QED BY <2>1, <2>2
  <1> QED BY <1>1, <1>3 DEF Init, QueueInv, JobsSound, ReviewSound, DecidedSound, WorkerSound, LogSound, CopiesSound

(* More rows keep what leans on them.                                      *)
LEMMA GrownBacked ==
  ASSUME NEW old, NEW new, Grown(old, new), NEW incidents, NEW alerts, Backed(old, incidents, alerts)
  PROVE  Backed(new, incidents, alerts)
  BY DEF Grown, Backed
LEMMA GrownKeeps ==
  ASSUME Grown(db, db'), UNCHANGED scene
  PROVE  /\ JobsSound /\ UNCHANGED jobs => JobsSound'
         /\ ReviewSound /\ UNCHANGED review => ReviewSound'
         /\ DecidedSound /\ UNCHANGED decided => DecidedSound'
  <1>1. ASSUME JobsSound, UNCHANGED jobs PROVE JobsSound'
    BY <1>1 DEF JobsSound, JobSound, Setup, Grown, Backed
  <1>2. ASSUME ReviewSound, UNCHANGED review PROVE ReviewSound'
    BY <1>2 DEF ReviewSound, Grown, OfFinal, Setup, Final, HasFeed, LiveReport
  <1>3. ASSUME DecidedSound, UNCHANGED decided PROVE DecidedSound'
    BY <1>3 DEF DecidedSound, Grown
  <1> QED BY <1>1, <1>2, <1>3

(* What happens beside the tables.                                         *)
LEMMA JobsKept ==
  ASSUME JobsSound, Grown(db, db'), UNCHANGED scene,
         \A j \in DOMAIN jobs' : (j \in DOMAIN jobs /\ jobs'[j] = jobs[j]) \/ JobSound(j)'
  PROVE  JobsSound'
  BY DEF JobsSound, JobSound, Setup, Grown, Backed, FinalFindings
LEMMA SameRows == Grown(db, db)
  BY DEF Grown
LEMMA CopiesKept ==
  ASSUME CopiesSound, UNCHANGED <<operator, scene>>
  PROVE  CopiesSound'
  <1> USE DEF operator
  <1>1. /\ Sound(backup.analyst) => Sound(backup.analyst)'
        /\ Sound(bundle.analyst) => Sound(bundle.analyst)'
        /\ Sound(restored.analyst) => Sound(restored.analyst)'
    <2> USE DEF Sound, IncidentsSound, RowSound, AlertsSound, AlertSound, RunsSound, OfFinal,
                CollisionFree, Final, LiveReport, HasFeed, Setup
    <2>1. Sound(backup.analyst) => Sound(backup.analyst)'
      OBVIOUS
    <2>2. Sound(bundle.analyst) => Sound(bundle.analyst)'
      OBVIOUS
    <2>3. Sound(restored.analyst) => Sound(restored.analyst)'
      OBVIOUS
    <2> HIDE DEF Sound
    <2> QED BY <2>1, <2>2, <2>3
  <1>2. /\ LogSound(backup.journal) => LogSound(backup.journal)'
        /\ LogSound(bundle.journal) => LogSound(bundle.journal)'
        /\ LogSound(restored.journal) => LogSound(restored.journal)'
    BY DEF LogSound, HasFeed, Setup
  <1> QED BY <1>1, <1>2 DEF CopiesSound
LEMMA WorkerKept ==
  ASSUME WorkerSound, UNCHANGED <<feeding, scene>>
  PROVE  WorkerSound'
  BY DEF WorkerSound, LogSound, HasFeed, Setup, feeding
LEMMA SoundNow ==
  ASSUME UNCHANGED scene, Sound(db')
  PROVE  Sound(db)'
  BY DEF Sound, IncidentsSound, RowSound, AlertsSound, AlertSound, RunsSound, OfFinal, CollisionFree,
         Final, LiveReport, HasFeed, Setup
LEMMA QueueFrom ==
  ASSUME QueueInv, UNCHANGED scene, Sound(db'), JobsSound', ReviewSound', DecidedSound', WorkerSound', CopiesSound'
  PROVE  QueueInv'
  <1>1. Sound(db)'
    BY SoundNow
  <1> QED BY <1>1 DEF QueueInv, SettingSound, Setup
(* A write that only adds: what is left is the work it moves on.           *)
LEMMA QueueGrows ==
  ASSUME QueueInv, UNCHANGED <<scene, review, feeding, operator, decided>>, Sound(db'), Grown(db, db'), JobsSound'
  PROVE  QueueInv'
  <1>1. ReviewSound' /\ DecidedSound'
    BY GrownKeeps DEF QueueInv
  <1>2. WorkerSound' /\ CopiesSound'
    BY CopiesKept, WorkerKept DEF QueueInv
  <1> QED BY <1>1, <1>2, QueueFrom
LEMMA QueueSame ==
  ASSUME QueueInv, UNCHANGED <<scene, db, review, feeding, operator, decided>>, JobsSound'
  PROVE  QueueInv'
  BY SameRows, QueueGrows DEF QueueInv

(* A job that begins has nothing stored; one that moves on keeps its form. *)
LEMMA BegunSound ==
  ASSUME QueueInv, NEW kind, NEW replay, NEW by, Begin(kind, replay, by)
  PROVE  QueueInv'
  <1> DEFINE step == IF kind = "stream" THEN "reading"
                     ELSE IF kind = "correlate" THEN "restoring" ELSE "importing"
             job == [kind |-> kind, replay |-> replay, by |-> by, seen |-> 0, base |-> {}, step |-> step]
  <1>1. /\ jobs' = [k \in DOMAIN jobs \cup {started + 1} |-> IF k = started + 1 THEN job ELSE jobs[k]]
        /\ kind \in Setup.kinds /\ replay \in Setup.replays
        /\ UNCHANGED <<scene, db, review, feeding, operator, decided>>
    BY DEF Begin, Put
  <1>2. /\ job = [kind |-> job.kind, replay |-> job.replay, by |-> job.by, seen |-> job.seen,
                  base |-> job.base, step |-> job.step]
        /\ job.kind = kind /\ job.replay = replay /\ job.base = {} /\ job.step # "saving"
    OBVIOUS
  <1> HIDE DEF job
  <1>3. \A j \in DOMAIN jobs' : jobs'[j] = job \/ (j \in DOMAIN jobs /\ jobs'[j] = jobs[j])
    BY <1>1
  <1>4. ASSUME NEW j, jobs'[j] = job PROVE JobSound(j)'
    BY <1>1, <1>2, <1>4, FS_EmptySet DEF JobSound, Setup
  <1>5. JobsSound'
    BY <1>1, <1>3, <1>4, SameRows, JobsKept DEF QueueInv
  <1> QED BY <1>1, <1>5, QueueSame
LEMMA MovedSound ==
  ASSUME JobsSound, Grown(db, db'), UNCHANGED scene, NEW j, NEW step, Moves(j, step), step # "saving"
  PROVE  JobsSound'
  <1>1. ASSUME NEW k \in DOMAIN jobs', k # j PROVE k \in DOMAIN jobs /\ jobs'[k] = jobs[k]
    BY <1>1 DEF Moves
  <1>2. ASSUME j \in DOMAIN jobs' PROVE JobSound(j)'
    <2>1. JobSound(j) /\ jobs'[j] = [jobs[j] EXCEPT !.step = step]
      BY <1>2 DEF Moves, JobsSound
    <2> QED BY <2>1 DEF JobSound, Setup
  <1> QED BY <1>1, <1>2, JobsKept
LEMMA DroppedSound ==
  ASSUME JobsSound, Grown(db, db'), UNCHANGED scene, NEW j, jobs' = Dropped(j)
  PROVE  JobsSound'
  BY JobsKept DEF Dropped

(* What a job imports fits the tables.                                     *)
LEMMA ReportProper ==
  ASSUME QueueInv, NEW j \in DOMAIN jobs
  PROVE  Proper(JobReport(j).incidents, JobReport(j).alerts)
  <1> DEFINE job == jobs[j]
  <1>1. JobSound(j) /\ Setup.replays \subseteq DOMAIN Replays
    BY DEF QueueInv, JobsSound, SettingSound
  <1>2. CASE job.kind = "correlate"
    <2>1. /\ JobReport(j).incidents = RecordedAll(WithRestored(job))
          /\ JobReport(j).alerts = Range(Replays[job.replay].live)
      BY <1>2 DEF JobReport
    <2>2. Proper(RecordedAll(WithRestored(job)), Range(Replays[job.replay].live))
      <3>1. /\ "correlate" \in Setup.kinds /\ IsFiniteSet(job.base)
            /\ \A a \in job.base : Sourced(AllAlerts, a) /\ job.replay \in DOMAIN Replays
        BY <1>1, <1>2 DEF JobSound
      <3>2. job.replay \in DOMAIN Replays
        BY <1>1 DEF JobSound
      <3> HIDE DEF job
      <3> QED BY <3>1, <3>2, CorrelatedProper
    <2> QED BY <2>1, <2>2
  <1>3. CASE job.kind # "correlate"
    <2>1. /\ JobReport(j).incidents = RecordedAll(FinalFindings(job.replay))
          /\ JobReport(j).alerts = Range(FinalFindings(job.replay))
      BY <1>3 DEF JobReport, Report
    <2>2. job.replay \in Setup.replays
      BY <1>1 DEF JobSound
    <2> HIDE DEF job
    <2> QED BY <1>1, <2>1, <2>2, FinalProper
  <1> QED BY <1>2, <1>3
LEMMA ImportStored ==
  ASSUME QueueInv, NEW j \in DOMAIN jobs, db' = Rows(j, "importing")
  PROVE  Sound(db') /\ Grown(db, db') /\ Backed(db', JobReport(j).incidents, JobReport(j).alerts)
  <1> DEFINE report == JobReport(j)
             incidents == report.incidents
             alerts == report.alerts
  <1>1. Proper(incidents, alerts) /\ Sound(db)
    BY ReportProper DEF QueueInv
  <1>2. db' = Imported(db, incidents, alerts, {})
    BY DEF Rows
  <1> HIDE DEF incidents, alerts
  <1>3. \A f : LET i == Imported(db, incidents, alerts, f)
               IN  Sound(i) /\ Grown(db, i) /\ Backed(i, incidents, alerts)
    BY <1>1, ImportSound
  <1>4. Sound(db') /\ Grown(db, db') /\ Backed(db', incidents, alerts)
    BY <1>2, <1>3
  <1> QED BY <1>4 DEF incidents, alerts
LEMMA QueueImport ==
  ASSUME QueueInv, NEW j \in DOMAIN jobs, Import(j)
  PROVE  QueueInv'
  <1>1. /\ db' = Rows(j, "importing")
        /\ IF jobs[j].kind = "correlate" THEN jobs' = Dropped(j) ELSE Moves(j, "saving")
        /\ UNCHANGED <<scene, review, feeding, operator, decided>>
    BY DEF Import, Writes
  <1>2. Sound(db') /\ Grown(db, db') /\ Backed(db', JobReport(j).incidents, JobReport(j).alerts)
    BY <1>1, ImportStored
  <1>3. JobsSound'
    <2>1. CASE jobs[j].kind = "correlate"
      BY <1>1, <1>2, <2>1, DroppedSound DEF QueueInv
    <2>2. CASE jobs[j].kind # "correlate"
      <3>1. jobs' = [jobs EXCEPT ![j].step = "saving"]
        BY <1>1, <2>2 DEF Moves
      <3>2. ASSUME NEW k \in DOMAIN jobs', k # j PROVE k \in DOMAIN jobs /\ jobs'[k] = jobs[k]
        BY <3>1, <3>2
      <3>3. /\ JobReport(j).incidents = RecordedAll(FinalFindings(jobs[j].replay))
            /\ JobReport(j).alerts = Range(FinalFindings(jobs[j].replay))
        BY <2>2 DEF JobReport, Report
      <3>4. JobSound(j)'
        <4>1. JobSound(j) /\ jobs'[j] = [jobs[j] EXCEPT !.step = "saving"]
          BY <3>1 DEF QueueInv, JobsSound
        <4>2. Backed(db', RecordedAll(FinalFindings(jobs[j].replay)), Range(FinalFindings(jobs[j].replay)))
          BY <1>2, <3>3
        <4> QED BY <1>1, <2>2, <4>1, <4>2 DEF JobSound, Setup, Backed, FinalFindings
      <3> QED BY <1>1, <1>2, <3>2, <3>4, JobsKept DEF QueueInv
    <2> QED BY <2>1, <2>2
  <1> QED BY <1>1, <1>2, <1>3, QueueGrows
LEMMA QueueSave ==
  ASSUME QueueInv, NEW j \in DOMAIN jobs, Save(j)
  PROVE  QueueInv'
  <1> DEFINE report == JobReport(j)
  <1>1. /\ db' = Saved(db, j, report) /\ jobs' = Dropped(j) /\ jobs[j].step = "saving"
        /\ UNCHANGED <<scene, review, feeding, operator, decided>>
    BY DEF Save, Writes, Rows, Waits
  <1>2. JobSound(j)
    BY DEF QueueInv, JobsSound
  <1>3. Backed(db, report.incidents, report.alerts)
    <2>1. /\ jobs[j].kind # "correlate"
          /\ Backed(db, RecordedAll(FinalFindings(jobs[j].replay)), Range(FinalFindings(jobs[j].replay)))
      BY <1>1, <1>2 DEF JobSound
    <2> QED BY <2>1 DEF JobReport, Report
  <1> HIDE DEF report
  <1>4. Sound(db') /\ db'.incidents = db.incidents /\ db'.alerts = db.alerts
    BY <1>1, <1>3, SaveSound DEF QueueInv
  <1>5. Grown(db, db')
    BY <1>4 DEF Grown
  <1>6. JobsSound'
    BY <1>1, <1>5, DroppedSound DEF QueueInv
  <1> QED BY <1>1, <1>4, <1>5, <1>6, QueueGrows
LEMMA QueueObserve ==
  ASSUME QueueInv, NEW j \in DOMAIN jobs, Observe(j)
  PROVE  QueueInv'
  <1> DEFINE report == Provisional(j)
  <1>1. /\ jobs' = [jobs EXCEPT ![j].seen = @ + 1] /\ jobs[j].step = "reading"
        /\ db' = Saved(db, j, report) \/ db' = db
        /\ UNCHANGED <<scene, review, feeding, operator, decided>>
    BY DEF Observe, Waits, Writes, ProvisionalSave
  <1>2. report.status # "completed"
    BY DEF Provisional, Report
  <1> HIDE DEF report
  <1>3. Sound(db') /\ Grown(db, db')
    <2>1. CASE db' = db
      BY <2>1, SameRows DEF QueueInv
    <2>2. CASE db' = Saved(db, j, report)
      <3>1. Sound(db') /\ db'.incidents = db.incidents /\ db'.alerts = db.alerts
        BY <1>2, <2>2, SaveSound DEF QueueInv
      <3> QED BY <3>1 DEF Grown
    <2> QED BY <1>1, <2>1, <2>2
  <1>4. ASSUME NEW k \in DOMAIN jobs', k # j PROVE k \in DOMAIN jobs /\ jobs'[k] = jobs[k]
    BY <1>1, <1>4
  <1>5. JobSound(j)'
    <2>1. JobSound(j) /\ jobs'[j] = [jobs[j] EXCEPT !.seen = @ + 1]
      BY <1>1 DEF QueueInv, JobsSound
    <2> QED BY <1>1, <2>1 DEF JobSound, Setup
  <1>6. JobsSound'
    BY <1>1, <1>3, <1>4, <1>5, JobsKept DEF QueueInv
  <1> QED BY <1>1, <1>3, <1>6, QueueGrows
LEMMA QueueRestores ==
  ASSUME QueueInv, NEW j \in DOMAIN jobs, RestoreAlerts(j)
  PROVE  QueueInv'
  <1> DEFINE stored == {db.alerts[x].payload : x \in DOMAIN db.alerts}
  <1>1. /\ jobs' = [jobs EXCEPT ![j].base = stored, ![j].step = "importing"]
        /\ UNCHANGED <<scene, db, review, feeding, operator, decided>>
    BY DEF RestoreAlerts
  <1>2. /\ IsFiniteSet(stored) /\ \A a \in stored : Sourced(AllAlerts, a)
    <2>1. IsFiniteSet(DOMAIN db.alerts) /\ \A a \in DOMAIN db.alerts : Sourced(AllAlerts, db.alerts[a].payload)
      BY DEF QueueInv, Sound, AlertsSound, AlertSound
    <2> DEFINE rows == DOMAIN db.alerts
               f == [x \in rows |-> db.alerts[x].payload]
    <2>2. f \in Surjection(rows, stored)
      BY DEF Surjection
    <2>3. IsFiniteSet(rows)
      BY <2>1
    <2>4. IsFiniteSet(stored)
      <3> HIDE DEF stored, rows, f
      <3> QED BY <2>2, <2>3, FS_Surjection
    <2> QED BY <2>1, <2>4
  <1> HIDE DEF stored
  <1>3. ASSUME NEW k \in DOMAIN jobs', k # j PROVE k \in DOMAIN jobs /\ jobs'[k] = jobs[k]
    BY <1>1, <1>3
  <1>4. JobSound(j)'
    <2>1. JobSound(j) /\ jobs'[j] = [jobs[j] EXCEPT !.base = stored, !.step = "importing"]
      BY <1>1 DEF QueueInv, JobsSound
    <2> QED BY <1>1, <1>2, <2>1 DEF JobSound, Setup
  <1>5. JobsSound'
    BY <1>1, <1>3, <1>4, SameRows, JobsKept DEF QueueInv
  <1> QED BY <1>1, <1>5, QueueSame

LEMMA QueueLoads ==
  ASSUME QueueInv, NEW c, LoadDemo(c)
  PROVE  QueueInv'
  <1> DEFINE incidents == Legacy.incidents
             alerts == Legacy.alerts
             feedback == Legacy.feedback
  <1>1. /\ db' = Imported(db, incidents, alerts, feedback)
        /\ UNCHANGED <<scene, jobs, review, feeding, operator, decided>>
    BY DEF LoadDemo, Writes
  <1>2. Proper(incidents, alerts) /\ Sound(db)
    BY LegacyProper DEF QueueInv
  <1> HIDE DEF incidents, alerts, feedback
  <1>3. Sound(db') /\ Grown(db, db')
    BY <1>1, <1>2, ImportSound
  <1>4. JobsSound'
    BY <1>1, <1>3, GrownKeeps DEF QueueInv
  <1> QED BY <1>1, <1>3, <1>4, QueueGrows
LEMMA QueueRetires ==
  ASSUME QueueInv, NEW c, NEW run, Retire(c, run)
  PROVE  QueueInv'
  <1> DEFINE runs == [r \in DOMAIN db.runs \ {run} |-> db.runs[r]]
  <1>1. db' = [db EXCEPT !.runs = runs] /\ UNCHANGED <<scene, jobs, review, feeding, operator, decided>>
    BY DEF Retire, Writes, desk
  <1>2. /\ DOMAIN db' = Tables /\ db'.runs = runs
        /\ db'.incidents = db.incidents /\ db'.alerts = db.alerts
    <2> HIDE DEF runs
    <2> QED BY <1>1 DEF QueueInv, Sound, Tables
  <1>3. Listed(db') \subseteq Listed(db) /\ \A r \in Listed(db') : db'.runs[r] = db.runs[r]
    BY <1>2 DEF Listed
  <1>4. Sound(db')
    BY <1>2, <1>3 DEF QueueInv, Sound, IncidentsSound, AlertsSound, RunsSound, Backed
  <1>5. Grown(db, db')
    BY <1>2 DEF Grown
  <1>6. JobsSound'
    BY <1>1, <1>5, GrownKeeps DEF QueueInv
  <1> QED BY <1>1, <1>4, <1>5, <1>6, QueueGrows
LEMMA QueueFeedback ==
  ASSUME QueueInv, NEW c, NEW id, NEW d, Feedback(c, id, d)
  PROVE  QueueInv'
  <1>1. PICK new : db' = [db EXCEPT !.feedback = new]
    BY DEF Feedback, Writes
  <1>2. /\ DOMAIN db' = Tables /\ db'.runs = db.runs
        /\ db'.incidents = db.incidents /\ db'.alerts = db.alerts
    BY <1>1 DEF QueueInv, Sound, Tables
  <1>3. Sound(db')
    BY <1>2 DEF QueueInv, Sound, IncidentsSound, AlertsSound, RunsSound, Backed, Listed
  <1>4. Grown(db, db')
    BY <1>2 DEF Grown
  <1>5. UNCHANGED <<scene, jobs, review, feeding, operator, decided>>
    BY DEF Feedback
  <1>6. JobsSound'
    BY <1>4, <1>5, GrownKeeps DEF QueueInv
  <1> QED BY <1>3, <1>4, <1>5, <1>6, QueueGrows
LEMMA QueueExports ==
  ASSUME QueueInv, NEW c, NEW x, ExportRun(c, x) \/ ExportIncident(c, x)
  PROVE  QueueInv'
  <1>1. UNCHANGED <<scene, db, jobs, review, feeding, operator, decided>>
    BY DownloadKeeps
  <1>2. JobsSound'
    BY <1>1, SameRows, GrownKeeps DEF QueueInv
  <1> QED BY <1>1, <1>2, QueueSame
LEMMA QueueReads ==
  ASSUME QueueInv, NEW c, NEW id, NEW s, ReadForReview(c, id, s)
  PROVE  QueueInv'
  <1>1. PICK act : /\ id \in DOMAIN db.incidents
                   /\ review' = [by |-> {act}, id |-> id, status |-> s, payload |-> db.incidents[id].payload]
                   /\ UNCHANGED <<scene, db, jobs, feeding, operator, decided>>
    BY DEF ReadForReview
  <1>2. RowSound(db.incidents[id], id)
    BY <1>1 DEF QueueInv, Sound, IncidentsSound
  <1>3. ReviewSound'
    BY <1>1, <1>2 DEF ReviewSound, RowSound, OfFinal, Setup, Final, HasFeed, LiveReport
  <1>4. JobsSound' /\ DecidedSound'
    BY <1>1, SameRows, GrownKeeps DEF QueueInv
  <1>5. WorkerSound' /\ CopiesSound'
    BY <1>1, CopiesKept, WorkerKept DEF QueueInv
  <1> QED BY <1>1, <1>3, <1>4, <1>5, QueueFrom DEF QueueInv
LEMMA QueueWrites ==
  ASSUME QueueInv, WriteReview
  PROVE  QueueInv'
  <1> DEFINE id == review.id
             status == review.status
  <1>1. /\ review # None /\ review' = None
        /\ db' = Reviewed(db, id, review.payload, status) /\ decided' = Put(decided, id, status)
        /\ UNCHANGED <<scene, jobs, feeding, operator>>
    BY DEF WriteReview
  <1>2. /\ id \in DOMAIN db.incidents /\ Filed(review.payload, id) /\ OfFinal(review.payload) /\ Sound(db)
    BY <1>1 DEF QueueInv, ReviewSound
  <1> DEFINE row == [payload |-> [review.payload EXCEPT !.status = status], status |-> status]
  <1> HIDE DEF id, status
  <1>3. /\ Sound(db') /\ DOMAIN db'.incidents = DOMAIN db.incidents /\ db'.alerts = db.alerts
        /\ \A k \in DOMAIN db.incidents : db'.incidents[k] = IF k = id THEN row ELSE db.incidents[k]
    BY <1>1, <1>2, ReviewedSound
  <1>4. row.status = status
    OBVIOUS
  <1> HIDE DEF row
  <1>5. DecidedSound'
    BY <1>1, <1>2, <1>3, <1>4 DEF QueueInv, DecidedSound, Put
  <1>6. ASSUME NEW j \in DOMAIN jobs PROVE JobSound(j)'
    BY <1>1, <1>3 DEF QueueInv, JobsSound, JobSound, Setup, Backed, FinalFindings
  <1>7. JobsSound'
    BY <1>1, <1>6 DEF JobsSound
  <1>8. ReviewSound'
    BY <1>1 DEF ReviewSound
  <1>9. WorkerSound' /\ CopiesSound'
    BY <1>1, CopiesKept, WorkerKept DEF QueueInv
  <1> QED BY <1>1, <1>3, <1>5, <1>7, <1>8, <1>9, QueueFrom
LEMMA QueueRestarts ==
  ASSUME QueueInv, Restart
  PROVE  QueueInv'
  <1>1. /\ jobs' = <<>> /\ review' = None /\ db' \in {db, Backfilled(db)}
        /\ UNCHANGED <<scene, feeding, operator, decided>>
    BY DEF Restart
  <1>2. Sound(db') /\ Grown(db, db')
    BY <1>1, SameRows, BackfilledSound DEF QueueInv
  <1>3. JobsSound' /\ ReviewSound'
    BY <1>1 DEF JobsSound, ReviewSound
  <1>4. DecidedSound'
    BY <1>1, <1>2, GrownKeeps DEF QueueInv
  <1>5. WorkerSound' /\ CopiesSound'
    BY <1>1, CopiesKept, WorkerKept DEF QueueInv
  <1> QED BY <1>1, <1>2, <1>3, <1>4, <1>5, QueueFrom

LEMMA FeedLength ==
  ASSUME QueueInv, HasFeed
  PROVE  Setup.feed \in DOMAIN Replays /\ Len(Replays[Setup.feed].live) \in Nat
  <1>1. Setup.feed \in DOMAIN Replays
    BY DEF QueueInv, SettingSound, HasFeed
  <1> QED BY <1>1, ReplayAlerts, SeqFacts
LEMMA CommittedProper ==
  ASSUME QueueInv, Journalled
  PROVE  /\ Proper(CommittedReport.incidents, CommittedReport.alerts)
         /\ CommittedReport.incidents = LiveReport(journal.lines).incidents
         /\ CommittedReport.alerts = LiveReport(journal.lines).alerts
  <1>1. HasFeed /\ journal.lines \in 1..Len(Replays[Setup.feed].live)
    BY FeedLength DEF QueueInv, WorkerSound, LogSound, Journalled
  <1>2. Proper(LiveReport(journal.lines).incidents, LiveReport(journal.lines).alerts)
    BY <1>1, FeedLength, LiveProper
  <1>3. /\ CommittedReport.incidents = LiveReport(journal.lines).incidents
        /\ CommittedReport.alerts = LiveReport(journal.lines).alerts
    BY DEF CommittedReport, LiveReport, Report
  <1> QED BY <1>2, <1>3
LEMMA QueueDelivers ==
  ASSUME QueueInv, WorkerDelivers
  PROVE  QueueInv'
  <1>1. /\ Journalled /\ db' = Projected(db, LiveRun, CommittedReport)
        /\ UNCHANGED <<scene, jobs, review, feeding, operator, decided>>
    BY DEF WorkerDelivers, Writes, desk
  <1>2. Sound(db') /\ Grown(db, db')
    BY <1>1, CommittedProper, ProjectSound DEF QueueInv
  <1>3. JobsSound'
    BY <1>1, <1>2, GrownKeeps DEF QueueInv
  <1> QED BY <1>1, <1>2, <1>3, QueueGrows
LEMMA QueueWorker ==
  ASSUME QueueInv, WorkerOpens \/ WorkerCommits \/ WorkerStops
  PROVE  QueueInv'
  <1>1. UNCHANGED <<scene, db, jobs, review, operator, decided>>
    BY DEF WorkerOpens, WorkerCommits, WorkerStops, desk
  <1>2. WorkerSound'
    <2>1. CASE WorkerOpens
      BY <1>1, <2>1 DEF WorkerOpens, QueueInv, WorkerSound, LogSound, HasFeed, Setup
    <2>2. CASE WorkerCommits
      <3>1. /\ worker' = worker /\ journal' = [lines |-> journal.lines + 1, status |-> "following"]
            /\ HasFeed /\ journal.lines < Len(Replays[Setup.feed].live) /\ journal.lines \in Nat
        BY <2>2 DEF WorkerCommits, QueueInv, WorkerSound, LogSound
      <3> QED BY <1>1, <3>1, FeedLength DEF WorkerSound, LogSound, HasFeed, Setup
    <2>3. CASE WorkerStops
      <3>1. worker' = FALSE /\ (journal' = journal \/ journal' = [journal EXCEPT !.status = "failed"])
        BY <2>3 DEF WorkerStops
      <3>2. /\ journal'.lines = journal.lines
            /\ journal' = [lines |-> journal'.lines, status |-> journal'.status]
        BY <3>1 DEF QueueInv, WorkerSound, LogSound
      <3> QED BY <1>1, <3>1, <3>2 DEF QueueInv, WorkerSound, LogSound, HasFeed, Setup
    <2> QED BY <2>1, <2>2, <2>3
  <1>3. JobsSound' /\ ReviewSound' /\ DecidedSound'
    BY <1>1, SameRows, GrownKeeps DEF QueueInv
  <1>4. CopiesSound'
    BY <1>1, CopiesKept DEF QueueInv
  <1> QED BY <1>1, <1>2, <1>3, <1>4, QueueFrom DEF QueueInv

(* Copies are taken of the tables as they are.                             *)
LEMMA QueueCopies ==
  ASSUME RecoveryInv, QueueInv,
         FreezeForBackup \/ CopyJournal \/ CopyAnalyst \/ SealBundle \/ BackupFails \/ ReplaceCopy \/ Restore
  PROVE  QueueInv'
  <1>1. UNCHANGED <<scene, db, jobs, review, feeding, decided>>
    BY DEF FreezeForBackup, CopyJournal, CopyAnalyst, SealBundle, BackupFails, ReplaceCopy, Restore, desk
  <1>2. /\ backup' # None => /\ backup'.journal # None => LogSound(backup'.journal)
                             /\ backup'.analyst # None => backup'.journal # None /\ Sound(backup'.analyst)
        /\ bundle' # None => LogSound(bundle'.journal) /\ Sound(bundle'.analyst)
        /\ restored' # None => LogSound(restored'.journal) /\ Sound(restored'.analyst)
    <2>0. LogSound(journal) /\ Sound(db) /\ CopiesSound
      BY DEF QueueInv, WorkerSound
    <2>1. CASE FreezeForBackup
      BY <2>0, <2>1 DEF FreezeForBackup, CopiesSound
    <2>2. CASE CopyJournal
      BY <2>0, <2>2 DEF CopyJournal, CopiesSound, RecoveryInv, BackupAlone, Pair
    <2>3. CASE CopyAnalyst
      BY <2>0, <2>3 DEF CopyAnalyst, CopiesSound, RecoveryInv, BackupAlone, Pair
    <2>4. CASE SealBundle
      BY <2>0, <2>4 DEF SealBundle, CopiesSound
    <2>5. CASE BackupFails
      BY <2>0, <2>5 DEF BackupFails, CopiesSound
    <2>6. CASE ReplaceCopy
      BY <2>0, <2>6 DEF ReplaceCopy, CopiesSound, RecoveryInv, BundleNamed
    <2>7. CASE Restore
      BY <2>0, <2>7 DEF Restore, CopiesSound
    <2> QED BY <2>1, <2>2, <2>3, <2>4, <2>5, <2>6, <2>7
  <1>3. CopiesSound'
    <2> USE DEF LogSound, HasFeed, Setup
    <2>1. backup'.analyst # None /\ Sound(backup'.analyst) => Sound(backup.analyst)'
      BY <1>1 DEF Sound, IncidentsSound, RowSound, AlertsSound, AlertSound, RunsSound, OfFinal,
                  CollisionFree, Final, LiveReport
    <2>2. Sound(bundle'.analyst) => Sound(bundle.analyst)'
      BY <1>1 DEF Sound, IncidentsSound, RowSound, AlertsSound, AlertSound, RunsSound, OfFinal,
                  CollisionFree, Final, LiveReport
    <2>3. Sound(restored'.analyst) => Sound(restored.analyst)'
      BY <1>1 DEF Sound, IncidentsSound, RowSound, AlertsSound, AlertSound, RunsSound, OfFinal,
                  CollisionFree, Final, LiveReport
    <2> QED BY <1>1, <1>2, <2>1, <2>2, <2>3 DEF CopiesSound
  <1>4. JobsSound' /\ ReviewSound' /\ DecidedSound' /\ WorkerSound'
    BY <1>1, SameRows, GrownKeeps, WorkerKept DEF QueueInv
  <1> QED BY <1>1, <1>3, <1>4, QueueFrom DEF QueueInv
LEMMA QueueCutOver ==
  ASSUME QueueInv, CutOver
  PROVE  QueueInv'
  <1>1. /\ restored # None /\ db' = restored.analyst /\ journal' = restored.journal /\ ~worker
        /\ jobs' = <<>> /\ review' = None /\ restored' = None /\ bundle' = None /\ backup = None
        /\ decided' = [id \in DOMAIN decided \cap DOMAIN db'.incidents |-> db'.incidents[id].status]
        /\ UNCHANGED <<scene, worker, backup>>
    BY DEF CutOver
  <1>2. LogSound(journal') /\ Sound(db')
    BY <1>1 DEF QueueInv, CopiesSound
  <1>3. JobsSound' /\ ReviewSound' /\ DecidedSound' /\ CopiesSound'
    BY <1>1 DEF JobsSound, ReviewSound, DecidedSound, CopiesSound
  <1>4. WorkerSound'
    BY <1>1, <1>2 DEF WorkerSound, LogSound, HasFeed, Setup
  <1> QED BY <1>1, <1>2, <1>3, <1>4, QueueFrom

LEMMA QueueStep == RecoveryInv /\ QueueInv /\ [Next]_vars => QueueInv'
  <1> SUFFICES ASSUME RecoveryInv, QueueInv, [Next]_vars PROVE QueueInv'
    OBVIOUS
  <1>1. CASE \E c \in Setup.callers :
          \/ \E r \in Setup.replays : Upload(c, r) \/ Stream(c, r)
          \/ LoadDemo(c)
          \/ \E id \in DOMAIN db.incidents :
               \/ \E s \in Setup.statuses : ReadForReview(c, id, s)
               \/ \E d \in Setup.dispositions : Feedback(c, id, d)
               \/ ExportIncident(c, id)
          \/ \E r \in DOMAIN db.runs : Retire(c, r) \/ ExportRun(c, r)
    <2>1. PICK c \in Setup.callers :
          \/ \E r \in Setup.replays : Upload(c, r) \/ Stream(c, r)
          \/ LoadDemo(c)
          \/ \E id \in DOMAIN db.incidents :
               \/ \E s \in Setup.statuses : ReadForReview(c, id, s)
               \/ \E d \in Setup.dispositions : Feedback(c, id, d)
               \/ ExportIncident(c, id)
          \/ \E r \in DOMAIN db.runs : Retire(c, r) \/ ExportRun(c, r)
      BY <1>1
    <2>2. ASSUME NEW r, Upload(c, r) \/ Stream(c, r) PROVE QueueInv'
      BY <2>2, BegunSound DEF Upload, Stream
    <2> QED BY <2>1, <2>2, QueueLoads, QueueReads, QueueFeedback, QueueRetires, QueueExports
  <1>2. CASE \E r \in Setup.replays : Correlate(r)
    BY <1>2, BegunSound DEF Correlate
  <1>3. ASSUME NEW j \in DOMAIN jobs, StreamEnds(j) \/ Stops(j) PROVE QueueInv'
    <2>1. JobsSound'
      BY <1>3, SameRows, MovedSound, DroppedSound DEF StreamEnds, Stops, QueueInv
    <2> QED BY <1>3, <2>1, QueueSame DEF StreamEnds, Stops
  <1>4. CASE \E j \in DOMAIN jobs :
          RestoreAlerts(j) \/ Observe(j) \/ StreamEnds(j) \/ Import(j) \/ Save(j) \/ Stops(j)
    BY <1>3, <1>4, QueueRestores, QueueObserve, QueueImport, QueueSave
  <1>5. CASE Tick \/ UNCHANGED vars
    <2>1. UNCHANGED <<scene, db, jobs, review, feeding, operator, decided>>
      BY <1>5 DEF Tick, vars, desk
    <2>2. JobsSound'
      BY <2>1, SameRows, GrownKeeps DEF QueueInv
    <2> QED BY <2>1, <2>2, QueueSame
  <1>6. CASE WriteReview \/ Restart \/ WorkerDelivers \/ CutOver
    BY <1>6, QueueWrites, QueueRestarts, QueueDelivers, QueueCutOver
  <1>7. CASE WorkerOpens \/ WorkerCommits \/ WorkerStops
    BY <1>7, QueueWorker
  <1>8. CASE FreezeForBackup \/ CopyJournal \/ CopyAnalyst \/ SealBundle \/ BackupFails \/ ReplaceCopy \/ Restore
    BY <1>8, QueueCopies
  <1> QED BY <1>1, <1>2, <1>4, <1>5, <1>6, <1>7, <1>8 DEF Next

LEMMA QueueHolds == Spec => []QueueInv
  BY QueueInit, QueueStep, RecoveryHolds, PTL DEF Spec

(* What an analyst decided of an incident is what every reader is shown,   *)
(* however often its findings are projected again (api_store.py).          *)
THEOREM DecisionsAreKept == Spec => []DecisionsKept
  <1>1. ASSUME QueueInv, NEW id \in DOMAIN decided
        PROVE  /\ id \in DOMAIN db.incidents /\ Shown(db, id).status = decided[id]
               /\ Shown(db, id) \in Queue(db, decided[id])
    <2>1. id \in DOMAIN db.incidents /\ db.incidents[id].status = decided[id]
      BY <1>1 DEF QueueInv, DecidedSound
    <2>2. Filed(db.incidents[id].payload, id)
      BY <1>1, <2>1 DEF QueueInv, Sound, IncidentsSound, RowSound
    <2>3. Shown(db, id).status = decided[id]
      BY <2>1, <2>2 DEF Shown, Filed
    <2>4. Shown(db, id) \in Queue(db, decided[id])
      <3> DEFINE shown(k) == Shown(db, k)
      <3>1. Queue(db, decided[id]) =
              {shown(k) : k \in {i \in DOMAIN db.incidents : db.incidents[i].status = decided[id]}}
        BY DEF Queue
      <3> HIDE DEF shown
      <3>2. shown(id) \in Queue(db, decided[id])
        BY <2>1, <3>1
      <3> QED BY <3>2 DEF shown
    <2> QED BY <2>1, <2>3, <2>4
  <1>2. QueueInv => DecisionsKept
    BY <1>1 DEF DecisionsKept
  <1> QED BY <1>2, QueueHolds, PTL

(* A run listed as completed has all its findings in the queue, and the    *)
(* queue has only findings of whole sessions, or of a command line's       *)
(* correlation (analysis_service.py, demo.py, streaming_demo.py).          *)
THEOREM QueueAgrees == Spec => []QueueMatchesRuns
  <1>1. QueueInv => CompletedBacked
    BY DEF QueueInv, Sound, RunsSound, Backed, CompletedBacked
  <1>2. QueueInv => FinalOnly
    BY DEF QueueInv, Sound, IncidentsSound, RowSound, OfFinal, FinalOnly
  <1>3. QueueInv => QueueMatchesRuns
    BY <1>1, <1>2 DEF QueueMatchesRuns
  <1> QED BY <1>3, QueueHolds, PTL

-----------------------------------------------------------------------------
(* What a signed store's queue shows.                                      *)

(* A review holds the write lock from its read to its write, so its        *)
(* payload is still the row's; a backup holds it too.                      *)
Guarded ==
  /\ Setup.signed /\ review # None =>
       lock = "review" /\ review.payload = db.incidents[review.id].payload
  /\ backup # None => lock = "backup"
CurrentIn(tables, last) ==
  /\ DOMAIN last = DOMAIN tables.incidents
  /\ Setup.signed =>
       \A id \in DOMAIN tables.incidents : Stripped(tables.incidents[id].payload) = Stripped(last[id])
CurrentInv == Guarded /\ CurrentIn(db, projected)

LEMMA CurrentInit == Init => CurrentInv
  <1> SUFFICES ASSUME Init PROVE CurrentInv
    OBVIOUS
  <1>1. review = None /\ backup = None /\ projected = [id \in DOMAIN db.incidents |-> db.incidents[id].payload]
    BY DEF Init
  <1> QED BY <1>1 DEF CurrentInv, Guarded, CurrentIn

(* What is published is what is imported, conclusions aside.               *)
LEMMA ImportedCurrent ==
  ASSUME Sound(db), CurrentIn(db, projected), NEW incidents, NEW alerts, Proper(incidents, alerts), NEW feedback,
         NEW last,
         last = [id \in DOMAIN projected \cup {i.id : i \in incidents} |->
                   IF \E i \in incidents : i.id = id THEN CHOOSE i \in incidents : i.id = id ELSE projected[id]]
  PROVE  CurrentIn(Imported(db, incidents, alerts, feedback), last)
  <1> DEFINE new == Imported(db, incidents, alerts, feedback)
             ids == {a.id : a \in alerts}
             concluded == {ConclusionOf(i, ids) : i \in incidents}
             named == {i.id : i \in incidents}
  <1>1. StoredAs(new.incidents, db.incidents, concluded)
    <2>1. ImportedAs(new, db, incidents, alerts)
      BY ImportedTables DEF Sound
    <2> HIDE DEF new
    <2>2. new.incidents = Stored(db.incidents, concluded)
      BY <2>1 DEF ImportedAs
    <2> HIDE DEF concluded
    <2> QED BY <2>2, StoredRows
  <1> HIDE DEF new
  <1>2. ASSUME NEW i \in incidents
        PROVE  ConclusionOf(i, ids).id = i.id /\ Stripped(ConclusionOf(i, ids)) = Stripped(i)
    <2>1. {"id", "members"} \subseteq DOMAIN i /\ Filed(i, i.id)
      BY DEF Proper
    <2> HIDE DEF ids
    <2> QED BY <2>1, Concluded DEF Filed
  <1>3. {c.id : c \in concluded} = named
    <2>1. ASSUME NEW i \in incidents PROVE i.id \in {c.id : c \in concluded}
      <3> DEFINE c == ConclusionOf(i, ids)
      <3>1. c \in concluded /\ c.id = i.id
        BY <1>2
      <3> HIDE DEF c, concluded
      <3> QED BY <3>1
    <2>2. \A c \in concluded : c.id \in named
      BY <1>2
    <2> HIDE DEF concluded
    <2> QED BY <2>1, <2>2
  <1>4. /\ DOMAIN last = DOMAIN projected \cup named
        /\ \A id \in DOMAIN last :
             \/ last[id] \in incidents /\ last[id].id = id
             \/ id \in DOMAIN projected /\ last[id] = projected[id] /\ \A i \in incidents : i.id # id
    <2>1. ASSUME NEW id, \E i \in incidents : i.id = id
          PROVE  LET i == CHOOSE i \in incidents : i.id = id IN i \in incidents /\ i.id = id
      BY <2>1
    <2> QED BY <2>1
  <1>5. DOMAIN last = DOMAIN new.incidents
    BY <1>1, <1>3, <1>4 DEF StoredAs, CurrentIn
  <1>6. ASSUME Setup.signed, NEW id \in DOMAIN new.incidents
        PROVE  Stripped(new.incidents[id].payload) = Stripped(last[id])
    <2>1. CASE \E i \in incidents : i.id = id
      <3>1. last[id] \in incidents /\ last[id].id = id
        BY <1>4, <1>5, <2>1
      <3>2. PICK i \in incidents : i.id = id /\ new.incidents[id].payload = ConclusionOf(i, ids)
        <4>1. \E c \in concluded : c.id = id
          BY <1>2, <2>1
        <4>2. PICK c \in concluded : c.id = id /\ new.incidents[id].payload = c
          <5> HIDE DEF concluded
          <5>1. DOMAIN new.incidents = DOMAIN db.incidents \cup {i.id : i \in concluded}
            BY <1>1 DEF StoredAs
          <5>2. \/ \E c \in concluded :
                     /\ c.id = id
                     /\ new.incidents[id] =
                          [payload |-> c,
                           status |-> IF id \in DOMAIN db.incidents THEN db.incidents[id].status ELSE c.status]
                \/ \A c \in concluded : c.id # id
            BY <1>1 DEF StoredAs
          <5>3. PICK c \in concluded :
                  c.id = id /\ \E status : new.incidents[id] = [payload |-> c, status |-> status]
            BY <4>1, <5>2
          <5>4. new.incidents[id].payload = c
            BY <5>3
          <5> QED BY <5>3, <5>4
        <4> QED BY <1>2, <4>2
      <3>3. i = last[id]
        BY <3>1, <3>2 DEF Proper
      <3> QED BY <1>2, <3>2, <3>3
    <2>2. CASE ~ \E i \in incidents : i.id = id
      <3>1. id \in DOMAIN projected /\ last[id] = projected[id]
        BY <1>4, <1>5, <2>2
      <3>2. ~ \E c \in concluded : c.id = id
        BY <1>2, <2>2
      <3>3. id \in DOMAIN db.incidents /\ new.incidents[id] = db.incidents[id]
        <4> HIDE DEF concluded
        <4> QED BY <1>1, <3>2 DEF StoredAs
      <3> QED BY <1>6, <3>1, <3>3 DEF CurrentIn
    <2> QED BY <2>1, <2>2
  <1> QED BY <1>5, <1>6 DEF CurrentIn, new

(* Writes wait for the lock, so in a signed store for any review.          *)
LEMMA Waited ==
  ASSUME CurrentInv, UNCHANGED <<scene, review, backup, lock>>, Unlocked
  PROVE  Guarded'
  <1>1. backup = None /\ (Setup.signed => review = None)
    BY NamesAssumption DEF CurrentInv, Guarded, Unlocked
  <1> QED BY <1>1 DEF Guarded, Setup
LEMMA CurrentNow ==
  ASSUME UNCHANGED scene, CurrentIn(db', projected')
  PROVE  CurrentIn(db, projected)'
  BY DEF CurrentIn, Setup
LEMMA CurrentSame ==
  ASSUME CurrentInv, UNCHANGED <<scene, projected>>, db'.incidents = db.incidents
  PROVE  CurrentIn(db, projected)'
  BY DEF CurrentInv, CurrentIn, Setup
LEMMA GuardedSame ==
  ASSUME CurrentInv, UNCHANGED <<scene, review, backup, lock>>, db'.incidents = db.incidents
  PROVE  Guarded'
  BY DEF CurrentInv, Guarded, Setup

LEMMA CurrentImport ==
  ASSUME QueueInv, CurrentInv, NEW j \in DOMAIN jobs, Import(j)
  PROVE  CurrentInv'
  <1> DEFINE incidents == JobReport(j).incidents
             alerts == JobReport(j).alerts
  <1>1. /\ Unlocked /\ db' = Imported(db, incidents, alerts, {}) /\ UNCHANGED <<scene, review, backup, lock>>
    BY DEF Import, Writes, Rows, operator
  <1>2. projected' = [id \in DOMAIN projected \cup {i.id : i \in incidents} |->
                   IF \E i \in incidents : i.id = id THEN CHOOSE i \in incidents : i.id = id ELSE projected[id]]
    BY DEF Import, Publishes
  <1>3. Proper(incidents, alerts)
    BY ReportProper
  <1> HIDE DEF incidents, alerts
  <1>4. CurrentIn(db', projected')
    BY <1>1, <1>2, <1>3, ImportedCurrent DEF QueueInv, CurrentInv
  <1> QED BY <1>1, <1>4, Waited, CurrentNow DEF CurrentInv
LEMMA CurrentLoads ==
  ASSUME QueueInv, CurrentInv, NEW c, LoadDemo(c)
  PROVE  CurrentInv'
  <1> DEFINE incidents == Legacy.incidents
             alerts == Legacy.alerts
             feedback == Legacy.feedback
  <1>1. /\ Unlocked /\ db' = Imported(db, incidents, alerts, feedback) /\ UNCHANGED <<scene, review, backup, lock>>
    BY DEF LoadDemo, Writes, operator
  <1>2. projected' = [id \in DOMAIN projected \cup {i.id : i \in incidents} |->
                   IF \E i \in incidents : i.id = id THEN CHOOSE i \in incidents : i.id = id ELSE projected[id]]
    BY DEF LoadDemo, Publishes
  <1>3. Proper(incidents, alerts)
    BY LegacyProper
  <1> HIDE DEF incidents, alerts, feedback
  <1>4. CurrentIn(db', projected')
    BY <1>1, <1>2, <1>3, ImportedCurrent DEF QueueInv, CurrentInv
  <1> QED BY <1>1, <1>4, Waited, CurrentNow DEF CurrentInv
LEMMA CurrentDelivers ==
  ASSUME QueueInv, CurrentInv, WorkerDelivers
  PROVE  CurrentInv'
  <1> DEFINE incidents == CommittedReport.incidents
             alerts == CommittedReport.alerts
             e == Imported(db, incidents, alerts, {})
  <1>1. /\ Unlocked /\ db' = Saved(e, LiveRun, CommittedReport) /\ Journalled
        /\ UNCHANGED <<scene, review, backup, lock>>
    BY DEF WorkerDelivers, Writes, Projected, desk, operator
  <1>2. projected' = [id \in DOMAIN projected \cup {i.id : i \in incidents} |->
                   IF \E i \in incidents : i.id = id THEN CHOOSE i \in incidents : i.id = id ELSE projected[id]]
    BY DEF WorkerDelivers, Publishes
  <1>3. Proper(incidents, alerts)
    BY <1>1, CommittedProper
  <1>4. CurrentIn(e, projected') /\ DOMAIN e = Tables
    <2> HIDE DEF incidents, alerts
    <2>1. \A f : CurrentIn(Imported(db, incidents, alerts, f), projected')
      BY <1>2, <1>3, ImportedCurrent DEF QueueInv, CurrentInv
    <2>2. DOMAIN e = Tables
      <3>1. \A f : DOMAIN Imported(db, incidents, alerts, f) = Tables
        BY ImportedFeedback DEF QueueInv, Sound
      <3> QED BY <3>1
    <2> QED BY <2>1, <2>2
  <1> HIDE DEF e, incidents, alerts
  <1>5. db'.incidents = e.incidents
    BY <1>1, <1>4 DEF Saved, Tables
  <1>6. CurrentIn(db', projected')
    BY <1>4, <1>5 DEF CurrentIn
  <1> QED BY <1>1, <1>6, Waited, CurrentNow DEF CurrentInv
LEMMA CurrentWrites ==
  ASSUME QueueInv, CurrentInv, WriteReview
  PROVE  CurrentInv'
  <1> DEFINE id == review.id
             status == review.status
             row == [payload |-> [review.payload EXCEPT !.status = status], status |-> status]
  <1>1. /\ review # None /\ review' = None /\ lock \in {None, "review"}
        /\ db' = Reviewed(db, id, review.payload, status) /\ UNCHANGED <<scene, backup, projected>>
    BY DEF WriteReview, operator
  <1>2. /\ id \in DOMAIN db.incidents /\ Filed(review.payload, id) /\ OfFinal(review.payload) /\ Sound(db)
    BY <1>1 DEF QueueInv, ReviewSound
  <1>3. Setup.signed => review.payload = db.incidents[id].payload
    BY <1>1 DEF CurrentInv, Guarded
  <1> HIDE DEF id, status
  <1>4. /\ DOMAIN db'.incidents = DOMAIN db.incidents
        /\ \A k \in DOMAIN db.incidents : db'.incidents[k] = IF k = id THEN row ELSE db.incidents[k]
        /\ Stripped(row.payload) = Stripped(review.payload)
    BY <1>1, <1>2, ReviewedSound
  <1> HIDE DEF row
  <1>5. CurrentIn(db', projected')
    BY <1>1, <1>3, <1>4 DEF CurrentInv, CurrentIn
  <1>6. backup = None
    BY <1>1, NamesAssumption DEF CurrentInv, Guarded
  <1>7. Guarded'
    BY <1>1, <1>6 DEF Guarded
  <1> QED BY <1>1, <1>5, <1>7, CurrentNow DEF CurrentInv

(* Steps that change no incident.                                          *)
LEMMA CurrentStill ==
  ASSUME CurrentInv, UNCHANGED <<scene, projected, review, backup, lock>>, db'.incidents = db.incidents
  PROVE  CurrentInv'
  BY CurrentSame, GuardedSame DEF CurrentInv
LEMMA CurrentStep == QueueInv /\ CurrentInv /\ [Next]_vars => CurrentInv'
  <1> SUFFICES ASSUME QueueInv, CurrentInv, [Next]_vars PROVE CurrentInv'
    OBVIOUS
  <1> USE DEF operator, feeding, desk
  <1>0. DOMAIN db = Tables
    BY DEF QueueInv, Sound
  <1>1. ASSUME NEW c, NEW r, Upload(c, r) \/ Stream(c, r) \/ Correlate(r) PROVE CurrentInv'
    BY <1>1, CurrentStill DEF Upload, Stream, Correlate, Begin
  <1>2. ASSUME NEW c, NEW id, NEW s, ReadForReview(c, id, s) PROVE CurrentInv'
    <2>1. PICK act : /\ LocksReview(Setup.signed) => Unlocked
                     /\ lock' = IF LocksReview(Setup.signed) THEN "review" ELSE lock
                     /\ review' = [by |-> {act}, id |-> id, status |-> s, payload |-> db.incidents[id].payload]
                     /\ UNCHANGED <<scene, db, backup, projected>>
      BY <1>2 DEF ReadForReview
    <2>2. Guarded'
      BY <2>1, NamesAssumption DEF CurrentInv, Guarded, LocksReview, Unlocked, Setup
    <2> QED BY <2>1, <2>2, CurrentSame DEF CurrentInv
  <1>3. ASSUME NEW c, NEW id, NEW d, Feedback(c, id, d) PROVE CurrentInv'
    <2>1. PICK new : db' = [db EXCEPT !.feedback = new]
      BY <1>3 DEF Feedback, Writes
    <2>2. db'.incidents = db.incidents
      BY <1>0, <2>1 DEF Tables
    <2> QED BY <1>3, <2>2, CurrentStill DEF Feedback
  <1>4. ASSUME NEW c, NEW r, Retire(c, r) PROVE CurrentInv'
    <2>1. db' = [db EXCEPT !.runs = [x \in DOMAIN @ \ {r} |-> @[x]]]
      BY <1>4 DEF Retire, Writes
    <2>2. db'.incidents = db.incidents
      BY <1>0, <2>1 DEF Tables
    <2> QED BY <1>4, <2>2, CurrentStill DEF Retire
  <1>5. ASSUME NEW j \in DOMAIN jobs, RestoreAlerts(j) \/ StreamEnds(j) \/ Stops(j) PROVE CurrentInv'
    BY <1>5, CurrentStill DEF RestoreAlerts, StreamEnds, Stops
  <1>6. ASSUME NEW j \in DOMAIN jobs, Observe(j) \/ Save(j) PROVE CurrentInv'
    <2>1. db' = db \/ \E report : db' = Saved(db, j, report)
      BY <1>6 DEF Observe, Save, Writes, ProvisionalSave, Rows
    <2>2. db'.incidents = db.incidents
      BY <1>0, <2>1 DEF Saved, Tables
    <2> QED BY <1>6, <2>2, CurrentStill DEF Observe, Save
  (* A backfill draws conclusions in plain stores only.                    *)
  <1>7. CASE Restart
    <2>1. /\ review' = None /\ lock' = (IF lock = "review" THEN None ELSE lock)
          /\ db' = (IF Setup.signed THEN db ELSE Backfilled(db)) /\ UNCHANGED <<scene, backup, projected>>
      BY <1>7 DEF Restart
    <2>2. Guarded'
      BY <2>1, NamesAssumption DEF CurrentInv, Guarded
    <2>3. DOMAIN db'.incidents = DOMAIN db.incidents
      <3>1. CASE Setup.signed
        BY <2>1, <3>1
      <3>2. CASE ~Setup.signed
        <4> DEFINE row(id) == [db.incidents[id] EXCEPT !.payload =
                                 ConclusionOf(db.incidents[id].payload, DOMAIN db.alerts)]
        <4>1. db' = [db EXCEPT !.incidents = [id \in DOMAIN db.incidents |-> row(id)]]
          BY <2>1, <3>2 DEF Backfilled
        <4> HIDE DEF row
        <4> QED BY <1>0, <4>1 DEF Tables
      <3> QED BY <3>1, <3>2
    <2>4. CurrentIn(db, projected)'
      BY <2>1, <2>3 DEF CurrentInv, CurrentIn, Setup
    <2> QED BY <2>2, <2>4 DEF CurrentInv
  <1>8. CASE Tick \/ WorkerOpens \/ WorkerCommits \/ WorkerStops \/ CopyJournal \/ CopyAnalyst
             \/ ReplaceCopy \/ Restore \/ UNCHANGED vars
    <2>1. UNCHANGED <<scene, projected, review, lock, db>>
      BY <1>8 DEF Tick, WorkerOpens, WorkerCommits, WorkerStops, CopyJournal, CopyAnalyst, ReplaceCopy, Restore, vars
    <2>2. backup' = backup \/ backup # None
      BY <1>8 DEF Tick, WorkerOpens, WorkerCommits, WorkerStops, CopyJournal, CopyAnalyst, ReplaceCopy, Restore, vars
    <2>3. Guarded'
      BY <2>1, <2>2 DEF CurrentInv, Guarded, Setup
    <2> QED BY <2>1, <2>3, CurrentSame DEF CurrentInv
  <1>9. CASE FreezeForBackup \/ SealBundle \/ BackupFails
    <2>1. UNCHANGED <<scene, projected, review, db>>
      BY <1>9 DEF FreezeForBackup, SealBundle, BackupFails
    <2>2. Setup.signed => review = None
      BY <1>9, NamesAssumption DEF FreezeForBackup, SealBundle, BackupFails, CurrentInv, Guarded, Unlocked
    <2>3. backup' # None => lock' = "backup"
      BY <1>9 DEF FreezeForBackup, SealBundle, BackupFails
    <2>4. Guarded'
      BY <2>1, <2>2, <2>3 DEF Guarded, Setup
    <2> QED BY <2>1, <2>4, CurrentSame DEF CurrentInv
  <1>10. CASE CutOver
    <2>1. /\ review' = None /\ backup' = None /\ scene' = scene
          /\ projected' = [id \in DOMAIN db'.incidents |-> db'.incidents[id].payload]
      BY <1>10 DEF CutOver
    <2>2. Guarded' /\ CurrentIn(db', projected')
      BY <2>1 DEF Guarded, CurrentIn
    <2> QED BY <2>1, <2>2, CurrentNow DEF CurrentInv
  <1>11. CASE \E c \in Setup.callers :
          \/ \E r \in Setup.replays : Upload(c, r) \/ Stream(c, r)
          \/ LoadDemo(c)
          \/ \E id \in DOMAIN db.incidents :
               \/ \E s \in Setup.statuses : ReadForReview(c, id, s)
               \/ \E d \in Setup.dispositions : Feedback(c, id, d)
               \/ ExportIncident(c, id)
          \/ \E r \in DOMAIN db.runs : Retire(c, r) \/ ExportRun(c, r)
    <2>1. PICK c \in Setup.callers :
          \/ \E r \in Setup.replays : Upload(c, r) \/ Stream(c, r)
          \/ LoadDemo(c)
          \/ \E id \in DOMAIN db.incidents :
               \/ \E s \in Setup.statuses : ReadForReview(c, id, s)
               \/ \E d \in Setup.dispositions : Feedback(c, id, d)
               \/ ExportIncident(c, id)
          \/ \E r \in DOMAIN db.runs : Retire(c, r) \/ ExportRun(c, r)
      BY <1>11
    <2>2. ASSUME NEW x, ExportRun(c, x) \/ ExportIncident(c, x) PROVE CurrentInv'
      BY <2>2, DownloadKeeps, CurrentStill
    <2> QED BY <2>1, <2>2, <1>1, <1>2, <1>3, <1>4, CurrentLoads
  <1>12. CASE \E j \in DOMAIN jobs :
          RestoreAlerts(j) \/ Observe(j) \/ StreamEnds(j) \/ Import(j) \/ Save(j) \/ Stops(j)
    BY <1>12, <1>5, <1>6, CurrentImport
  <1>13. CASE WriteReview \/ WorkerDelivers
    BY <1>13, CurrentWrites, CurrentDelivers
  <1> QED BY <1>1, <1>7, <1>8, <1>9, <1>10, <1>11, <1>12, <1>13 DEF Next

LEMMA CurrentHolds == Spec => []CurrentInv
  BY CurrentInit, CurrentStep, QueueHolds, PTL DEF Spec

(* An incident of a signed store shows what was projected last, whatever   *)
(* reviews ran meanwhile (api_store.py: set_status under the immediate     *)
(* lock); where alert ids name their sources, which several captures'      *)
(* alerts correlated on the command line need not, it shows no evidence of *)
(* another source (api_store.py: get_incident).                            *)
THEOREM QueueIsCurrent ==
  Spec => []/\ Setup.signed => \A id \in DOMAIN db.incidents :
                                 Stripped(db.incidents[id].payload) = Stripped(projected[id])
            /\ CollisionFree => QueueCurrent
  <1> DEFINE Shows == Setup.signed => \A id \in DOMAIN db.incidents :
                                        Stripped(db.incidents[id].payload) = Stripped(projected[id])
  <1>1. CurrentInv => Shows
    BY DEF CurrentInv, CurrentIn
  <1>2. ASSUME QueueInv, CollisionFree, NEW id \in DOMAIN db.incidents, NEW a \in Evidence(db, id)
        PROVE  db.alerts[a].payload.src = db.incidents[id].payload.src
    <2>1. a \in DOMAIN db.alerts /\ db.alerts[a].incident = {id}
      BY <1>2 DEF Evidence
    <2>2. AlertSound(db.alerts[a]) /\ RowSound(db.incidents[id], id)
      BY <1>2, <2>1 DEF QueueInv, Sound, AlertsSound, IncidentsSound
    <2>3. id \in db.alerts[a].incident
      BY <2>1
    <2> QED BY <1>2, <2>2, <2>3 DEF AlertSound, RowSound, Filed
  <1>3. QueueInv /\ CurrentInv => (CollisionFree => QueueCurrent)
    BY <1>1, <1>2 DEF QueueCurrent
  <1>4. QueueInv /\ CurrentInv => Shows /\ (CollisionFree => QueueCurrent)
    BY <1>1, <1>3
  <1> QED BY <1>4, QueueHolds, CurrentHolds, PTL
=============================================================================
