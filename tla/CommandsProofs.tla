--------------------------- MODULE CommandsProofs ---------------------------
(***************************************************************************)
(* The operator's commands: what a restoration's receipt vouches for, for  *)
(* any bundles, places, writes of the service and changes of files; what a *)
(* promoted model has earned, for any corpora, scores and changes; what a  *)
(* session runs; what a replay says of its input and gives to a session,   *)
(* for any inputs, limits and lengths; and what a benchmark's report is    *)
(* worth, for any corpora, labels and analyses.                            *)
(***************************************************************************)
EXTENDS AnalystRecovery, Deployment, Intake, Benchmark, SequenceProofs, WellFoundedInduction

-----------------------------------------------------------------------------
(* Recovery of the analyst store: the inductive invariant.                 *)

Db        == [rows : Int, signed : Int]
Manifest  == [head : Int, db : Db, rows : Int]
Directory == [made : BOOLEAN, db : Db, head : Int, manifest : Manifest]
Restored  == [made : BOOLEAN, db : Db, receipt : Manifest]

Copying   == [step : {"copy", "verify"}, bundle : Bundles]
Measuring == [step : {"measure"}, bundle : Bundles, head : Int, rows : Int]
Writing   == [step : {"head", "manifest"}, bundle : Bundles, manifest : Manifest]
Restoral  == [step : {"fetch", "check", "receipt"}, bundle : Bundles, place : Places,
              manifest : Manifest, expected : Int]
Command   == {Ready} \cup Copying \cup Measuring \cup Writing \cup Restoral

Typed ==
  /\ live \in Db /\ bundle \in [Bundles -> Directory] /\ place \in [Places -> Restored]
  /\ operator \in Command /\ heads \in SUBSET Int /\ faults \in Nat

(* A directory that was not made holds nothing.                            *)
Unmade ==
  /\ \A b \in Bundles : ~bundle[b].made => bundle[b].manifest = NoMeta
  /\ \A p \in Places : ~place[p].made => place[p].receipt = NoMeta

(* A backup fills a directory it made.                                     *)
BackupMade == operator \in Copying \cup Measuring \cup Writing => bundle[operator.bundle].made

(* A restoration fills a place of its own, which has no receipt yet; when  *)
(* it is about to write one, it has checked what it copied.                *)
RestoralBacked ==
  operator \in Restoral =>
    /\ place[operator.place].made /\ place[operator.place].receipt = NoMeta
    /\ operator.expected \in heads /\ operator.manifest.head = operator.expected
    /\ operator.step = "receipt" => place[operator.place].db = Store(operator.expected)

Certified ==
  \A p \in Places :
    place[p].receipt # NoMeta =>
      place[p].receipt.head \in heads /\ place[p].db = Store(place[p].receipt.head)

(* In a bundle that nobody touches a backup is at work on a directory that *)
(* has no manifest, with the facts of the copy it verified.                *)
Genuine(b) ==
  LET m == bundle[b].manifest
  IN  m # NoMeta => bundle[b].head = m.head /\ Sound(bundle[b].db, m, m.head)
Fresh == bundle[operator.bundle].manifest = NoMeta
CopyingFresh   == operator \in Copying => Fresh
MeasuringFresh ==
  operator \in Measuring =>
    /\ Fresh /\ VerifiedStore(bundle[operator.bundle].db)
    /\ operator.head = bundle[operator.bundle].db.signed
    /\ operator.rows = bundle[operator.bundle].db.rows
WritingFresh   ==
  operator \in Writing =>
    /\ Fresh /\ Sound(bundle[operator.bundle].db, operator.manifest, operator.manifest.head)
    /\ operator.step = "manifest" => bundle[operator.bundle].head = operator.manifest.head
Untouched ==
  faults = 0 => (\A b \in Bundles : Genuine(b)) /\ CopyingFresh /\ MeasuringFresh /\ WritingFresh

RestoreInv == Typed /\ Unmade /\ BackupMade /\ RestoralBacked /\ Certified /\ Untouched

-----------------------------------------------------------------------------
(* The kinds of command are told apart by their steps.                     *)

LEMMA Kinds ==
  /\ Ready \notin Copying \cup Measuring \cup Writing \cup Restoral
  /\ \A x \in Copying : x \notin Measuring \cup Writing \cup Restoral /\ x.step \in {"copy", "verify"}
  /\ \A x \in Measuring : x \notin Copying \cup Writing \cup Restoral /\ x.step = "measure"
  /\ \A x \in Writing : x \notin Copying \cup Measuring \cup Restoral /\ x.step \in {"head", "manifest"}
  /\ \A x \in Restoral :
       x \notin Copying \cup Measuring \cup Writing /\ x.step \in {"fetch", "check", "receipt"}
  <1>1. \A x \in Copying : x.step \in {"copy", "verify"}
    BY DEF Copying
  <1>2. \A x \in Measuring : x.step = "measure"
    BY DEF Measuring
  <1>3. \A x \in Writing : x.step \in {"head", "manifest"}
    BY DEF Writing
  <1>4. \A x \in Restoral : x.step \in {"fetch", "check", "receipt"}
    BY DEF Restoral
  <1>5. Ready.step = "ready"
    BY DEF Ready
  <1> QED BY <1>1, <1>2, <1>3, <1>4, <1>5

LEMMA StepKind ==
  ASSUME Typed, NEW s, AtStep(s)
  PROVE  /\ operator.step = s
         /\ s \in {"copy", "verify"} => operator \in Copying
         /\ s = "measure" => operator \in Measuring
         /\ s \in {"head", "manifest"} => operator \in Writing
         /\ s \in {"fetch", "check", "receipt"} => operator \in Restoral
  BY Kinds DEF Typed, Command, AtStep

LEMMA Shapes == Missing \in Db /\ NoMeta \in Manifest /\ \A n \in Int : Store(n) \in Db
  BY DEF Missing, Db, NoMeta, Manifest, Store

LEMMA RestoreInit == RecoveryInit => RestoreInv
  <1> SUFFICES ASSUME RecoveryInit PROVE RestoreInv
    OBVIOUS
  <1>1. Typed
    BY Shapes DEF RecoveryInit, Typed, Command, Directory, Restored, NoDirectory, NoPlace
  <1>2. Unmade /\ Certified /\ \A b \in Bundles : Genuine(b)
    BY DEF RecoveryInit, Unmade, Certified, Genuine, NoDirectory, NoPlace
  <1>3. BackupMade /\ RestoralBacked /\ CopyingFresh /\ MeasuringFresh /\ WritingFresh
    BY Kinds DEF RecoveryInit, BackupMade, RestoralBacked, CopyingFresh, MeasuringFresh, WritingFresh
  <1> QED BY <1>1, <1>2, <1>3 DEF RestoreInv, Untouched

-----------------------------------------------------------------------------
(* A backup, step by step.                                                 *)

(* Backups and faults do not touch what restorations made.                 *)
LEMMA RestoralsAlone ==
  ASSUME RestoreInv, UNCHANGED <<place, operator>>, heads \subseteq heads'
  PROVE  RestoralBacked' /\ Certified'
  BY DEF RestoreInv, RestoralBacked, Certified

(* A backup's command is no restoration.                                   *)
LEMMA BackupAlone ==
  ASSUME RestoreInv, UNCHANGED <<place, heads>>, operator' \notin Restoral
  PROVE  RestoralBacked' /\ Certified'
  BY DEF RestoreInv, RestoralBacked, Certified

LEMMA BackupStep ==
  ASSUME RestoreInv,
         \/ \E b \in Bundles : MakeBundle(b)
         \/ CopyStore \/ CopyExpires \/ VerifyCopy \/ MeasureCopy \/ WriteHead \/ WriteManifest
  PROVE  RestoreInv'
  <1> USE DEF RestoreInv
  <1>1. ASSUME NEW b \in Bundles, MakeBundle(b) PROVE RestoreInv'
    <2>1. /\ bundle' = [bundle EXCEPT ![b].made = TRUE] /\ bundle[b].manifest = NoMeta
          /\ operator' = [step |-> "copy", bundle |-> b] /\ UNCHANGED <<live, place, heads, faults>>
      BY <1>1 DEF MakeBundle, Step, Unmade
    <2>2. operator' \in Copying
      BY <2>1 DEF Copying
    <2>3. Typed'
      BY <2>1, <2>2 DEF Typed, Directory, Command
    <2>4. Unmade' /\ BackupMade'
      BY <2>1, <2>2, Kinds DEF Unmade, BackupMade, Typed, Directory, Copying, Measuring, Writing
    <2>5. Untouched'
      BY <2>1, <2>2, Kinds
         DEF Untouched, Typed, Directory, Genuine, CopyingFresh, MeasuringFresh, WritingFresh, Fresh
    <2> QED BY <2>1, <2>2, <2>3, <2>4, <2>5, BackupAlone, Kinds
  <1>2. CASE CopyStore
    <2>1. /\ operator.step = "copy" /\ operator \in Copying /\ operator.bundle \in Bundles
          /\ operator' = [operator EXCEPT !.step = "verify"] /\ UNCHANGED <<live, place, heads, faults>>
          /\ bundle' = [bundle EXCEPT ![operator.bundle].db = live]
      BY <1>2, StepKind DEF CopyStore, BackingUp, Fill, Step, AtStep, Copying
    <2>2. operator' \in Copying /\ operator'.bundle = operator.bundle
      BY <2>1 DEF Copying
    <2>3. Typed'
      BY <2>1, <2>2 DEF Typed, Directory, Command
    <2>4. Unmade' /\ BackupMade'
      BY <2>1, <2>2, Kinds DEF Unmade, BackupMade, Typed, Directory, Copying, Measuring, Writing
    <2>5. Untouched'
      BY <2>1, <2>2, Kinds
         DEF Untouched, Typed, Directory, Genuine, CopyingFresh, MeasuringFresh, WritingFresh, Fresh
    <2> QED BY <2>1, <2>2, <2>3, <2>4, <2>5, BackupAlone, Kinds
  <1>3. CASE operator' = Ready /\ UNCHANGED <<live, bundle, place, heads, faults>>
    <2>1. Typed' /\ Unmade' /\ BackupMade' /\ Untouched'
      BY <1>3, Kinds
         DEF Typed, Command, Unmade, BackupMade, Untouched, Genuine, CopyingFresh, MeasuringFresh, WritingFresh
    <2> QED BY <1>3, <2>1, BackupAlone, Kinds
  <1>4. CASE CopyExpires
    BY <1>3, <1>4 DEF CopyExpires, BackingUp, Step
  <1>5. CASE VerifyCopy
    <2> DEFINE db == bundle[operator.bundle].db
    <2>1. /\ operator.step = "verify" /\ operator \in Copying /\ operator.bundle \in Bundles
          /\ UNCHANGED <<live, bundle, place, heads, faults>>
          /\ operator' = IF VerifiedStore(db)
                         THEN [step |-> "measure", bundle |-> operator.bundle, head |-> db.signed, rows |-> db.rows]
                         ELSE Ready
      BY <1>5, StepKind DEF VerifyCopy, BackingUp, Step, AtStep, Copying
    <2>2. CASE ~VerifiedStore(db)
      BY <2>1, <2>2, <1>3
    <2>3. CASE VerifiedStore(db)
      <3>1. operator' = [step |-> "measure", bundle |-> operator.bundle, head |-> db.signed, rows |-> db.rows]
        BY <2>1, <2>3
      <3>2. db \in Db
        BY <2>1 DEF Typed, Directory
      <3>3. operator' \in Measuring
        BY <2>1, <3>1, <3>2 DEF Measuring, Db
      <3>4. Typed' /\ Unmade' /\ BackupMade'
        BY <2>1, <3>1, <3>3, Kinds DEF Typed, Command, Unmade, BackupMade
      <3>5. Untouched'
        BY <2>1, <2>3, <3>1, <3>3, Kinds
           DEF Untouched, Genuine, CopyingFresh, MeasuringFresh, WritingFresh, Fresh
      <3> QED BY <2>1, <3>3, <3>4, <3>5, BackupAlone, Kinds
    <2> QED BY <2>2, <2>3
  <1>6. CASE MeasureCopy
    <2> DEFINE db == bundle[operator.bundle].db
               m == [head |-> operator.head, db |-> db, rows |-> operator.rows]
    <2>1. /\ operator.step = "measure" /\ operator \in Measuring /\ operator.bundle \in Bundles
          /\ UNCHANGED <<live, bundle, place, heads, faults>>
          /\ operator' = [step |-> "head", bundle |-> operator.bundle, manifest |-> m]
      BY <1>6, StepKind DEF MeasureCopy, BackingUp, Step, AtStep, Measuring
    <2>2. m \in Manifest
      BY <2>1 DEF Typed, Directory, Manifest, Measuring
    <2>3. operator' \in Writing
      BY <2>1, <2>2 DEF Writing
    <2>4. Typed' /\ Unmade' /\ BackupMade'
      BY <2>1, <2>3, Kinds DEF Typed, Command, Unmade, BackupMade
    <2>5. faults = 0 => Fresh /\ Sound(db, m, m.head)
      BY <2>1 DEF Untouched, MeasuringFresh, Sound
    <2>6. Untouched'
      BY <2>1, <2>3, <2>5, Kinds
         DEF Untouched, Genuine, CopyingFresh, MeasuringFresh, WritingFresh, Fresh
    <2> QED BY <2>1, <2>3, <2>4, <2>6, BackupAlone, Kinds
  <1>7. CASE WriteHead
    <2>1. /\ operator.step = "head" /\ operator \in Writing /\ operator.bundle \in Bundles
          /\ operator.manifest \in Manifest
          /\ operator' = [operator EXCEPT !.step = "manifest"] /\ UNCHANGED <<live, place, heads, faults>>
          /\ bundle' = [bundle EXCEPT ![operator.bundle].head = operator.manifest.head]
      BY <1>7, StepKind DEF WriteHead, BackingUp, Fill, Step, AtStep, Writing
    <2>2. operator' \in Writing /\ operator'.bundle = operator.bundle /\ operator'.manifest = operator.manifest
      BY <2>1 DEF Writing
    <2>3. Typed'
      BY <2>1, <2>2 DEF Typed, Directory, Command, Manifest
    <2>4. Unmade' /\ BackupMade'
      BY <2>1, <2>2, Kinds DEF Unmade, BackupMade, Typed, Directory, Copying, Measuring, Writing
    <2>5. Untouched'
      BY <2>1, <2>2, Kinds
         DEF Untouched, Typed, Directory, Genuine, CopyingFresh, MeasuringFresh, WritingFresh, Fresh
    <2> QED BY <2>1, <2>2, <2>3, <2>4, <2>5, BackupAlone, Kinds
  <1>8. CASE WriteManifest
    <2>1. /\ operator.step = "manifest" /\ operator \in Writing /\ operator.bundle \in Bundles
          /\ operator.manifest \in Manifest
          /\ operator' = Ready /\ UNCHANGED <<live, place, heads, faults>>
          /\ bundle' = [bundle EXCEPT ![operator.bundle].manifest = operator.manifest]
      BY <1>8, StepKind DEF WriteManifest, BackingUp, Fill, Step, AtStep, Writing
    <2>2. Typed'
      BY <2>1 DEF Typed, Directory, Command
    <2>3. Unmade' /\ BackupMade'
      BY <2>1, <2>2, Kinds DEF Unmade, BackupMade, Typed, Directory, Copying, Measuring, Writing
    <2>4. Untouched'
      BY <2>1, Kinds
         DEF Untouched, Typed, Directory, Genuine, CopyingFresh, MeasuringFresh, WritingFresh, Fresh
    <2> QED BY <2>1, <2>2, <2>3, <2>4, BackupAlone, Kinds
  <1> QED BY <1>1, <1>2, <1>4, <1>5, <1>6, <1>7, <1>8

-----------------------------------------------------------------------------
(* A restoration, step by step.                                            *)

(* A step that leaves the bundles alone and is of no backup.               *)
LEMMA BundlesAlone ==
  ASSUME RestoreInv, UNCHANGED <<bundle, faults>>, operator' \in {Ready} \cup Restoral
  PROVE  Untouched' /\ BackupMade'
  BY Kinds DEF RestoreInv, Untouched, Genuine, CopyingFresh, MeasuringFresh, WritingFresh, BackupMade

(* A copy that passed is the store whose head was expected.                *)
LEMMA SoundIsStore ==
  ASSUME NEW db \in Db, NEW named, NEW expected \in Int, Sound(db, named, expected)
  PROVE  db = Store(expected)
  BY DEF Db, Sound, VerifiedStore, Store

LEMMA RestoralStep ==
  ASSUME RestoreInv,
         \/ \E b \in Bundles, p \in Places, expected \in heads : BeginRestore(b, p, expected)
         \/ Fetch \/ CheckFetched \/ WriteReceipt
  PROVE  RestoreInv'
  <1> USE DEF RestoreInv
  <1>1. ASSUME NEW b \in Bundles, NEW p \in Places, NEW expected \in heads, BeginRestore(b, p, expected)
        PROVE  RestoreInv'
    <2> DEFINE m == bundle[b].manifest
    <2>1. /\ m # NoMeta /\ m.head = expected /\ ~place[p].made
          /\ place' = [place EXCEPT ![p].made = TRUE] /\ UNCHANGED <<live, bundle, heads, faults>>
          /\ operator' = [step |-> "fetch", bundle |-> b, place |-> p, manifest |-> m, expected |-> expected]
      BY <1>1 DEF BeginRestore, Acceptable, Step
    <2>2. m \in Manifest /\ expected \in Int
      BY DEF Typed, Directory
    <2>3. operator' \in Restoral
      BY <2>1, <2>2 DEF Restoral
    <2>4. Typed'
      BY <2>1, <2>3 DEF Typed, Restored, Command
    <2>5. Unmade' /\ Certified'
      BY <2>1 DEF Unmade, Certified, Typed, Restored
    <2>6. RestoralBacked'
      BY <2>1 DEF RestoralBacked, Unmade, Typed, Restored
    <2> QED BY <2>1, <2>3, <2>4, <2>5, <2>6, BundlesAlone
  <1>2. CASE Fetch
    <2>1. /\ operator.step = "fetch" /\ operator \in Restoral
          /\ operator.place \in Places /\ operator.bundle \in Bundles
          /\ place' = [place EXCEPT ![operator.place].db = bundle[operator.bundle].db]
          /\ operator' = [operator EXCEPT !.step = "check"] /\ UNCHANGED <<live, bundle, heads, faults>>
      BY <1>2, StepKind DEF Fetch, Restoring, Step, AtStep, Restoral
    <2>2. /\ operator' \in Restoral /\ operator'.step = "check" /\ operator'.place = operator.place
          /\ operator'.manifest = operator.manifest /\ operator'.expected = operator.expected
      BY <2>1 DEF Restoral
    <2>3. Typed'
      BY <2>1, <2>2 DEF Typed, Restored, Directory, Command
    <2>4. Unmade' /\ Certified'
      BY <2>1 DEF Unmade, Certified, RestoralBacked, Typed, Restored
    <2>5. RestoralBacked'
      BY <2>1, <2>2 DEF RestoralBacked, Typed, Restored
    <2> QED BY <2>1, <2>2, <2>3, <2>4, <2>5, BundlesAlone
  <1>3. CASE operator' = Ready /\ UNCHANGED <<live, bundle, place, heads, faults>>
    <2>1. Typed' /\ Unmade' /\ Certified' /\ RestoralBacked'
      BY <1>3, Kinds DEF Typed, Command, Unmade, Certified, RestoralBacked
    <2> QED BY <1>3, <2>1, BundlesAlone
  <1>4. CASE CheckFetched
    <2> DEFINE db == place[operator.place].db
    <2>1. /\ operator.step = "check" /\ operator \in Restoral
          /\ operator.place \in Places /\ operator.expected \in Int
          /\ UNCHANGED <<live, bundle, place, heads, faults>>
          /\ operator' = IF Sound(db, operator.manifest, operator.expected)
                         THEN [operator EXCEPT !.step = "receipt"] ELSE Ready
      BY <1>4, StepKind DEF CheckFetched, Restoring, Step, AtStep, Restoral
    <2>2. CASE ~Sound(db, operator.manifest, operator.expected)
      BY <2>1, <2>2, <1>3
    <2>3. CASE Sound(db, operator.manifest, operator.expected)
      <3>1. operator' = [operator EXCEPT !.step = "receipt"]
        BY <2>1, <2>3
      <3>2. /\ operator' \in Restoral /\ operator'.step = "receipt" /\ operator'.place = operator.place
            /\ operator'.manifest = operator.manifest /\ operator'.expected = operator.expected
        BY <2>1, <3>1 DEF Restoral
      <3>3. db = Store(operator.expected)
        BY <2>1, <2>3, SoundIsStore DEF Typed, Restored
      <3>4. Typed' /\ Unmade' /\ Certified'
        BY <2>1, <3>2 DEF Typed, Command, Unmade, Certified
      <3>5. RestoralBacked'
        BY <2>1, <3>2, <3>3 DEF RestoralBacked
      <3> QED BY <2>1, <3>2, <3>4, <3>5, BundlesAlone
    <2> QED BY <2>2, <2>3
  <1>5. CASE WriteReceipt
    <2>1. /\ operator.step = "receipt" /\ operator \in Restoral
          /\ operator.place \in Places /\ operator.manifest \in Manifest
          /\ place' = [place EXCEPT ![operator.place].receipt = operator.manifest]
          /\ operator' = Ready /\ UNCHANGED <<live, bundle, heads, faults>>
      BY <1>5, StepKind DEF WriteReceipt, Restoring, Step, AtStep, Restoral
    <2>2. Typed'
      BY <2>1 DEF Typed, Restored, Command
    <2>3. Unmade' /\ RestoralBacked'
      BY <2>1, Kinds DEF Unmade, RestoralBacked, Typed, Restored
    <2>4. Certified'
      BY <2>1 DEF Certified, RestoralBacked, Typed, Restored
    <2> QED BY <2>1, <2>2, <2>3, <2>4, BundlesAlone
  <1> QED BY <1>1, <1>2, <1>4, <1>5

-----------------------------------------------------------------------------
(* Everything else.                                                        *)

LEMMA FaultStep ==
  ASSUME RestoreInv,
         \/ AlterLive \/ \E b \in Bundles : AlterBundle(b)
         \/ \E b, c \in Bundles : MoveManifest(b, c)
  PROVE  RestoreInv'
  <1> USE DEF RestoreInv
  <1>1. faults' = faults + 1 /\ UNCHANGED <<heads, place, operator>>
    BY DEF AlterLive, AlterBundle, MoveManifest, Fault
  <1>2. Untouched'
    BY <1>1 DEF Untouched, Typed
  <1>3. CASE AlterLive
    BY <1>1, <1>2, <1>3, RestoralsAlone DEF AlterLive, Typed, Db, Unmade, BackupMade
  <1>4. ASSUME NEW b \in Bundles, AlterBundle(b) PROVE RestoreInv'
    <2>1. PICK db \in {Missing, [bundle[b].db EXCEPT !.rows = 0]} \cup {bundle[c].db : c \in Bundles} :
            bundle' = [bundle EXCEPT ![b].db = db]
      BY <1>4 DEF AlterBundle
    <2>2. db \in Db
      BY <2>1, Shapes DEF Typed, Directory, Db
    <2>3. live' = live
      BY <1>4 DEF AlterBundle
    <2>4. Typed'
      BY <1>1, <2>1, <2>2, <2>3 DEF Typed, Directory
    <2>5. Unmade' /\ BackupMade'
      BY <1>1, <2>1 DEF Unmade, BackupMade, Typed, Directory, Copying, Measuring, Writing
    <2> QED BY <1>1, <1>2, <2>4, <2>5, RestoralsAlone
  <1>5. ASSUME NEW b \in Bundles, NEW c \in Bundles, MoveManifest(b, c) PROVE RestoreInv'
    <2>1. /\ bundle[c].made /\ live' = live
          /\ bundle' = [bundle EXCEPT ![c].manifest = bundle[b].manifest]
      BY <1>5 DEF MoveManifest
    <2>2. Typed'
      BY <1>1, <2>1 DEF Typed, Directory
    <2>3. Unmade' /\ BackupMade'
      BY <1>1, <2>1 DEF Unmade, BackupMade, Typed, Directory, Copying, Measuring, Writing
    <2> QED BY <1>1, <1>2, <2>2, <2>3, RestoralsAlone
  <1> QED BY <1>3, <1>4, <1>5

LEMMA RestoreStep == RestoreInv /\ [RecoveryNext]_recovery => RestoreInv'
  <1> SUFFICES ASSUME RestoreInv, [RecoveryNext]_recovery PROVE RestoreInv'
    OBVIOUS
  <1>1. CASE UNCHANGED recovery
    BY <1>1 DEF recovery, RestoreInv, Typed, Unmade, BackupMade, RestoralBacked, Certified, Untouched,
                Genuine, CopyingFresh, MeasuringFresh, WritingFresh, Fresh
  <1>2. ASSUME NEW b \in Bundles, KeepHead(b) PROVE RestoreInv'
    <2>1. /\ heads' = heads \cup {bundle[b].manifest.head}
          /\ UNCHANGED <<live, bundle, place, operator, faults>>
      BY <1>2 DEF KeepHead
    <2>2. bundle[b].manifest.head \in Int
      BY DEF RestoreInv, Typed, Directory, Manifest
    <2>3. Typed' /\ Unmade' /\ BackupMade'
      BY <2>1, <2>2 DEF RestoreInv, Typed, Unmade, BackupMade
    <2>4. Untouched'
      BY <2>1 DEF RestoreInv, Untouched, Genuine, CopyingFresh, MeasuringFresh, WritingFresh, Fresh
    <2> QED BY <2>1, <2>3, <2>4, RestoralsAlone DEF RestoreInv
  <1>3. CASE ServiceWrites
    <2>1. /\ live' = Store(live.signed + 1) /\ UNCHANGED <<bundle, place, operator, heads, faults>>
      BY <1>3 DEF ServiceWrites
    <2>2. live' \in Db
      BY <2>1, Shapes DEF RestoreInv, Typed, Db
    <2>3. Typed' /\ Unmade' /\ BackupMade'
      BY <2>1, <2>2 DEF RestoreInv, Typed, Unmade, BackupMade
    <2>4. Untouched'
      BY <2>1 DEF RestoreInv, Untouched, Genuine, CopyingFresh, MeasuringFresh, WritingFresh, Fresh
    <2> QED BY <2>1, <2>3, <2>4, RestoralsAlone DEF RestoreInv
  <1>4. CASE CommandDies
    <2>1. operator' = Ready /\ UNCHANGED <<live, bundle, place, heads, faults>>
      BY <1>4 DEF CommandDies, Step
    <2>2. Typed' /\ Unmade' /\ Certified' /\ RestoralBacked'
      BY <2>1, Kinds DEF RestoreInv, Typed, Command, Unmade, Certified, RestoralBacked
    <2> QED BY <2>1, <2>2, BundlesAlone DEF RestoreInv
  <1> QED
    BY <1>1, <1>2, <1>3, <1>4, BackupStep, RestoralStep, FaultStep DEF RecoveryNext

(* A receipt vouches for the whole store as it was when the kept head was  *)
(* its last entry, whatever was changed, moved or broken off, and a bundle *)
(* nobody touched keeps what its manifest says (operations.py).            *)
THEOREM RestorationSound == RecoverySpec => []RecoverySound
  <1>1. RestoreInv => RecoverySound
    BY DEF RestoreInv, Certified, Untouched, Genuine, RecoverySound
  <1> QED BY <1>1, RestoreInit, RestoreStep, PTL DEF RecoverySpec

-----------------------------------------------------------------------------
(* What a promoted model has earned.                                       *)

Paths == Research \cup {Demo}
(* A candidate is what fitting makes of a manifest whose corpus loaded; an *)
(* evaluation is the holdout of the candidate it carries.  That holds of   *)
(* the artifacts whose checksum still fits.                                *)
CandidateSound(c) ==
  c.audit \in Manifests /\ ManifestValid(c.audit) /\ Separated(c.audit) /\ c = Candidate(c.audit)
ArtifactSound(a) ==
  /\ a.kind = "candidate" => {"kind", "intact", "threshold"} \subseteq DOMAIN a /\ (a.intact => CandidateSound(a))
  /\ a.kind = "holdout" =>
       /\ {"kind", "intact", "failures", "passed"} \subseteq DOMAIN a
       /\ a.intact => CandidateSound(a.candidate) /\ a = Holdout(a.candidate, a.candidate.audit)
  /\ a.kind = "model" => Earned(a)
  /\ a.kind = "trained" => Apart(a.rows)
DiskSound == DOMAIN disk = Paths /\ \A p \in Paths : ArtifactSound(disk[p])
CommandSound(w) ==
  \/ worker[w] = Resting
  \/ /\ worker[w] = [step |-> worker[w].step, out |-> worker[w].out, artifact |-> worker[w].artifact]
     /\ worker[w].out \in Paths /\ ArtifactSound(worker[w].artifact)
CommandsSound == DOMAIN worker = Workers /\ \A w \in Workers : CommandSound(w)
PromotionInv == manifest \in Manifests /\ DiskSound /\ CommandsSound

LEMMA LeastNat ==
  ASSUME NEW T, T \subseteq Nat, T # {}
  PROVE  \E x \in T : \A y \in T : x <= y
  <1> DEFINE R == OpToRel(<, Nat)
  <1>1. IsWellFoundedOn(R, Nat)
    BY NatLessThanWellFounded
  <1>2. \A x, y \in Nat : <<y, x>> \in R <=> y < x
    BY DEF OpToRel
  <1> HIDE DEF R
  <1>3. PICK x \in T : \A y \in T : ~ (<<y, x>> \in R)
    BY <1>1, WFMin
  <1>4. \A y \in T : y \in Nat /\ x \in Nat /\ ~(y < x)
    BY <1>2, <1>3
  <1> QED BY <1>4

(* The corpus of a manifest is finite, so hits and false alarms are counts *)
(* below one bound.                                                        *)
LEMMA PartFinite ==
  ASSUME NEW m \in Manifests, NEW split
  PROVE  IsFiniteSet(Part(m, split))
  <1> DEFINE Rows(s) == {Labelled(d, s) : d \in Range(s.content)}
             All == {Rows(s) : s \in Range(m.sources)}
  <1>1. ASSUME NEW s \in Range(m.sources) PROVE IsFiniteSet(Rows(s))
    <2> DEFINE D == Range(s.content)
               R == Rows(s)
               f == [d \in D |-> Labelled(d, s)]
    <2>1. IsFiniteSet(D)
      BY PromotionAssumption
    <2>2. f \in Surjection(D, R)
      BY DEF Surjection
    <2>3. IsFiniteSet(R)
      <3> HIDE DEF D, R, f
      <3> QED BY <2>1, <2>2, FS_Surjection
    <2> QED BY <2>3
  <1> HIDE DEF Rows
  <1>2. IsFiniteSet(All)
    <2> DEFINE D == Range(m.sources)
               f == [s \in D |-> Rows(s)]
    <2>1. IsFiniteSet(D)
      BY PromotionAssumption
    <2>2. f \in Surjection(D, All)
      BY DEF Surjection
    <2> HIDE DEF D, All, f
    <2> QED BY <2>1, <2>2, FS_Surjection
  <1>3. \A T \in All : IsFiniteSet(T)
    BY <1>1
  <1>4. UNION All = Corpus(m)
    BY DEF Corpus, Rows
  <1> HIDE DEF All
  <1>5. IsFiniteSet(Corpus(m))
    BY <1>2, <1>3, <1>4, FS_UNION
  <1>6. Part(m, split) \in SUBSET Corpus(m)
    BY DEF Part
  <1> QED BY <1>5, <1>6, FS_Subset
LEMMA CountsBounded ==
  ASSUME NEW m \in Manifests
  PROVE  LET n == Cardinality(Part(m, "validation"))
         IN  n \in Nat /\ \A p : AtPoint(m, p).pooled.tp \in 0..n /\ AtPoint(m, p).pooled.fp \in 0..n
  <1> DEFINE rows == Part(m, "validation")
             n == Cardinality(rows)
  <1>1. IsFiniteSet(rows) /\ n \in Nat
    BY PartFinite, FS_CardinalityType
  <1>2. ASSUME NEW S, S \in SUBSET rows PROVE Cardinality(S) \in 0..n
    <2>1. IsFiniteSet(S) /\ Cardinality(S) <= n
      BY <1>1, <1>2, FS_Subset
    <2>2. Cardinality(S) \in Nat
      BY <2>1, FS_CardinalityType
    <2> QED BY <1>1, <2>1, <2>2
  <1>3. ASSUME NEW p
        PROVE  AtPoint(m, p).pooled.tp \in 0..n /\ AtPoint(m, p).pooled.fp \in 0..n
    <2> DEFINE hit   == {r \in rows : r.label = 1 /\ Predicted(p[1], p[2], r)}
               alarm == {r \in rows : r.label = 0 /\ Predicted(p[1], p[2], r)}
    <2>1. /\ AtPoint(m, p).pooled.tp = Cardinality(hit)
          /\ AtPoint(m, p).pooled.fp = Cardinality(alarm)
      BY DEF AtPoint, ScoredMetrics, Measured, Hits
    <2>2. hit \in SUBSET rows /\ alarm \in SUBSET rows
      OBVIOUS
    <2> HIDE DEF hit, alarm, rows
    <2> QED BY <1>2, <2>1, <2>2
  <1> QED BY <1>1, <1>3

(* Among eligible points one ranks below all others: of those with most    *)
(* hits, of these with fewest false alarms, the first variant's at its     *)
(* lowest threshold.                                                       *)
LEMMA LeastExists ==
  ASSUME NEW m \in Manifests, ManifestValid(m), Eligible(m) # {}
  PROVE  \E p \in Eligible(m) : \A q \in Eligible(m) \ {p} : Below(EligibleRank(m, p), EligibleRank(m, q))
  <1> DEFINE n == Cardinality(Part(m, "validation"))
             tp(p) == AtPoint(m, p).pooled.tp
             fp(p) == AtPoint(m, p).pooled.fp
             miss(p) == n - tp(p)
  <1>1. n \in Nat /\ \A p : tp(p) \in 0..n /\ fp(p) \in 0..n
    BY CountsBounded
  <1>2. \A p \in Eligible(m) : p[1] \in Nat /\ p[2] \in Nat /\ p = <<p[1], p[2]>>
    BY PromotionAssumption DEF Eligible, Points, ManifestValid
  <1>3. \A p : EligibleRank(m, p) = <<-tp(p), fp(p), p[1], p[2]>>
    BY DEF EligibleRank
  <1> HIDE DEF n, tp, fp
  <1>4. PICK a \in Eligible(m) : \A q \in Eligible(m) : miss(a) <= miss(q)
    <2> DEFINE T == {miss(p) : p \in Eligible(m)}
    <2>1. T \subseteq Nat /\ T # {}
      BY <1>1
    <2>2. PICK x \in T : \A y \in T : x <= y
      BY <2>1, LeastNat
    <2> QED BY <2>2
  <1> DEFINE A == {p \in Eligible(m) : tp(p) = tp(a)}
  <1>5. PICK b \in A : \A q \in A : fp(b) <= fp(q)
    <2> DEFINE T == {fp(p) : p \in A}
    <2>1. T \subseteq Nat /\ T # {}
      BY <1>1
    <2>2. PICK x \in T : \A y \in T : x <= y
      BY <2>1, LeastNat
    <2> QED BY <2>2
  <1> DEFINE B == {p \in A : fp(p) = fp(b)}
  <1>6. PICK c \in B : \A q \in B : c[1] <= q[1]
    <2> DEFINE T == {p[1] : p \in B}
    <2>1. T \subseteq Nat /\ T # {}
      BY <1>2
    <2>2. PICK x \in T : \A y \in T : x <= y
      BY <2>1, LeastNat
    <2> QED BY <2>2
  <1> DEFINE C == {p \in B : p[1] = c[1]}
  <1>7. PICK d \in C : \A q \in C : d[2] <= q[2]
    <2> DEFINE T == {p[2] : p \in C}
    <2>1. T \subseteq Nat /\ T # {}
      BY <1>2
    <2>2. PICK x \in T : \A y \in T : x <= y
      BY <2>1, LeastNat
    <2> QED BY <2>2
  <1>8. ASSUME NEW q \in Eligible(m) \ {d}
        PROVE  Below(EligibleRank(m, d), EligibleRank(m, q))
    <2> DEFINE x == <<-tp(d), fp(d), d[1], d[2]>>
               y == <<-tp(q), fp(q), q[1], q[2]>>
    <2>1. \/ x[1] < y[1]
          \/ x[1] = y[1] /\ x[2] < y[2]
          \/ x[1] = y[1] /\ x[2] = y[2] /\ x[3] < y[3]
          \/ x[1] = y[1] /\ x[2] = y[2] /\ x[3] = y[3] /\ x[4] < y[4]
      <3>1. d \in Eligible(m) /\ tp(d) = tp(a) /\ fp(d) = fp(b) /\ d[1] = c[1]
        OBVIOUS
      <3>2. tp(q) <= tp(d)
        BY <1>1, <1>4, <3>1
      <3>3. tp(q) = tp(d) => fp(d) <= fp(q)
        BY <1>5, <3>1
      <3>4. tp(q) = tp(d) /\ fp(q) = fp(d) => d[1] <= q[1]
        BY <1>6, <3>1
      <3>5. tp(q) = tp(d) /\ fp(q) = fp(d) /\ q[1] = d[1] => d[2] <= q[2]
        BY <1>7, <3>1
      <3>6. q[1] # d[1] \/ q[2] # d[2]
        BY <1>2, <3>1
      <3> QED BY <1>1, <1>2, <3>1, <3>2, <3>3, <3>4, <3>5, <3>6
    <2>2. DOMAIN x = 1..4 /\ EligibleRank(m, d) = x /\ EligibleRank(m, q) = y
      BY <1>3
    <2> HIDE DEF x, y
    <2>3. Below(x, y)
      <3>1. CASE x[1] < y[1]
        BY <2>2, <3>1 DEF Below
      <3>2. CASE x[1] = y[1] /\ x[2] < y[2]
        BY <2>2, <3>2 DEF Below
      <3>3. CASE x[1] = y[1] /\ x[2] = y[2] /\ x[3] < y[3]
        BY <2>2, <3>3 DEF Below
      <3>4. CASE x[1] = y[1] /\ x[2] = y[2] /\ x[3] = y[3] /\ x[4] < y[4]
        BY <2>2, <3>4 DEF Below
      <3> QED BY <2>1, <3>1, <3>2, <3>3, <3>4
    <2> QED BY <2>2, <2>3
  <1> QED BY <1>8

(* What was selected passes if anything does, and nothing that passes does *)
(* better.                                                                 *)
LEMMA SelectedBest ==
  ASSUME NEW m \in Manifests, ManifestValid(m), NEW q \in Eligible(m)
  PROVE  LET h == AtPoint(m, Selected(m)).pooled
             g == AtPoint(m, q).pooled
         IN  /\ Selected(m) = <<Selected(m)[1], Selected(m)[2]>>
             /\ g.tp < h.tp \/ (g.tp = h.tp /\ g.fp >= h.fp)
  <1> DEFINE s == Selected(m)
             n == Cardinality(Part(m, "validation"))
             x == EligibleRank(m, s)
             y == EligibleRank(m, q)
  <1>1. s \in Eligible(m) /\ \A p \in Eligible(m) \ {s} : Below(EligibleRank(m, s), EligibleRank(m, p))
    <2>1. s = CHOOSE p \in Eligible(m) : \A r \in Eligible(m) \ {p} : Below(EligibleRank(m, p), EligibleRank(m, r))
      BY DEF Selected, Least
    <2> QED BY <2>1, LeastExists
  <1>2. n \in Nat /\ \A p : AtPoint(m, p).pooled.tp \in 0..n /\ AtPoint(m, p).pooled.fp \in 0..n
    BY CountsBounded
  <1>3. s = <<s[1], s[2]>>
    BY <1>1 DEF Eligible, Points
  <1>4. /\ x = <<-AtPoint(m, s).pooled.tp, AtPoint(m, s).pooled.fp, s[1], s[2]>>
        /\ y = <<-AtPoint(m, q).pooled.tp, AtPoint(m, q).pooled.fp, q[1], q[2]>>
    BY DEF EligibleRank
  <1> HIDE DEF s, n, x, y
  <1>5. CASE q = s
    BY <1>2, <1>3, <1>5 DEF s
  <1>6. CASE q # s
    <2>1. PICK i \in DOMAIN x : x[i] < y[i] /\ \A j \in 1..(i - 1) : x[j] = y[j]
      BY <1>1, <1>6 DEF Below, x, y
    <2>2. i \in 1..4
      BY <1>4, <2>1
    <2>3. i > 1 => x[1] = y[1]
      BY <2>1, <2>2
    <2>4. i > 2 => x[2] = y[2]
      BY <2>1, <2>2
    <2>5. /\ x[1] = -AtPoint(m, s).pooled.tp /\ x[2] = AtPoint(m, s).pooled.fp
          /\ y[1] = -AtPoint(m, q).pooled.tp /\ y[2] = AtPoint(m, q).pooled.fp
      BY <1>4
    <2>6. x[1] < y[1] \/ (x[1] = y[1] /\ x[2] <= y[2])
      BY <1>2, <2>1, <2>2, <2>3, <2>4, <2>5
    <2> QED BY <1>2, <1>3, <2>5, <2>6 DEF s
  <1> QED BY <1>5, <1>6

(* What makes a model earned, its manifest and its point given by name.    *)
LEMMA EarnedWhen ==
  ASSUME NEW a, NEW m, m = a.approval.candidate.audit,
         Passes({r \in Corpus(m) : r.split = "test"}, m, a.variant, a.threshold),
         Passes(Part(m, "validation"), m, a.variant, a.threshold),
         \A r \in {x \in Corpus(m) : x.split = "test"}, t \in Corpus(m) \ {x \in Corpus(m) : x.split = "test"} :
           /\ Registrable(r.domain) # Registrable(t.domain)
           /\ r.label = 1 /\ t.label = 1 => r.family # t.family,
         \A q \in Points(m) :
           Passes(Part(m, "validation"), m, q[1], q[2]) =>
             \/ AtPoint(m, q).pooled.tp < AtPoint(m, <<a.variant, a.threshold>>).pooled.tp
             \/ AtPoint(m, q).pooled.tp = AtPoint(m, <<a.variant, a.threshold>>).pooled.tp
                /\ AtPoint(m, q).pooled.fp >= AtPoint(m, <<a.variant, a.threshold>>).pooled.fp
  PROVE  Earned(a)
  BY DEF Earned

(* Promotion recomputes the gates; with what candidate and evaluation are, *)
(* that is enough.                                                         *)
LEMMA PromotedIsEarned ==
  ASSUME NEW c, NEW e, ArtifactSound(c), ArtifactSound(e), Promotable(c, e)
  PROVE  Earned(Promoted(c, e))
  <1> DEFINE m == c.audit
             p == Selected(m)
             a == Promoted(c, e)
             validation == Part(m, "validation")
  <1>1. CandidateSound(c) /\ e = Holdout(c, m) /\ e.candidate = c
    BY DEF Promotable, CandidateLoads, ArtifactSound
  <1>2. m \in Manifests /\ ManifestValid(m) /\ Separated(m) /\ c = Candidate(m)
    BY <1>1 DEF CandidateSound
  <1>3. /\ c.gates = m.gates /\ c.variant = p[1] /\ c.threshold = p[2] /\ c.validation = AtPoint(m, p)
    <2>1. \A x : x = Candidate(m) => /\ x.gates = m.gates /\ x.variant = p[1] /\ x.threshold = p[2]
                                     /\ x.validation = AtPoint(m, p)
      BY DEF Candidate
    <2> QED BY <1>2, <2>1
  <1>4. e.test = ScoredMetrics(Part(m, "test"), c.variant, c.threshold)
    <2>1. Holdout(c, m).test = ScoredMetrics(Part(m, "test"), c.variant, c.threshold)
      BY DEF Holdout
    <2> QED BY <1>1, <2>1
  <1>5. a.variant = p[1] /\ a.threshold = p[2] /\ a.approval = e /\ a.approval.candidate.audit = m
    BY <1>1, <1>3 DEF Promoted
  <1>6. Passes(Part(m, "test"), m, a.variant, a.threshold)
    BY <1>3, <1>4, <1>5 DEF Passes, Promotable
  <1>7. Passes(validation, m, p[1], p[2])
    BY <1>3 DEF Passes, Promotable, AtPoint
  <1>8. ASSUME NEW r \in Part(m, "test"), NEW t \in Corpus(m) \ Part(m, "test")
        PROVE  Registrable(r.domain) # Registrable(t.domain) /\ (r.label = 1 /\ t.label = 1 => r.family # t.family)
    BY <1>2 DEF Separated, GroupsWhole, FamiliesWhole, Part
  <1>9. ASSUME NEW q \in Points(m), Passes(validation, m, q[1], q[2])
        PROVE  LET h == AtPoint(m, <<p[1], p[2]>>).pooled
                   g == AtPoint(m, q).pooled
               IN  g.tp < h.tp \/ (g.tp = h.tp /\ g.fp >= h.fp)
    <2>1. q \in Eligible(m)
      BY <1>9 DEF Eligible, Passes, AtPoint
    <2> QED BY <1>2, <2>1, SelectedBest
  <1>10. Part(m, "test") = {r \in Corpus(m) : r.split = "test"}
    BY DEF Part
  <1> HIDE DEF m, p, a, validation
  <1>11. Passes({r \in Corpus(m) : r.split = "test"}, m, a.variant, a.threshold)
    BY <1>6, <1>10
  <1>12. Passes(Part(m, "validation"), m, a.variant, a.threshold)
    BY <1>5, <1>7 DEF validation
  <1>13. \A r \in {x \in Corpus(m) : x.split = "test"}, t \in Corpus(m) \ {x \in Corpus(m) : x.split = "test"} :
           /\ Registrable(r.domain) # Registrable(t.domain)
           /\ r.label = 1 /\ t.label = 1 => r.family # t.family
    BY <1>8, <1>10
  <1>14. \A q \in Points(m) :
           Passes(Part(m, "validation"), m, q[1], q[2]) =>
             \/ AtPoint(m, q).pooled.tp < AtPoint(m, <<a.variant, a.threshold>>).pooled.tp
             \/ AtPoint(m, q).pooled.tp = AtPoint(m, <<a.variant, a.threshold>>).pooled.tp
                /\ AtPoint(m, q).pooled.fp >= AtPoint(m, <<a.variant, a.threshold>>).pooled.fp
    BY <1>5, <1>9 DEF validation
  <1>15. Earned(a)
    BY <1>5, <1>11, <1>12, <1>13, <1>14, EarnedWhen
  <1> QED BY <1>15 DEF a

(* The artifacts that the commands make, and what a change leaves.         *)
LEMMA FittedSound ==
  ASSUME NEW m \in Manifests, CorpusLoads(m)
  PROVE  ArtifactSound(Candidate(m))
  <1> DEFINE c == Candidate(m)
  <1>1. {"kind", "intact", "threshold"} \subseteq DOMAIN c /\ c.kind = "candidate" /\ c.audit = m
    BY DEF Candidate
  <1>2. CandidateSound(c)
    <2> HIDE DEF c
    <2>1. c = Candidate(c.audit)
      BY <1>1 DEF c
    <2> QED BY <1>1, <2>1 DEF CandidateSound, CorpusLoads
  <1> HIDE DEF c
  <1>3. ArtifactSound(c)
    BY <1>1, <1>2 DEF ArtifactSound
  <1> QED BY <1>3 DEF c
LEMMA EvaluatedSound ==
  ASSUME NEW c, NEW m, ArtifactSound(c), Evaluable(c, m)
  PROVE  ArtifactSound(Holdout(c, m))
  <1> DEFINE e == Holdout(c, m)
  <1>1. /\ {"kind", "intact", "failures", "passed"} \subseteq DOMAIN e
        /\ e.kind = "holdout" /\ e.candidate = c
    BY DEF Holdout
  <1>2. CandidateSound(c) /\ m = c.audit
    BY DEF Evaluable, CandidateLoads, ArtifactSound
  <1>3. e = Holdout(e.candidate, e.candidate.audit)
    <2> HIDE DEF e
    <2> QED BY <1>1, <1>2 DEF e
  <1> HIDE DEF e
  <1>4. ArtifactSound(e)
    BY <1>1, <1>2, <1>3 DEF ArtifactSound
  <1> QED BY <1>4 DEF e
LEMMA PromotedSound ==
  ASSUME NEW c, NEW e, ArtifactSound(c), ArtifactSound(e), Promotable(c, e)
  PROVE  ArtifactSound(Promoted(c, e))
  <1> DEFINE a == Promoted(c, e)
  <1>1. a.kind = "model"
    BY DEF Promoted
  <1>2. Earned(a)
    BY PromotedIsEarned
  <1> HIDE DEF a
  <1>3. ArtifactSound(a)
    BY <1>1, <1>2 DEF ArtifactSound
  <1> QED BY <1>3 DEF a
LEMMA TouchedSound ==
  ASSUME NEW a, ArtifactSound(a), NEW b \in Touched(a)
  PROVE  ArtifactSound(b)
  <1>1. CASE a.kind = "candidate"
    <2>1. PICK t : b = [a EXCEPT !.intact = FALSE, !.threshold = t]
      BY <1>1 DEF Touched
    <2>2. DOMAIN b = DOMAIN a /\ b.kind = "candidate" /\ b.intact = FALSE
      BY <1>1, <2>1 DEF ArtifactSound
    <2> QED BY <1>1, <2>2 DEF ArtifactSound
  <1>2. CASE a.kind = "holdout"
    <2>1. b = [a EXCEPT !.intact = FALSE, !.failures = {}, !.passed = TRUE]
      BY <1>2 DEF Touched
    <2>2. DOMAIN b = DOMAIN a /\ b.kind = "holdout" /\ b.intact = FALSE
      BY <1>2, <2>1 DEF ArtifactSound
    <2> QED BY <1>2, <2>2 DEF ArtifactSound
  <1> QED BY <1>1, <1>2 DEF Touched
(* A domain is in one row, a malicious family in one part.                 *)
LEMMA TrainedSound ==
  ASSUME NEW rows, DatasetReads(rows)
  PROVE  ArtifactSound(Trained(rows))
  <1> DEFINE a == Trained(rows)
  <1>1. a.kind = "trained" /\ a.rows = rows
    BY DEF Trained
  <1>2. ASSUME NEW r \in Range(rows), NEW t \in Range(rows), r.split = "train", t.split = "test"
        PROVE  r.domain # t.domain /\ (r.label = 1 /\ t.label = 1 => r.family # t.family)
    <2>1. PICK i, j \in DOMAIN rows : r = rows[i] /\ t = rows[j]
      BY DEF Range
    <2> QED BY <1>2, <2>1 DEF DatasetReads
  <1>3. ArtifactSound(a)
    BY <1>1, <1>2 DEF ArtifactSound, Apart, Trained
  <1> QED BY <1>3

LEMMA PromotionStarts == PromotionInit => PromotionInv
  <1> SUFFICES ASSUME PromotionInit PROVE PromotionInv
    OBVIOUS
  <1>1. PICK model \in {Bundled, Unwritten} :
          disk = [p \in Research \cup {Demo} |-> IF p = Demo THEN model ELSE Unwritten]
    BY DEF PromotionInit
  <1>2. ArtifactSound(Bundled) /\ ArtifactSound(Unwritten)
    <2>1. DOMAIN <<>> = {}
      OBVIOUS
    <2> QED BY <2>1 DEF ArtifactSound, Bundled, Unwritten, Apart, Range
  <1>3. DiskSound
    BY <1>1, <1>2 DEF DiskSound, Paths
  <1>4. CommandsSound
    BY DEF PromotionInit, CommandsSound, CommandSound
  <1> QED BY <1>3, <1>4 DEF PromotionInit, PromotionInv

(* One command's change of its own state; one file's change.               *)
LEMMA OneCommand ==
  ASSUME CommandsSound, NEW w \in Workers, NEW c, worker' = [worker EXCEPT ![w] = c], CommandSound(w)'
  PROVE  CommandsSound'
  <1>1. ASSUME NEW v \in Workers, v # w PROVE CommandSound(v)'
    BY <1>1 DEF CommandsSound, CommandSound
  <1> QED BY <1>1 DEF CommandsSound
LEMMA OneFile ==
  ASSUME DiskSound, NEW p, NEW a, ArtifactSound(a), disk' = [disk EXCEPT ![p] = a]
  PROVE  DiskSound'
  BY DEF DiskSound
LEMMA WorksSound ==
  ASSUME PromotionInv, NEW w \in Workers, NEW out \in Paths, NEW a, ArtifactSound(a), Works(w, out, a)
  PROVE  PromotionInv'
  <1>1. /\ worker' = [worker EXCEPT ![w] = [step |-> "done", out |-> out, artifact |-> a]]
        /\ UNCHANGED <<manifest, disk>>
    BY DEF Works
  <1>2. CommandSound(w)'
    BY <1>1 DEF CommandSound, PromotionInv, CommandsSound
  <1>3. CommandsSound'
    BY <1>1, <1>2, OneCommand DEF PromotionInv
  <1> QED BY <1>1, <1>3 DEF PromotionInv, DiskSound

LEMMA PromotionKeeps == PromotionInv /\ [PromotionNext]_research => PromotionInv'
  <1> SUFFICES ASSUME PromotionInv, [PromotionNext]_research PROVE PromotionInv'
    OBVIOUS
  <1> USE DEF PromotionInv
  <1>0. \A p \in Paths : ArtifactSound(disk[p])
    BY DEF DiskSound
  <1>1. ASSUME NEW w \in Workers, NEW out \in Research, FitCandidate(w, out) PROVE PromotionInv'
    BY <1>1, FittedSound, WorksSound DEF FitCandidate, Paths
  <1>2. ASSUME NEW w \in Workers, NEW out \in Research, NEW from \in Research, EvaluateCandidate(w, from, out)
        PROVE  PromotionInv'
    <2>1. ArtifactSound(Holdout(disk[from], manifest))
      BY <1>0, <1>2, EvaluatedSound DEF EvaluateCandidate, Paths
    <2> QED BY <1>2, <2>1, WorksSound DEF EvaluateCandidate, Paths
  <1>3. ASSUME NEW w \in Workers, NEW out \in Research, NEW from \in Research, NEW report \in Research,
               PromoteCandidate(w, from, report, out)
        PROVE  PromotionInv'
    <2>1. ArtifactSound(Promoted(disk[from], disk[report]))
      BY <1>0, <1>3, PromotedSound DEF PromoteCandidate, Paths
    <2> QED BY <1>3, <2>1, WorksSound DEF PromoteCandidate, Paths
  <1>4. ASSUME NEW w \in Workers, OpenOutput(w) PROVE PromotionInv'
    <2> DEFINE out == worker[w].out
    <2>1. /\ CommandSound(w) /\ worker[w] # Resting /\ manifest' = manifest
          /\ \/ worker' = [worker EXCEPT ![w].step = "writing"] /\ disk' = [disk EXCEPT ![out] = Torn]
             \/ worker' = [worker EXCEPT ![w] = Resting] /\ disk' = disk
      BY <1>4 DEF OpenOutput, CommandsSound, Resting
    <2>2. ArtifactSound(Torn)
      BY DEF ArtifactSound, Torn
    <2>3. DiskSound'
      BY <2>1, <2>2, OneFile DEF DiskSound
    <2>4. CommandSound(w)'
      BY <2>1 DEF CommandSound, CommandsSound
    <2>5. CommandsSound'
      <3>1. \E c : worker' = [worker EXCEPT ![w] = c]
        BY <2>1
      <3> QED BY <2>4, <3>1, OneCommand
    <2> QED BY <2>1, <2>3, <2>5
  <1>5. ASSUME NEW w \in Workers, CloseOutput(w) \/ Kill(w) PROVE PromotionInv'
    <2>1. /\ CommandSound(w) /\ worker[w] # Resting /\ manifest' = manifest
          /\ worker' = [worker EXCEPT ![w] = Resting]
          /\ disk' = disk \/ disk' = [disk EXCEPT ![worker[w].out] = worker[w].artifact]
      BY <1>5 DEF CloseOutput, Kill, CommandsSound, Resting
    <2>2. DiskSound'
      BY <2>1, OneFile DEF CommandSound, DiskSound
    <2>3. CommandSound(w)'
      BY <2>1 DEF CommandSound, CommandsSound
    <2>4. CommandsSound'
      BY <2>1, <2>3, OneCommand
    <2> QED BY <2>1, <2>2, <2>4
  <1>6. CASE ReviseManifest \/ SpoilSource
    BY <1>6 DEF ReviseManifest, SpoilSource, Change, DiskSound, CommandsSound, CommandSound
  <1>7. CASE TouchArtifact
    <2>1. PICK p \in Research : \E a \in Touched(disk[p]) : disk' = [disk EXCEPT ![p] = a]
      BY <1>7 DEF TouchArtifact
    <2>2. DiskSound'
      BY <1>0, <2>1, TouchedSound, OneFile DEF Paths
    <2> QED BY <1>7, <2>2 DEF TouchArtifact, Change, CommandsSound, CommandSound
  <1>8. CASE UNCHANGED research
    BY <1>8 DEF research, DiskSound, CommandsSound, CommandSound
  <1> QED BY <1>1, <1>2, <1>3, <1>4, <1>5, <1>6, <1>7, <1>8 DEF PromotionNext

(* A promoted model passed its gates on domains and families it was        *)
(* neither fitted nor tuned on, and no operating point did better on the   *)
(* validation part, whatever runs, breaks or changes in between            *)
(* (dns_calibration.py, dns_corpus.py).                                    *)
THEOREM PromotionEarned == PromotionSpec => []PromotedEarned
  <1>1. PromotionInv => PromotedEarned
    BY DEF PromotionInv, DiskSound, ArtifactSound, PromotedEarned, Paths
  <1> QED BY <1>1, PromotionStarts, PromotionKeeps, PTL DEF PromotionSpec

-----------------------------------------------------------------------------
(* What a session runs.                                                    *)

(* A session being opened has what the disk held, or a contract's word.    *)
OpeningSound ==
  opening # Closed =>
    IF opening.contract # Closed
    THEN opening.model = NoModel /\ (policy = opening.contract.pins \/ swapped)
    ELSE opening.model.kind # "candidate" /\ ArtifactSound(opening.model)
ServiceInv == PromotionInv /\ OpeningSound /\ SessionAuthority

LEMMA ServiceStep == ServiceInv /\ [DeploymentNext]_<<research, service>> => ServiceInv'
  <1> SUFFICES ASSUME ServiceInv, [DeploymentNext]_<<research, service>> PROVE ServiceInv'
    OBVIOUS
  <1> USE DEF ServiceInv
  <1>0. ArtifactSound(NoModel) /\ NoModel.kind # "candidate"
    BY DEF ArtifactSound, NoModel
  <1>1. CASE (PromotionNext /\ UNCHANGED service) \/ UNCHANGED <<research, service>>
    <2>1. PromotionInv'
      BY <1>1, PromotionKeeps
    <2> QED BY <1>1, <2>1 DEF service, OpeningSound, SessionAuthority
  <1>2. ASSUME UNCHANGED research PROVE PromotionInv'
    BY <1>2, PromotionKeeps
  <1>3. CASE StartUnderContract \/ StartUnmodelled
    <2>1. /\ opening' \in {[step |-> "opening", contract |-> contract, model |-> NoModel],
                           [step |-> "opening", contract |-> Closed, model |-> NoModel]}
          /\ opening'.contract # Closed => policy' = opening'.contract.pins
          /\ UNCHANGED <<session, research>>
      BY <1>3 DEF StartUnderContract, StartUnmodelled, Pinned
    <2>2. opening'.model = NoModel
      BY <2>1
    <2> QED BY <1>0, <1>2, <2>1, <2>2 DEF OpeningSound, SessionAuthority
  <1>4. ASSUME NEW p \in Paths, StartWithModel(p) PROVE ServiceInv'
    <2>1. /\ opening' = [step |-> "opening", contract |-> Closed, model |-> disk[p]]
          /\ disk[p].kind # "candidate" /\ UNCHANGED <<session, research>>
      BY <1>4 DEF StartWithModel, Loadable
    <2>2. ArtifactSound(disk[p])
      BY DEF PromotionInv, DiskSound
    <2> QED BY <1>2, <2>1, <2>2 DEF OpeningSound, SessionAuthority
  <1>5. CASE ReadPolicy
    <2>1. /\ opening # Closed /\ opening' = Closed /\ UNCHANGED research
          /\ \/ session' = session
             \/ session' = [step |-> "open", contract |-> opening.contract, model |-> opening.model,
                            policy |-> policy, swapped |-> swapped]
      BY <1>5 DEF ReadPolicy
    <2>2. SessionAuthority'
      BY <2>1 DEF OpeningSound, SessionAuthority, ArtifactSound
    <2> QED BY <1>2, <2>1, <2>2 DEF OpeningSound
  <1>6. CASE EditContract \/ EditPolicy
    <2>1. /\ UNCHANGED <<manifest, spoiled, disk, worker, kills, opening, session>>
          /\ (policy' = policy /\ swapped' = swapped) \/ swapped' = (swapped \/ opening # Closed)
      BY <1>6 DEF EditContract, EditPolicy, Change
    <2>2. PromotionInv'
      BY <2>1 DEF PromotionInv, DiskSound, CommandsSound, CommandSound
    <2>3. OpeningSound'
      <3>1. CASE policy' = policy /\ swapped' = swapped
        BY <2>1, <3>1 DEF OpeningSound
      <3>2. CASE swapped' = (swapped \/ opening # Closed)
        <4>1. opening # Closed => swapped'
          BY <3>2
        <4> QED BY <2>1, <4>1 DEF OpeningSound
      <3> QED BY <2>1, <3>1, <3>2
    <2> QED BY <2>1, <2>2, <2>3 DEF SessionAuthority
  <1>7. ASSUME NEW w \in Workers, NEW rows \in Datasets, Retrain(w, rows) PROVE ServiceInv'
    <2>1. /\ DatasetReads(rows) /\ disk' = [disk EXCEPT ![Demo] = Torn]
          /\ worker' = [worker EXCEPT ![w] = [step |-> "writing", out |-> Demo, artifact |-> Trained(rows)]]
          /\ manifest' = manifest /\ UNCHANGED service
      BY <1>7 DEF Retrain
    <2>2. ArtifactSound(Torn)
      BY DEF ArtifactSound, Torn
    <2>3. DiskSound'
      BY <2>1, <2>2, OneFile DEF PromotionInv
    <2>4. ArtifactSound(Trained(rows))
      BY <2>1, TrainedSound
    <2>5. CommandSound(w)'
      BY <2>1, <2>4 DEF PromotionInv, CommandsSound, CommandSound, Paths
    <2>6. CommandsSound'
      BY <2>1, <2>5, OneCommand DEF PromotionInv
    <2>7. PromotionInv'
      BY <2>1, <2>3, <2>6 DEF PromotionInv
    <2> QED BY <2>1, <2>7 DEF service, OpeningSound, SessionAuthority
  <1> QED BY <1>1, <1>3, <1>4, <1>5, <1>6, <1>7 DEF DeploymentNext, Paths

(* A session runs what its contract pins, without a model, or a model that *)
(* earned it or was scored on names it did not train on, and never a       *)
(* research candidate (deployment_config.py, dns_model.py).                *)
THEOREM SessionsAuthorised == DeploymentSpec => []SessionAuthority
  <1>1. PromotionInit /\ DeploymentInit => ServiceInv
    BY PromotionStarts DEF DeploymentInit, ServiceInv, OpeningSound, SessionAuthority
  <1>2. ServiceInv => SessionAuthority
    BY DEF ServiceInv
  <1> QED BY <1>1, <1>2, ServiceStep, PTL DEF DeploymentSpec

-----------------------------------------------------------------------------
(* A replay of recorded inputs.  The invariant follows the reader: of the  *)
(* file being read, the counters are what the records read so far amount   *)
(* to (Account); of the files before, a status of healthy says that        *)
(* nothing of them was refused, repeated or late (TotalSound).  Of the     *)
(* events, their times and fingerprints come from records (EventsSound).   *)
(* Of the packets read so far, the counters miss none that was cut, late   *)
(* or ambiguous (CaptureTally), and a connection with an identity of its own has  *)
(* heard exactly its own packets, the most recent of them kept (Heard).    *)

(* A file's counters.                                                      *)

(* time is the latest in s: None of no record.                             *)
LatestOf(s, time) ==
  IF Len(s) = 0 THEN time = None
  ELSE time \in Nat /\ (\E i \in 1..Len(s) : s[i].ts = time) /\ \A i \in 1..Len(s) : s[i].ts <= time
Timed(s) == IsSeq(s) /\ \A i \in 1..Len(s) : s[i].ts \in Nat
(* skew is the largest gap by which a record of s is late.                 *)
SkewOf(s, skew) == skew \in {0} \cup Gaps(s) /\ \A g \in Gaps(s) : g <= skew

LEMMA LatestAppend ==
  ASSUME NEW s, Timed(s), NEW r, r.ts \in Nat, NEW time, LatestOf(s, time)
  PROVE  /\ Timed(Append(s, r))
         /\ LatestOf(Append(s, r), IF time = None \/ time = 0 THEN r.ts ELSE Max({r.ts, time}))
  <1> DEFINE t == Append(s, r)
             next == IF time = None \/ time = 0 THEN r.ts ELSE Max({r.ts, time})
  <1>1. IsSeq(t) /\ Len(t) = Len(s) + 1 /\ t[Len(s) + 1] = r /\ \A i \in 1..Len(s) : t[i] = s[i]
    BY AppendIsSeq DEF Timed
  <1>2. Len(s) \in Nat /\ Len(t) \in Nat /\ None \notin Nat
    BY <1>1, SeqFacts, SourcesAssumption DEF Timed
  <1> HIDE DEF t
  <1>3. Timed(t)
    BY <1>1, <1>2 DEF Timed
  <1>4. next \in Nat /\ r.ts <= next /\ (Len(s) # 0 => time <= next)
    BY <1>2, MaxOfTwo DEF LatestOf
  <1>5. next = r.ts \/ (Len(s) # 0 /\ next = time)
    BY <1>2, MaxOfTwo DEF LatestOf
  <1> HIDE DEF next
  <1>6. \A i \in 1..Len(t) : t[i].ts <= next
    BY <1>1, <1>2, <1>3, <1>4 DEF LatestOf, Timed
  <1>7. \E i \in 1..Len(t) : t[i].ts = next
    BY <1>1, <1>2, <1>5 DEF LatestOf
  <1>8. LatestOf(t, next)
    BY <1>1, <1>2, <1>4, <1>6, <1>7 DEF LatestOf
  <1> QED BY <1>3, <1>8 DEF t, next

LEMMA LateAppend ==
  ASSUME NEW s, Timed(s), NEW r, r.ts \in Nat, NEW time, LatestOf(s, time), IsFiniteSet(Late(s))
  PROVE  /\ IsFiniteSet(Late(Append(s, r)))
         /\ Cardinality(Late(Append(s, r))) = Cardinality(Late(s)) + IF time # None /\ r.ts < time THEN 1 ELSE 0
         /\ Cardinality(Late(s)) \in Nat
  <1> DEFINE t == Append(s, r)
  <1>1. IsSeq(t) /\ Len(t) = Len(s) + 1 /\ t[Len(s) + 1] = r /\ \A i \in 1..Len(s) : t[i] = s[i]
    BY AppendIsSeq DEF Timed
  <1>2. Len(s) \in Nat /\ Len(t) \in Nat /\ None \notin Nat /\ DOMAIN s = 1..Len(s) /\ DOMAIN t = 1..Len(t)
    BY <1>1, SeqFacts, SourcesAssumption DEF Timed
  <1> HIDE DEF t
  <1>3. (time # None /\ r.ts < time) <=> \E i \in 1..Len(s) : s[i].ts > r.ts
    BY <1>2 DEF LatestOf, Timed
  <1>4. Late(t) = Late(s) \cup (IF time # None /\ r.ts < time THEN {Len(s) + 1} ELSE {})
    <2>1. \A j \in 1..Len(s) : j \in Late(t) <=> j \in Late(s)
      BY <1>1, <1>2 DEF Late
    <2>2. Len(s) + 1 \in Late(t) <=> (time # None /\ r.ts < time)
      BY <1>1, <1>2, <1>3 DEF Late
    <2>3. Late(t) \subseteq 1..(Len(s) + 1) /\ Late(s) \subseteq 1..Len(s)
      BY <1>1, <1>2 DEF Late
    <2> QED BY <1>2, <2>1, <2>2, <2>3
  <1>5. Len(s) + 1 \notin Late(s)
    BY <1>2 DEF Late
  <1>6. Cardinality(Late(s)) \in Nat
    BY FS_CardinalityType
  <1>7. IsFiniteSet(Late(s) \cup {Len(s) + 1}) /\ Cardinality(Late(s) \cup {Len(s) + 1}) = Cardinality(Late(s)) + 1
    BY <1>5, FS_AddElement
  <1>8. CASE time # None /\ r.ts < time
    BY <1>4, <1>6, <1>7, <1>8 DEF t
  <1>9. CASE ~(time # None /\ r.ts < time)
    <2>1. Late(t) = Late(s)
      BY <1>4, <1>9
    <2> QED BY <1>6, <1>9, <2>1 DEF t
  <1> QED BY <1>8, <1>9

LEMMA SkewAppend ==
  ASSUME NEW s, Timed(s), NEW r, r.ts \in Nat, NEW time, LatestOf(s, time), NEW skew \in Nat, SkewOf(s, skew)
  PROVE  LET next == IF time # None /\ r.ts < time THEN Max({skew, time - r.ts}) ELSE skew
         IN  next \in Nat /\ SkewOf(Append(s, r), next)
  <1> DEFINE t == Append(s, r)
             next == IF time # None /\ r.ts < time THEN Max({skew, time - r.ts}) ELSE skew
  <1>1. IsSeq(t) /\ Len(t) = Len(s) + 1 /\ t[Len(s) + 1] = r /\ \A i \in 1..Len(s) : t[i] = s[i]
    BY AppendIsSeq DEF Timed
  <1>2. Len(s) \in Nat /\ Len(t) \in Nat /\ None \notin Nat /\ DOMAIN s = 1..Len(s) /\ DOMAIN t = 1..Len(t)
    BY <1>1, SeqFacts, SourcesAssumption DEF Timed
  <1> HIDE DEF t
  <1> DEFINE new == {s[i].ts - r.ts : i \in 1..Len(s)}
  <1>3. Gaps(t) = Gaps(s) \cup new
    <2>1. \A j \in 1..Len(s) : {t[i].ts - t[j].ts : i \in 1..(j - 1)} = {s[i].ts - s[j].ts : i \in 1..(j - 1)}
      BY <1>1, <1>2
    <2>2. {t[i].ts - t[Len(s) + 1].ts : i \in 1..((Len(s) + 1) - 1)} = new
      BY <1>1, <1>2
    <2>3. 1..Len(t) = 1..Len(s) \cup {Len(s) + 1}
      BY <1>1, <1>2
    <2> HIDE DEF new
    <2>4. \A g : g \in Gaps(t) <=> \E j \in 1..Len(t) : g \in {t[i].ts - t[j].ts : i \in 1..(j - 1)}
      BY <1>2 DEF Gaps
    <2>5. \A g : g \in Gaps(s) <=> \E j \in 1..Len(s) : g \in {s[i].ts - s[j].ts : i \in 1..(j - 1)}
      BY <1>2 DEF Gaps
    <2> DEFINE Before(u, j) == {u[i].ts - u[j].ts : i \in 1..(j - 1)}
    <2>6. /\ \A g : g \in Gaps(t) <=> \E j \in 1..Len(s) \cup {Len(s) + 1} : g \in Before(t, j)
          /\ \A g : g \in Gaps(s) <=> \E j \in 1..Len(s) : g \in Before(s, j)
          /\ \A j \in 1..Len(s) : Before(t, j) = Before(s, j)
          /\ Before(t, Len(s) + 1) = new
      BY <2>1, <2>2, <2>3, <2>4, <2>5
    <2> HIDE DEF Before
    <2>7. \A g : g \in Gaps(t) <=> g \in Gaps(s) \/ g \in new
      BY <2>6
    <2> QED BY <2>7
  <1>4. next \in Nat /\ skew <= next /\ \A g \in new : g <= next
    <2>1. CASE time # None /\ r.ts < time
      <3>1. time \in Nat /\ \A i \in 1..Len(s) : s[i].ts \in Nat /\ s[i].ts <= time
        BY <1>2, <2>1 DEF LatestOf, Timed
      <3>2. next = IF skew >= time - r.ts THEN skew ELSE time - r.ts
        BY <2>1, <3>1, MaxOfTwo
      <3> HIDE DEF next
      <3>3. next \in Nat /\ skew <= next /\ time - r.ts <= next
        BY <2>1, <3>1, <3>2
      <3>4. \A i \in 1..Len(s) : s[i].ts - r.ts <= next
        BY <3>1, <3>3
      <3> QED BY <3>3, <3>4
    <2>2. CASE ~(time # None /\ r.ts < time)
      BY <1>2, <2>2 DEF LatestOf, Timed
    <2> QED BY <2>1, <2>2
  <1>5. next = skew \/ next \in new
    <2>1. CASE time # None /\ r.ts < time
      <3>1. time \in Nat /\ \E i \in 1..Len(s) : s[i].ts = time
        BY <1>2, <2>1 DEF LatestOf, Timed
      <3>2. time - r.ts \in new
        BY <3>1
      <3>3. next = IF skew >= time - r.ts THEN skew ELSE time - r.ts
        BY <2>1, <3>1, MaxOfTwo
      <3> QED BY <3>2, <3>3
    <2>2. CASE ~(time # None /\ r.ts < time)
      BY <2>2
    <2> QED BY <2>1, <2>2
  <1>6. \A g \in Gaps(s) : g \in Int
    BY <1>2 DEF Gaps, Timed
  <1> HIDE DEF next, new
  <1>7. SkewOf(t, next)
    BY <1>3, <1>4, <1>5, <1>6 DEF SkewOf
  <1> QED BY <1>4, <1>7 DEF t, next

-----------------------------------------------------------------------------
(* The input: sorting a capture's logs by time, dropping comments and       *)
(* choosing what is normal leave sequences of the file's own records.      *)

InTimeStep(all, sorted, r) == InTime(sorted, r)
InTimeHolds(all, sorted) == IsSeq(sorted) /\ Range(sorted) \subseteq all
Dating == INSTANCE FoldProofs WITH Op <- InTimeStep, Holds <- InTimeHolds

LEMMA InTimeKeeps ==
  ASSUME NEW all, NEW sorted, InTimeHolds(all, sorted), NEW r \in all
  PROVE  InTimeHolds(all, InTimeStep(all, sorted, r))
  <1> DEFINE before == {i \in DOMAIN sorted : NotAfter(sorted[i], r)}
             k == Max({0} \cup before)
  <1>1. k \in 0..Len(sorted)
    BY LastOf DEF InTimeHolds
  <1>2. InTime(sorted, r) = InsertAt(sorted, k + 1, r)
    BY DEF InTime
  <1> HIDE DEF k
  <1> QED BY <1>1, <1>2, InsertIsSeq DEF InTimeHolds, InTimeStep

LEMMA ChronologicalIsSeq ==
  ASSUME NEW lines, IsSeq(lines)
  PROVE  IsSeq(Chronological(lines)) /\ Range(Chronological(lines)) \subseteq Range(lines)
  <1> DEFINE all == Range(lines)
  <1>1. Len(lines) \in Nat /\ \A i \in 1..Len(lines) : lines[i] \in all
    BY SeqFacts
  <1>2. InTimeHolds(all, <<>>)
    BY EmptyIsSeq DEF InTimeHolds
  <1> HIDE DEF all
  <1>3. \A i \in 1..Len(lines) : \A acc : InTimeHolds(all, acc) => InTimeHolds(all, InTimeStep(all, acc, lines[i]))
    BY <1>1, InTimeKeeps
  <1>4. InTimeHolds(all, Dating!Result(all, <<>>, lines))
    BY <1>1, <1>2, <1>3, Dating!FoldInvariant
  <1>5. Dating!Result(all, <<>>, lines) = Chronological(lines)
    BY DEF Dating!Result, Dating!Folded, Chronological, Folded, InTimeStep
  <1> QED BY <1>4, <1>5 DEF InTimeHolds, all

LEMMA SourceFacts ==
  ASSUME source \in Sources
  PROVE  /\ IsSeq(source.files) /\ Len(source.files) \in Nat /\ DOMAIN source.files = 1..Len(source.files)
         /\ source.how \notin {"capture", "directory"} => Len(source.files) <= 1
         /\ source.how = "log" => source.packets = None
         /\ source.packets # None =>
              IsSeq(source.packets) /\ Len(source.packets) \in Nat /\ \A p \in Range(source.packets) : p.ts \in Nat
  <1>1. IsSeq(source.files)
    BY SourcesAssumption DEF IsSeq
  <1>2. source.packets # None => IsSeq(source.packets)
    BY SourcesAssumption DEF IsSeq
  <1> QED BY <1>1, <1>2, SeqFacts, SourcesAssumption

LEMMA RecordsFacts ==
  ASSUME source \in Sources, NEW n \in DOMAIN source.files
  PROVE  /\ IsSeq(Records(n)) /\ Len(Records(n)) \in Nat /\ DOMAIN Records(n) = 1..Len(Records(n))
         /\ \A r \in Range(Records(n)) : r.ts \in Nat
  <1> DEFINE f == source.files[n]
  <1>1. f \in Range(source.files)
    BY SourceFacts, SeqFacts
  <1>2. IsSeq(f.lines) /\ \A r \in Range(f.lines) : r.ts \in Nat
    BY <1>1, SourcesAssumption DEF IsSeq
  <1>3. IsSeq(Lines(n)) /\ Range(Lines(n)) \subseteq Range(f.lines)
    BY <1>2, ChronologicalIsSeq DEF Lines
  <1>4. IsSeq(Records(n)) /\ Range(Records(n)) \subseteq Range(Lines(n))
    BY <1>3, ChosenIsSeq DEF Records, Parsed, Uncommented
  <1> QED BY <1>2, <1>3, <1>4, SeqFacts

-----------------------------------------------------------------------------
(* The account of file n, of whose records those before the k-th were      *)
(* read: known are the records by their keys, kept the accepted ones.      *)
Counters == {"seen", "accepted", "rejected", "badTimes", "unsupported", "disordered", "skew", "exact", "conflicting"}
Counts(q) == DOMAIN q = Counters \cup {"status"} /\ \A f \in Counters : q[f] \in Nat
ReadSoFar(n, k) == SubSeq(Records(n), 1, k - 1)
Account(n, k, q, last, known, kept) ==
  /\ k \in 1..(Len(Records(n)) + 1) /\ Counts(q)
  /\ q.seen = k - 1 /\ q.accepted + q.rejected = q.seen
  /\ Timed(kept) /\ kept = Chosen(ReadSoFar(n, k), Normal(n))
  /\ q.rejected = 0 => kept = ReadSoFar(n, k)
  /\ LatestOf(kept, last)
  /\ IsFiniteSet(Late(kept)) /\ q.disordered = Cardinality(Late(kept)) /\ SkewOf(kept, q.skew)
  /\ {s.key : s \in known} = {Key(r, source.files[n]) : r \in Range(kept)}
  /\ IsFiniteSet(Distinct(kept, n))
  /\ Compared(n) => q.exact + q.conflicting = Len(kept) - Cardinality(Distinct(kept, n))

LEMMA SkewIsMax ==
  ASSUME NEW s, Timed(s), NEW skew \in Nat, SkewOf(s, skew)
  PROVE  skew = Max({0} \cup Gaps(s))
  <1> DEFINE S == {0} \cup Gaps(s)
  <1>1. Len(s) \in Nat /\ DOMAIN s = 1..Len(s)
    BY SeqFacts DEF Timed
  <1>2. \A g \in Gaps(s) : g \in Int
    BY <1>1 DEF Gaps, Timed
  <1>3. skew \in S /\ \A g \in S : g \in Int /\ skew >= g
    BY <1>2 DEF SkewOf
  <1> HIDE DEF S
  <1>4. \A u \in S : (\A v \in S : u >= v) => u = skew
    BY <1>3
  <1>5. Max(S) = skew
    BY <1>3, <1>4 DEF Max
  <1> QED BY <1>5 DEF S

(* What a key tells apart is what a subject does: a flow, and the          *)
(* transactions of its DNS records.                                        *)
LEMMA SameSubject ==
  ASSUME NEW n, NEW r, NEW x
  PROVE  Subject(r, n) = Subject(x, n) <=> Key(r, source.files[n]) = Key(x, source.files[n])
  <1> DEFINE kind(y) == KindOf(y, source.files[n].kind)
  <1>1. Key(r, source.files[n])[1] = kind(r) /\ Key(x, source.files[n])[1] = kind(x)
    BY DEF Key
  <1>2. Subject(r, n)[1] = kind(r) /\ Subject(x, n)[1] = kind(x)
    BY DEF Subject
  <1>3. CASE kind(r) # kind(x)
    BY <1>1, <1>2, <1>3
  <1>4. CASE kind(r) = kind(x)
    BY <1>4 DEF Key, Subject
  <1> QED BY <1>3, <1>4

LEMMA DistinctAppend ==
  ASSUME NEW n, NEW s, IsSeq(s), IsFiniteSet(Distinct(s, n)), NEW r
  PROVE  /\ IsFiniteSet(Distinct(Append(s, r), n)) /\ Cardinality(Distinct(s, n)) \in Nat
         /\ Cardinality(Distinct(Append(s, r), n)) =
              Cardinality(Distinct(s, n)) + IF \E x \in Range(s) : Subject(x, n) = Subject(r, n) THEN 0 ELSE 1
  <1>1. Distinct(Append(s, r), n) = Distinct(s, n) \cup {Subject(r, n)}
    BY AppendIsSeq DEF Distinct
  <1>2. (\E x \in Range(s) : Subject(x, n) = Subject(r, n)) <=> Subject(r, n) \in Distinct(s, n)
    BY DEF Distinct
  <1>3. Cardinality(Distinct(s, n)) \in Nat
    BY FS_CardinalityType
  <1>4. /\ IsFiniteSet(Distinct(s, n) \cup {Subject(r, n)})
        /\ Cardinality(Distinct(s, n) \cup {Subject(r, n)}) =
             Cardinality(Distinct(s, n)) + IF Subject(r, n) \in Distinct(s, n) THEN 0 ELSE 1
    BY <1>3, FS_AddElement
  <1> QED BY <1>1, <1>2, <1>3, <1>4

LEMMA ReadNext ==
  ASSUME source \in Sources, NEW n \in DOMAIN source.files, NEW k \in 1..Len(Records(n))
  PROVE  /\ IsSeq(ReadSoFar(n, k)) /\ ReadSoFar(n, k + 1) = Append(ReadSoFar(n, k), Records(n)[k])
         /\ Records(n)[k] \in Range(Records(n)) /\ Records(n)[k].ts \in Nat
         /\ Chosen(ReadSoFar(n, k + 1), Normal(n)) =
              IF Judged(Records(n)[k], source.files[n]).error = "none"
              THEN Append(Chosen(ReadSoFar(n, k), Normal(n)), Records(n)[k])
              ELSE Chosen(ReadSoFar(n, k), Normal(n))
  <1> DEFINE s == Records(n)
             m == k - 1
  <1>1. IsSeq(s) /\ Len(s) \in Nat /\ \A i \in 1..Len(s) : s[i] \in Range(s) /\ s[i].ts \in Nat
    BY RecordsFacts, SeqFacts
  <1>2. m \in Nat /\ m < Len(s) /\ m + 1 = k /\ (k + 1) - 1 = k /\ k \in 1..Len(s)
    BY <1>1
  <1>3. ReadSoFar(n, k) = SubSeq(s, 1, m) /\ ReadSoFar(n, k + 1) = SubSeq(s, 1, k)
    BY <1>2 DEF ReadSoFar
  <1> HIDE DEF s, m
  <1>4. SubSeq(s, 1, m + 1) = Append(SubSeq(s, 1, m), s[m + 1]) /\ IsSeq(SubSeq(s, 1, m))
    BY <1>1, <1>2, PrefixExtends
  <1>5. IsSeq(ReadSoFar(n, k)) /\ ReadSoFar(n, k + 1) = Append(ReadSoFar(n, k), s[k])
    BY <1>2, <1>3, <1>4
  <1>6. s[k] \in Normal(n) <=> Judged(s[k], source.files[n]).error = "none"
    BY <1>1, <1>2 DEF Normal, s
  <1>7. Chosen(ReadSoFar(n, k + 1), Normal(n)) =
          IF s[k] \in Normal(n) THEN Append(Chosen(ReadSoFar(n, k), Normal(n)), s[k])
          ELSE Chosen(ReadSoFar(n, k), Normal(n))
    <2> DEFINE u == ReadSoFar(n, k)
    <2>1. IsSeq(u)
      BY <1>5
    <2> HIDE DEF u
    <2>2. \A x, good : Chosen(Append(u, x), good) = IF x \in good THEN Append(Chosen(u, good), x) ELSE Chosen(u, good)
      BY <2>1, ChosenAppend
    <2> QED BY <1>5, <2>2 DEF u
  <1> QED BY <1>1, <1>2, <1>5, <1>6, <1>7 DEF s

(* A record accepted or rejected keeps the account, and a file starts with *)
(* a true one.                                                             *)
LEMMA AccountAccept ==
  ASSUME source \in Sources, part \in DOMAIN source.files, at <= Len(Records(part)),
         Account(part, at, quality, latest, seen, accepted), Verdict.error = "none"
  PROVE  Account(part, at + 1, Acceptance(quality, Current, File, Compared(part)), NextLatest(Current),
                 IF KnownKey(Key(Current, File)) THEN seen
                 ELSE seen \cup {[key |-> Key(Current, File), record |-> Current]},
                 Append(accepted, Current))
  <1> DEFINE r == Current
             q == quality
             p == Acceptance(quality, Current, File, Compared(part))
             known == IF KnownKey(Key(r, File)) THEN seen ELSE seen \cup {[key |-> Key(r, File), record |-> r]}
             kept == Append(accepted, r)
             next == NextLatest(r)
             repeat == Compared(part) /\ KnownKey(Key(r, File))
  <1>0. Len(Records(part)) \in Nat /\ at \in 1..Len(Records(part)) /\ r = Records(part)[at]
    BY RecordsFacts DEF Account, Current
  <1>1. /\ IsSeq(ReadSoFar(part, at)) /\ ReadSoFar(part, at + 1) = Append(ReadSoFar(part, at), r) /\ r.ts \in Nat
        /\ Chosen(ReadSoFar(part, at + 1), Normal(part)) = Append(Chosen(ReadSoFar(part, at), Normal(part)), r)
    BY <1>0, ReadNext DEF Verdict, File
  <1>2. /\ DOMAIN p = DOMAIN q /\ p.seen = q.seen + 1 /\ p.accepted = q.accepted + 1 /\ p.rejected = q.rejected
        /\ p.badTimes = q.badTimes /\ p.unsupported = q.unsupported
        /\ p.disordered = q.disordered + IF latest # None /\ r.ts < latest THEN 1 ELSE 0
        /\ p.skew = IF latest # None /\ r.ts < latest THEN Max({q.skew, latest - r.ts}) ELSE q.skew
        /\ \/ repeat /\ p.exact = q.exact + 1 /\ p.conflicting = q.conflicting + 0
           \/ repeat /\ p.exact = q.exact + 0 /\ p.conflicting = q.conflicting + 1
           \/ ~repeat /\ p.exact = q.exact + 0 /\ p.conflicting = q.conflicting + 0
    BY DEF Account, Counts, Counters, Acceptance, Behind
  <1>3. /\ Timed(accepted) /\ IsSeq(accepted) /\ Len(accepted) \in Nat /\ Counts(q)
        /\ LatestOf(accepted, latest) /\ IsFiniteSet(Late(accepted)) /\ SkewOf(accepted, q.skew)
        /\ q.skew \in Nat /\ IsFiniteSet(Distinct(accepted, part))
    BY SeqFacts DEF Account, Timed, Counts, Counters
  <1>4. Timed(kept) /\ LatestOf(kept, next)
    BY <1>1, <1>3, LatestAppend DEF NextLatest
  <1>5. /\ IsFiniteSet(Late(kept)) /\ Cardinality(Late(kept)) = p.disordered
        /\ p.disordered \in Nat
    <2>1. q.disordered = Cardinality(Late(accepted))
      BY DEF Account
    <2> HIDE DEF kept, p, q, r
    <2> QED BY <1>1, <1>2, <1>3, <2>1, LateAppend DEF kept
  <1>6. SkewOf(kept, p.skew) /\ p.skew \in Nat
    <2> HIDE DEF p, q, r
    <2> QED BY <1>1, <1>2, <1>3, SkewAppend DEF kept
  <1>7. {s.key : s \in seen} = {Key(x, File) : x \in Range(accepted)}
    BY DEF Account, File
  <1>8. KnownKey(Key(r, File)) <=> \E x \in Range(accepted) : Key(x, File) = Key(r, File)
    <2>1. KnownKey(Key(r, File)) <=> Key(r, File) \in {s.key : s \in seen}
      BY DEF KnownKey
    <2> HIDE DEF r
    <2> QED BY <1>7, <2>1
  <1>9. {s.key : s \in known} = {Key(x, File) : x \in Range(kept)}
    <2>1. Range(kept) = Range(accepted) \cup {r}
      BY <1>3, AppendIsSeq
    <2>2. [key |-> Key(r, File), record |-> r].key = Key(r, File)
      OBVIOUS
    <2> HIDE DEF r, kept
    <2>3. {Key(x, File) : x \in Range(kept)} = {Key(x, File) : x \in Range(accepted)} \cup {Key(r, File)}
      BY <2>1
    <2>4. {s.key : s \in known} = {s.key : s \in seen} \cup {Key(r, File)}
      BY <2>2 DEF KnownKey
    <2> QED BY <1>7, <2>3, <2>4
  <1>10. /\ IsFiniteSet(Distinct(kept, part)) /\ Cardinality(Distinct(accepted, part)) \in Nat
         /\ Cardinality(Distinct(kept, part)) =
              Cardinality(Distinct(accepted, part)) + IF KnownKey(Key(r, File)) THEN 0 ELSE 1
    <2>1. KnownKey(Key(r, File)) <=> \E x \in Range(accepted) : Subject(x, part) = Subject(r, part)
      BY <1>8, SameSubject DEF File
    <2> QED BY <1>3, <2>1, DistinctAppend
  <1>11. Len(kept) = Len(accepted) + 1
    BY <1>3, AppendIsSeq
  <1>12. Counts(p)
    <2>1. \A f \in Counters : q[f] \in Nat
      BY <1>3 DEF Counts
    <2>2. /\ q.seen \in Nat /\ q.accepted \in Nat /\ q.rejected \in Nat /\ q.badTimes \in Nat
          /\ q.unsupported \in Nat /\ q.exact \in Nat /\ q.conflicting \in Nat
      BY <2>1 DEF Counters
    <2>3. DOMAIN p = Counters \cup {"status"}
      BY <1>2, <1>3 DEF Counts
    <2> HIDE DEF p, q
    <2>4. p.seen \in Nat /\ p.accepted \in Nat /\ p.rejected \in Nat
      BY <1>2, <2>2
    <2>5. p.badTimes \in Nat /\ p.unsupported \in Nat
      BY <1>2, <2>2
    <2>6. p.exact \in Nat /\ p.conflicting \in Nat
      BY <1>2, <2>2
    <2> QED BY <1>5, <1>6, <2>3, <2>4, <2>5, <2>6 DEF Counts, Counters
  <1>13. at + 1 \in 1..(Len(Records(part)) + 1) /\ p.seen = (at + 1) - 1 /\ p.accepted + p.rejected = p.seen
    <2>1. q.seen = at - 1 /\ q.accepted + q.rejected = q.seen
      BY DEF Account
    <2>2. q.seen \in Nat /\ q.accepted \in Nat /\ q.rejected \in Nat
      BY <1>3 DEF Counts, Counters
    <2> HIDE DEF p, q
    <2> QED BY <1>0, <1>2, <2>1, <2>2
  <1>14. kept = Chosen(ReadSoFar(part, at + 1), Normal(part))
    BY <1>1 DEF Account
  <1>15. p.rejected = 0 => kept = ReadSoFar(part, at + 1)
    BY <1>1, <1>2 DEF Account
  <1>16. Compared(part) => p.exact + p.conflicting = Len(kept) - Cardinality(Distinct(kept, part))
    <2>1. Compared(part) => q.exact + q.conflicting = Len(accepted) - Cardinality(Distinct(accepted, part))
      BY DEF Account
    <2>2. q.exact \in Nat /\ q.conflicting \in Nat
      BY <1>3 DEF Counts, Counters
    <2>3. Len(accepted) \in Nat
      BY <1>3, SeqFacts
    <2> HIDE DEF p, q, kept, r
    <2>4. Compared(part) => p.exact + p.conflicting =
                              q.exact + q.conflicting + IF KnownKey(Key(r, File)) THEN 1 ELSE 0
      BY <1>2, <2>2 DEF r
    <2> QED BY <1>10, <1>11, <2>1, <2>2, <2>3, <2>4
  <1> HIDE DEF p, q, kept, r, known, next
  <1>17. Account(part, at + 1, p, next, known, kept)
    BY <1>4, <1>5, <1>6, <1>9, <1>10, <1>12, <1>13, <1>14, <1>15, <1>16 DEF Account, File
  <1> QED BY <1>17 DEF p, q, kept, r, known, next

LEMMA AccountReject ==
  ASSUME source \in Sources, part \in DOMAIN source.files, at <= Len(Records(part)),
         Account(part, at, quality, latest, seen, accepted), Verdict.error # "none"
  PROVE  Account(part, at + 1, Rejection(quality, Verdict), latest, seen, accepted)
  <1> DEFINE q == quality
             p == Rejection(quality, Verdict)
  <1>0. Len(Records(part)) \in Nat /\ at \in 1..Len(Records(part)) /\ Current = Records(part)[at]
    BY RecordsFacts DEF Account, Current
  <1>1. Chosen(ReadSoFar(part, at + 1), Normal(part)) = Chosen(ReadSoFar(part, at), Normal(part))
    BY <1>0, ReadNext DEF Verdict, File
  <1>2. /\ DOMAIN p = DOMAIN q /\ p.seen = q.seen + 1 /\ p.accepted = q.accepted /\ p.rejected = q.rejected + 1
        /\ p.disordered = q.disordered /\ p.skew = q.skew /\ p.exact = q.exact /\ p.conflicting = q.conflicting
    BY DEF Account, Counts, Counters, Rejection
  <1>2a. p.badTimes = q.badTimes + 0 \/ p.badTimes = q.badTimes + 1
    BY DEF Account, Counts, Counters, Rejection
  <1>2b. p.unsupported = q.unsupported + 0 \/ p.unsupported = q.unsupported + 1
    BY DEF Account, Counts, Counters, Rejection
  <1>3. Counts(q)
    BY DEF Account
  <1>4. /\ q.seen \in Nat /\ q.accepted \in Nat /\ q.rejected \in Nat /\ q.badTimes \in Nat /\ q.skew \in Nat
        /\ q.disordered \in Nat /\ q.unsupported \in Nat /\ q.exact \in Nat /\ q.conflicting \in Nat
    BY <1>3 DEF Counts, Counters
  <1> HIDE DEF p, q
  <1>5. Counts(p)
    <2>1. p.seen \in Nat /\ p.accepted \in Nat /\ p.rejected \in Nat
      BY <1>2, <1>4
    <2>2. p.badTimes \in Nat /\ p.unsupported \in Nat
      BY <1>2a, <1>2b, <1>4
    <2>3. p.skew \in Nat /\ p.disordered \in Nat /\ p.exact \in Nat /\ p.conflicting \in Nat
      BY <1>2, <1>4
    <2> QED BY <1>2, <1>3, <2>1, <2>2, <2>3 DEF Counts, Counters
  <1>6. at + 1 \in 1..(Len(Records(part)) + 1) /\ p.seen = (at + 1) - 1 /\ p.accepted + p.rejected = p.seen
    <2>1. q.seen = at - 1 /\ q.accepted + q.rejected = q.seen
      BY DEF Account, q
    <2>2. p.seen = q.seen + 1 /\ p.accepted = q.accepted /\ p.rejected = q.rejected + 1
      BY <1>2
    <2>3. \A x, y, z \in Nat : x + y = z => x + (y + 1) = z + 1
      OBVIOUS
    <2>4. p.accepted + p.rejected = p.seen
      BY <1>4, <2>1, <2>2, <2>3
    <2>5. at \in Int /\ p.seen = (at + 1) - 1
      BY <1>0, <2>1, <2>2
    <2> QED BY <1>0, <2>4, <2>5
  <1>7. p.rejected # 0
    BY <1>2, <1>4
  <1>8. Account(part, at + 1, p, latest, seen, accepted)
    BY <1>1, <1>2, <1>5, <1>6, <1>7 DEF Account, q
  <1> QED BY <1>8 DEF p

LEMMA AccountStart ==
  ASSUME source \in Sources, NEW n \in DOMAIN source.files
  PROVE  Account(n, 1, NoQuality, None, {}, <<>>)
  <1>1. IsSeq(Records(n)) /\ Len(Records(n)) \in Nat
    BY RecordsFacts
  <1>2. ReadSoFar(n, 1) = <<>>
    BY <1>1, PrefixWhole DEF ReadSoFar
  <1>3. Chosen(ReadSoFar(n, 1), Normal(n)) = <<>>
    BY <1>2, ChosenEmpty
  <1>4. Counts(NoQuality)
    BY DEF Counts, Counters, NoQuality
  <1>5. Late(<<>>) = {} /\ Gaps(<<>>) = {} /\ Distinct(<<>>, n) = {} /\ Range(<<>>) = {}
    BY EmptyIsSeq DEF Late, Gaps, Distinct
  <1>6. IsFiniteSet({}) /\ Cardinality({}) = 0
    BY FS_EmptySet
  <1>7. Timed(<<>>) /\ LatestOf(<<>>, None) /\ Len(<<>>) = 0
    BY EmptyIsSeq DEF Timed, LatestOf
  <1>8. SkewOf(<<>>, 0)
    BY <1>5 DEF SkewOf
  <1>9. /\ NoQuality.seen = 0 /\ NoQuality.accepted = 0 /\ NoQuality.rejected = 0 /\ NoQuality.disordered = 0
        /\ NoQuality.skew = 0 /\ NoQuality.exact = 0 /\ NoQuality.conflicting = 0
    BY DEF NoQuality
  <1>10. {s.key : s \in {}} = {Key(r, source.files[n]) : r \in Range(<<>>)}
    BY <1>5
  <1>11. 1 \in 1..(Len(Records(n)) + 1) /\ NoQuality.seen = 1 - 1
         /\ NoQuality.accepted + NoQuality.rejected = NoQuality.seen
    BY <1>1, <1>9
  <1>12. NoQuality.exact + NoQuality.conflicting = Len(<<>>) - Cardinality(Distinct(<<>>, n))
    <2>1. Distinct(<<>>, n) = {}
      BY <1>5
    <2>2. Cardinality(Distinct(<<>>, n)) = 0
      BY <1>6, <2>1
    <2>3. NoQuality.exact + NoQuality.conflicting = 0 /\ 0 = 0 - 0
      BY <1>9
    <2> QED BY <1>7, <2>2, <2>3
  <1> DEFINE e == <<>>
             none == {}
             q == NoQuality
  <1>13. Timed(e) /\ e = Chosen(ReadSoFar(n, 1), Normal(n)) /\ e = ReadSoFar(n, 1) /\ LatestOf(e, None)
         /\ IsFiniteSet(Late(e)) /\ q.disordered = Cardinality(Late(e)) /\ SkewOf(e, q.skew)
    BY <1>2, <1>3, <1>5, <1>6, <1>7, <1>8, <1>9
  <1>14. IsFiniteSet(Distinct(e, n)) /\ {s.key : s \in none} = {Key(r, source.files[n]) : r \in Range(e)}
    BY <1>5, <1>6, <1>10
  <1> HIDE DEF e, none, q
  <1>15. Account(n, 1, q, None, none, e)
    BY <1>4, <1>11, <1>12, <1>13, <1>14 DEF Account, q, e
  <1> QED BY <1>15 DEF e, none, q

(* A file of whose account the status is healthy lost nothing.             *)
WholeFile(n) ==
  LET records == Records(n)
  IN  /\ \A r \in Range(records) : Judged(r, source.files[n]).error = "none"
      /\ Late(records) = {}
      /\ Len(records) > 1 => Cardinality(Distinct(records, n)) = Len(records)

LEMMA HealthyFile ==
  ASSUME source \in Sources, part \in DOMAIN source.files, at > Len(Records(part)),
         Account(part, at, quality, latest, seen, accepted), StatusOf(quality) = "healthy"
  PROVE  WholeFile(part)
  <1>1. IsSeq(Records(part)) /\ Len(Records(part)) \in Nat
    BY RecordsFacts
  <1>2. at = Len(Records(part)) + 1
    BY <1>1 DEF Account
  <1>3. ReadSoFar(part, at) = Records(part)
    BY <1>1, <1>2, PrefixWhole DEF ReadSoFar
  <1>4. Counts(quality)
    BY DEF Account
  <1>5. quality.rejected \in Nat /\ quality.disordered \in Nat /\ quality.exact \in Nat /\ quality.conflicting \in Nat
    BY <1>4 DEF Counts, Counters
  <1>6. quality.rejected = 0 /\ quality.disordered = 0 /\ quality.exact + quality.conflicting = 0
    BY <1>5 DEF StatusOf, Duplicates
  <1>7. accepted = Records(part)
    BY <1>3, <1>6 DEF Account
  <1>8. accepted = Chosen(Records(part), Normal(part))
    BY <1>3 DEF Account
  <1>9. \A r \in Range(Records(part)) : Judged(r, source.files[part]).error = "none"
    <2>1. Range(Chosen(Records(part), Normal(part))) \subseteq Normal(part)
      BY <1>1, ChosenIsSeq
    <2>2. Range(Records(part)) \subseteq Normal(part)
      BY <1>7, <1>8, <2>1
    <2> QED BY <2>2 DEF Normal
  <1>10. Late(Records(part)) = {}
    BY <1>6, <1>7, FS_EmptySet DEF Account
  <1>11. Len(Records(part)) > 1 => Cardinality(Distinct(Records(part), part)) = Len(Records(part))
    <2>1. Cardinality(Distinct(accepted, part)) \in Nat
      BY FS_CardinalityType DEF Account
    <2> QED BY <1>1, <1>6, <1>7, <2>1 DEF Account, Compared
  <1> QED BY <1>9, <1>10, <1>11 DEF WholeFile

(* What depends on the input alone.                                        *)
LEMMA SourceKept ==
  ASSUME source' = source
  PROVE  /\ \A n : Records(n)' = Records(n) /\ Normal(n)' = Normal(n) /\ Compared(n)' = Compared(n)
         /\ \A s, n : Distinct(s, n)' = Distinct(s, n)
         /\ \A r, f : Judged(r, f)' = Judged(r, f)
         /\ \A n, k, q, last, known, kept :
              Account(n, k, q, last, known, kept)' <=> Account(n, k, q, last, known, kept)
         /\ \A n : WholeFile(n)' <=> WholeFile(n)
  <1>1. \A n : Records(n)' = Records(n)
    BY DEF Records, Lines
  <1>2. \A r, f : Judged(r, f)' = Judged(r, f)
    BY DEF Judged
  <1>3. \A n : Normal(n)' = Normal(n)
    BY <1>1, <1>2 DEF Normal
  <1>4. \A n : Compared(n)' = Compared(n)
    BY <1>1 DEF Compared
  <1>5. \A r, n : Subject(r, n)' = Subject(r, n)
    BY DEF Subject
  <1>6. \A s, n : Distinct(s, n)' = Distinct(s, n)
    BY <1>5 DEF Distinct
  <1>7. \A r, f : Key(r, f)' = Key(r, f)
    BY DEF Key
  <1>8. \A n, k : ReadSoFar(n, k)' = ReadSoFar(n, k)
    BY <1>1 DEF ReadSoFar
  <1>9. ASSUME NEW n, NEW k, NEW q, NEW last, NEW known, NEW kept
        PROVE  Account(n, k, q, last, known, kept)' <=> Account(n, k, q, last, known, kept)
    <2>1. {Key(r, source.files[n]) : r \in Range(kept)}' = {Key(r, source.files[n]) : r \in Range(kept)}
      BY <1>7
    <2> QED BY <1>1, <1>3, <1>4, <1>6, <1>8, <2>1 DEF Account
  <1>10. \A n : WholeFile(n)' <=> WholeFile(n)
    BY <1>1, <1>2, <1>6 DEF WholeFile
  <1> QED BY <1>1, <1>2, <1>3, <1>4, <1>6, <1>9, <1>10

-----------------------------------------------------------------------------
(* The invariant of the files.                                             *)
Live == outcome \in {"converting", "reading", "joining"}
AccountSound ==
  outcome \in {"converting", "reading"} /\ part \in DOMAIN source.files =>
    Account(part, at, quality, latest, seen, accepted)
TotalSound ==
  Live =>
    /\ part \in Nat \ {0} /\ DOMAIN total = DOMAIN NoQuality
    /\ total.status = "healthy" => \A n \in DOMAIN source.files : n < part => WholeFile(n)
    /\ outcome = "joining" => part > Len(source.files)
FilesInv == source \in Sources /\ AccountSound /\ TotalSound

LEMMA FilesInit == Init => FilesInv
  <1> SUFFICES ASSUME Init PROVE FilesInv
    OBVIOUS
  <1>1. source \in Sources /\ part = 1 /\ total = NoQuality
    BY DEF Init
  <1>2. AccountSound
    BY <1>1, AccountStart DEF AccountSound, Init
  <1>3. TotalSound
    BY <1>1, SourceFacts DEF TotalSound, Init
  <1> QED BY <1>1, <1>2, <1>3 DEF FilesInv

LEMMA FilesStep ==
  ASSUME FilesInv, [Next]_vars
  PROVE  FilesInv'
  <1> USE DEF vars, reader
  <1>1. source \in Sources /\ source' = source
    BY DEF FilesInv, Next, Convert, Refuse, Reject, Abort, Accept, Close, Absent, Finish, BreakOff, ReadPacket, Join
  <1>2. IsSeq(source.files) /\ Len(source.files) \in Nat /\ DOMAIN source.files = 1..Len(source.files)
    BY <1>1, SourceFacts
  <1>3. CASE UNCHANGED <<reader, outcome>> \/ (Live' => UNCHANGED <<reader, outcome>>)
    BY <1>1, <1>3, SourceKept DEF FilesInv, AccountSound, TotalSound, Live
  <1>4. CASE Convert
    <2>1. UNCHANGED reader /\ outcome = "converting" /\ outcome' \in {"refused", "reading"}
      BY <1>4 DEF Convert
    <2> QED BY <1>1, <2>1, SourceKept DEF FilesInv, AccountSound, TotalSound, Live
  <1>5. CASE Accept \/ Reject
    <2>1. /\ part \in DOMAIN source.files /\ at <= Len(Records(part)) /\ outcome = "reading"
          /\ Account(part, at, quality, latest, seen, accepted) /\ part' = part /\ outcome' = outcome /\ total' = total
      BY <1>2, <1>5 DEF FilesInv, AccountSound, TotalSound, Live, Accept, Reject, MoreRecords, Reading
    <2>2. Account(part', at', quality', latest', seen', accepted')
      <3>1. CASE Accept
        BY <1>1, <2>1, <3>1, AccountAccept DEF Accept
      <3>2. CASE Reject
        BY <1>1, <2>1, <3>2, AccountReject DEF Reject
      <3> QED BY <1>5, <3>1, <3>2
    <2>3. AccountSound'
      BY <1>1, <2>2, SourceKept DEF AccountSound
    <2>4. TotalSound'
      BY <1>1, <2>1, SourceKept DEF FilesInv, TotalSound, Live
    <2> QED BY <1>1, <2>3, <2>4 DEF FilesInv
  <1>6. CASE Close
    <2>1. /\ part \in DOMAIN source.files /\ at > Len(Records(part)) /\ outcome = "reading"
          /\ Account(part, at, quality, latest, seen, accepted) /\ part \in Nat \ {0}
          /\ DOMAIN total = DOMAIN NoQuality
          /\ total.status = "healthy" => \A n \in DOMAIN source.files : n < part => WholeFile(n)
      BY <1>2, <1>6 DEF FilesInv, AccountSound, TotalSound, Live, Close, Reading
    <2>2. CASE outcome' = "unusable"
      BY <1>1, <2>2 DEF FilesInv, AccountSound, TotalSound, Live
    <2>3. CASE outcome' # "unusable"
      <3>1. /\ part' = part + 1 /\ total' = Combined(total, quality) /\ outcome' = outcome
            /\ at' = 1 /\ quality' = NoQuality /\ latest' = None /\ seen' = {} /\ accepted' = <<>>
        BY <1>6, <2>3 DEF Close
      <3>2. AccountSound'
        <4>1. ASSUME part' \in DOMAIN source.files
              PROVE  Account(part', 1, NoQuality, None, {}, <<>>)
          BY <1>1, <4>1, AccountStart
        <4> QED BY <1>1, <3>1, <4>1, SourceKept DEF AccountSound
      <3>3. DOMAIN total' = DOMAIN NoQuality
        BY <2>1, <3>1 DEF Combined, Summed
      <3>4. ASSUME total'.status = "healthy"
            PROVE  StatusOf(quality) = "healthy" /\ (total.status = "healthy" \/ Len(source.files) <= 1)
        <4>1. "status" \in DOMAIN total
          BY <2>1 DEF NoQuality
        <4>2. total'.status = IF source.how \notin {"capture", "directory"} THEN StatusOf(quality)
                              ELSE IF StatusOf(quality) # "healthy" THEN "degraded" ELSE total.status
          BY <3>1, <4>1 DEF Combined, Summed
        <4> QED BY <1>1, <3>4, <4>2, SourceFacts
      <3>5. ASSUME total'.status = "healthy", NEW n \in DOMAIN source.files, n < part + 1
            PROVE  WholeFile(n)
        <4>1. n < part \/ n = part
          BY <1>2, <2>1, <3>5
        <4>2. CASE n < part
          BY <1>2, <2>1, <3>4, <3>5, <4>2
        <4>3. CASE n = part
          BY <1>1, <2>1, <3>4, <3>5, <4>3, HealthyFile
        <4> QED BY <4>1, <4>2, <4>3
      <3>6. TotalSound'
        BY <1>1, <2>1, <3>1, <3>3, <3>5, SourceKept DEF TotalSound
      <3> QED BY <1>1, <3>2, <3>6 DEF FilesInv
    <2> QED BY <2>2, <2>3
  <1>7. CASE Finish
    BY <1>1, <1>7, SourceKept DEF Finish, FilesInv, AccountSound, TotalSound, Live
  <1>8. CASE Refuse \/ Abort \/ Absent \/ BreakOff \/ Join
    BY <1>3, <1>8 DEF Refuse, Abort, Absent, BreakOff, Join, Live
  <1>9. CASE ReadPacket
    BY <1>3, <1>9 DEF ReadPacket
  <1> QED BY <1>3, <1>4, <1>5, <1>6, <1>7, <1>8, <1>9 DEF Next

LEMMA FilesAccount == FilesInv => QualityAccounts
  <1> SUFFICES ASSUME FilesInv, Reading PROVE QualityAccounts
    BY DEF QualityAccounts
  <1>1. part \in DOMAIN source.files /\ Account(part, at, quality, latest, seen, accepted)
    BY SourceFacts DEF FilesInv, AccountSound, TotalSound, Live, Reading
  <1>2. quality.skew = Max({0} \cup Gaps(accepted))
    BY <1>1, SkewIsMax DEF Account, Counts, Counters
  <1> QED BY <1>1, <1>2 DEF QualityAccounts, Account, ReadSoFar, Duplicates

-----------------------------------------------------------------------------
(* The packets.                                                            *)

(* The window of the most recent packets, kept one packet at a time.       *)
LEMMA NextRecent ==
  ASSUME NEW s, IsSeq(s), NEW p
  PROVE  Kept(Recent(s), p) = Recent(Append(s, p))
  <1> DEFINE t == Append(s, p)
             n == Len(s)
             S == Range(s) \cup {p}
  <1>1. /\ IsSeq(t) /\ Len(t) = n + 1 /\ t[n + 1] = p /\ (\A i \in 1..n : t[i] = s[i]) /\ n \in Nat
        /\ Retained \in Nat /\ Retained >= 1 /\ Range(t) = S
    BY AppendIsSeq, SeqFacts, SourcesAssumption
  <1>2. s \in Seq(S) /\ t \in Seq(S) /\ p \in S
    BY <1>1, SeqMonotonic DEF IsSeq
  <1> HIDE DEF t, S
  <1>3. /\ Max({1, n - Retained + 1}) = IF 1 >= n - Retained + 1 THEN 1 ELSE n - Retained + 1
        /\ Max({1, (n + 1) - Retained + 1}) = IF 1 >= (n + 1) - Retained + 1 THEN 1 ELSE (n + 1) - Retained + 1
    BY <1>1, MaxOfTwo
  <1>4. CASE n < Retained
    <2>1. Recent(s) = SubSeq(s, 1, n) /\ Recent(t) = SubSeq(t, 1, n + 1)
      <3>1. Max({1, n - Retained + 1}) = 1 /\ Max({1, (n + 1) - Retained + 1}) = 1
        BY <1>1, <1>3, <1>4
      <3> QED BY <1>1, <3>1 DEF Recent
    <2>2. SubSeq(s, 1, n) = s /\ SubSeq(t, 1, n + 1) = t
      BY <1>1, PrefixWhole
    <2> QED BY <1>4, <2>1, <2>2 DEF Kept, t
  <1>5. CASE n >= Retained
    <2> DEFINE from == n - Retained + 1
               kept == SubSeq(s, from, n)
               more == SubSeq(t, from + 1, n + 1)
    <2>1. Recent(s) = kept /\ Recent(t) = more
      <3>1. Max({1, n - Retained + 1}) = from /\ Max({1, (n + 1) - Retained + 1}) = from + 1
        BY <1>1, <1>3, <1>5
      <3> QED BY <1>1, <3>1 DEF Recent
    <2>2. from \in Nat /\ from >= 1 /\ from <= n
      BY <1>1, <1>5
    <2> HIDE DEF from
    <2>3. kept \in Seq(S) /\ Len(kept) = n - from + 1 /\ \A i \in 1..(n - from + 1) : kept[i] = s[from + i - 1]
      <3>1. \A i \in from..n : s[i] \in S
        BY <1>1, <1>2, <2>2
      <3> QED BY <1>1, <1>2, <2>2, <3>1, SubSeqProperties
    <2>4. more \in Seq(S) /\ Len(more) = n - from + 1 /\ \A i \in 1..(n - from + 1) : more[i] = t[from + i]
      <3>1. \A i \in (from + 1)..(n + 1) : t[i] \in S
        BY <1>1, <1>2, <2>2
      <3>2. /\ more \in Seq(S) /\ Len(more) = (n + 1) - (from + 1) + 1
            /\ \A i \in 1..((n + 1) - (from + 1) + 1) : more[i] = t[(from + 1) + i - 1]
        BY <1>1, <1>2, <2>2, <3>1, SubSeqProperties
      <3>3. (n + 1) - (from + 1) + 1 = n - from + 1 /\ \A i \in 1..(n - from + 1) : (from + 1) + i - 1 = from + i
        BY <1>1, <2>2
      <3> QED BY <3>2, <3>3
    <2>5. Len(kept) = Retained
      BY <1>1, <1>5, <2>3 DEF from
    <2> HIDE DEF kept, more
    <2>6. Kept(kept, p) = Append(Tail(kept), p)
      BY <1>1, <2>5 DEF Kept
    <2> DEFINE m == n - from
    <2>7. m \in Nat /\ Len(kept) = m + 1 /\ Len(more) = m + 1
      BY <1>1, <2>2, <2>3, <2>4
    <2>8. Tail(kept) \in Seq(S) /\ Len(Tail(kept)) = m /\ \A i \in 1..m : Tail(kept)[i] = kept[i + 1]
      BY <2>3, <2>7, HeadTailProperties
    <2>9. /\ Append(Tail(kept), p) \in Seq(S) /\ Len(Append(Tail(kept), p)) = m + 1
          /\ Append(Tail(kept), p)[m + 1] = p /\ \A i \in 1..m : Append(Tail(kept), p)[i] = Tail(kept)[i]
      BY <1>2, <2>8, AppendProperties
    <2>10. \A i \in 1..m : kept[i + 1] = more[i]
      <3>1. \A i \in 1..m : i + 1 \in 1..(n - from + 1) /\ i \in 1..(n - from + 1) /\ from + (i + 1) - 1 = from + i
                            /\ from + i \in 1..n
        BY <1>1, <2>2, <2>7
      <3> QED BY <1>1, <2>3, <2>4, <3>1
    <2>11. more[m + 1] = p
      <3>1. m + 1 \in 1..(n - from + 1) /\ from + (m + 1) = n + 1
        BY <1>1, <2>2, <2>7
      <3> QED BY <1>1, <2>4, <3>1
    <2> HIDE DEF m
    <2>12. \A i \in 1..(m + 1) : Append(Tail(kept), p)[i] = more[i]
      BY <2>7, <2>8, <2>9, <2>10, <2>11
    <2>13. Append(Tail(kept), p) = more
      BY <2>4, <2>7, <2>9, <2>12, SeqEqual
    <2> QED BY <2>1, <2>6, <2>13 DEF t
  <1> QED BY <1>1, <1>4, <1>5

-----------------------------------------------------------------------------
(* A fingerprint some record gave, and a session no packet was joined to.  *)
Printed(print) == \E n \in DOMAIN source.files : \E r \in Range(Records(n)) : r.print = print
Unjoined(m) ==
  /\ DOMAIN m = {"ts", "flow", "src", "dst", "print", "packets", "joined"}
  /\ m.ts \in Nat /\ m.joined = None /\ Printed(m.print)
EventsSound ==
  Live =>
    /\ DOMAIN events = {"conn", "dns", "tls"} /\ IsSeq(events.conn) /\ IsSeq(events.tls)
    /\ \A i \in DOMAIN events.conn : events.conn[i].ts \in Nat
    /\ \A m \in Range(events.tls) : Unjoined(m)

(* The account c of the packets s: it misses none that was late, cut or    *)
(* claimed by two connections.                                             *)
CaptureTally(s, c) ==
  /\ DOMAIN c = DOMAIN NoCapture /\ Timed(s) /\ c.at = Len(s) + 1 /\ LatestOf(s, c.latest)
  /\ IsFiniteSet(Late(s)) /\ c.disordered = Cardinality(Late(s))
  /\ c.truncated \in Nat /\ c.ambiguous \in Nat /\ c.conflicting \in Nat
  /\ c.truncated = 0 => \A p \in Range(s) : p.form # "cut"
  /\ c.ambiguous = 0 => \A p \in Range(s) : p.form = "whole" => Cardinality(Candidates(p)) <= 1
  /\ \A id \in DOMAIN c.times : c.times[id] \in Nat
(* The packets that fit the i-th connection alone; a connection whose      *)
(* identity no other has; the hellos its client sent.                      *)
Own(i) ==
  {p \in Range(source.packets) : /\ p.form \in {"whole", "cut"} /\ p.src # p.dst
                                 /\ Candidates(p) # {} /\ \A x \in Candidates(p) : x[1] = i}
Sole(i) == \A j \in DOMAIN events.conn : Identity(events.conn[j]) = Identity(events.conn[i]) => j = i
Hellos(i, s) ==
  {p \in Range(s) : p.hello # "" /\ p.src = events.conn[i].src /\ p.dst = events.conn[i].dst}
Sequence(c, id) == IF id \in DOMAIN c.sequences THEN c.sequences[id] ELSE <<>>
(* What the account has for a connection: the recent ones of its own       *)
(* packets, a time no hello is after, and no fingerprint but the one that  *)
(* every hello so far had.                                                 *)
Heard(i, own, c) ==
  LET id == Identity(events.conn[i])
  IN  /\ Sequence(c, id) = Recent(own)
      /\ \A p \in Hellos(i, own) : /\ id \in DOMAIN c.times /\ p.ts <= c.times[id]
                                   /\ id \in DOMAIN c.prints /\ c.prints[id] \in {None, p.hello}
PacketsRead(n) == SubSeq(source.packets, 1, n)
CaptureSound ==
  /\ outcome \in {"converting", "reading"} => capture = NoCapture
  /\ outcome = "joining" =>
       /\ source.packets # None /\ capture.at \in 1..(Len(source.packets) + 1)
       /\ CaptureTally(PacketsRead(capture.at - 1), capture)
       /\ \A i \in DOMAIN events.conn : Sole(i) => Heard(i, Chosen(PacketsRead(capture.at - 1), Own(i)), capture)

LEMMA CandidateIs ==
  ASSUME NEW p
  PROVE  /\ \A i, d : <<i, d>> \in Candidates(p) <=>
                        i \in DOMAIN events.conn /\ d \in {"orig", "resp"} /\ Fits(p, events.conn[i], d)
         /\ \A x \in Candidates(p) : x = <<x[1], x[2]>>
  BY DEF Candidates

(* A packet of one connection has a direction in it.                       *)
LEMMA OwnFits ==
  ASSUME NEW i, NEW p \in Own(i)
  PROVE  /\ i \in DOMAIN events.conn
         /\ \E d \in {"orig", "resp"} :
              /\ Candidates(p) = {<<i, d>>}
              /\ p.src = events.conn[i].src /\ p.dst = events.conn[i].dst => d = "orig"
  <1>1. PICK x \in Candidates(p) : TRUE
    BY DEF Own
  <1>2. x = <<i, x[2]>> /\ p.src # p.dst
    BY <1>1, CandidateIs DEF Own
  <1> DEFINE d == x[2]
             e == events.conn[i]
  <1>3. i \in DOMAIN events.conn /\ d \in {"orig", "resp"} /\ Fits(p, e, d)
    BY <1>1, <1>2, CandidateIs
  <1>4. ASSUME NEW y \in Candidates(p)
        PROVE  y = <<i, d>>
    <2>1. y = <<i, y[2]>>
      BY CandidateIs DEF Own
    <2>2. y[2] \in {"orig", "resp"} /\ Fits(p, e, y[2])
      BY <2>1, CandidateIs
    <2>3. y[2] = d
      BY <1>2, <1>3, <2>2 DEF Fits
    <2> QED BY <2>1, <2>3
  <1>5. Candidates(p) = {<<i, d>>}
    BY <1>1, <1>2, <1>4
  <1>6. p.src = e.src /\ p.dst = e.dst => d = "orig"
    BY <1>2, <1>3 DEF Fits
  <1> QED BY <1>3, <1>5, <1>6

LEMMA FitsOne ==
  ASSUME NEW i, NEW d, NEW p, Candidates(p) = {<<i, d>>}
  PROVE  /\ i \in DOMAIN events.conn /\ d \in {"orig", "resp"} /\ p.src # p.dst
         /\ \A j \in DOMAIN events.conn : j # i => p \notin Own(j)
         /\ p \in Range(source.packets) /\ p.form \in {"whole", "cut"} => p \in Own(i)
  <1>1. i \in DOMAIN events.conn /\ d \in {"orig", "resp"} /\ Fits(p, events.conn[i], d)
    BY CandidateIs
  <1>2. p.src # p.dst
    <2> SUFFICES ASSUME p.src = p.dst PROVE FALSE
      OBVIOUS
    <2>1. Fits(p, events.conn[i], "orig") /\ Fits(p, events.conn[i], "resp")
      BY <1>1 DEF Fits
    <2>2. <<i, "orig">> \in Candidates(p) /\ <<i, "resp">> \in Candidates(p)
      BY <1>1, <2>1, CandidateIs
    <2>3. <<i, "orig">> = <<i, "resp">>
      BY <2>2
    <2> QED BY <2>3
  <1>3. \A x \in Candidates(p) : x[1] = i
    OBVIOUS
  <1> QED BY <1>1, <1>2, <1>3 DEF Own

LEMMA CandidatesFinite ==
  ASSUME IsSeq(events.conn), NEW p
  PROVE  /\ IsFiniteSet(Candidates(p)) /\ Cardinality(Candidates(p)) \in Nat
         /\ Cardinality(Candidates(p)) = 1 => \E i, d : Candidates(p) = {<<i, d>>}
  <1>1. IsFiniteSet(DOMAIN events.conn)
    BY SeqFacts, FS_Interval
  <1>2. IsFiniteSet({"orig", "resp"})
    <2>1. {"orig", "resp"} = {"orig"} \cup {"resp"}
      OBVIOUS
    <2>2. IsFiniteSet({"orig"})
      BY FS_Singleton
    <2>3. IsFiniteSet({"orig"} \cup {"resp"})
      BY <2>2, FS_AddElement
    <2> QED BY <2>1, <2>3
  <1>3. IsFiniteSet((DOMAIN events.conn) \X {"orig", "resp"})
    BY <1>1, <1>2, FS_Product
  <1>4. Candidates(p) \in SUBSET ((DOMAIN events.conn) \X {"orig", "resp"})
    BY DEF Candidates
  <1>5. IsFiniteSet(Candidates(p))
    BY <1>3, <1>4, FS_Subset
  <1>6. Cardinality(Candidates(p)) \in Nat
    BY <1>5, FS_CardinalityType
  <1>7. ASSUME Cardinality(Candidates(p)) = 1
        PROVE  \E i, d : Candidates(p) = {<<i, d>>}
    <2>1. PICK x : Candidates(p) = {x}
      BY <1>5, <1>7, FS_Singleton
    <2>2. x = <<x[1], x[2]>>
      BY <2>1, CandidateIs
    <2> QED BY <2>1, <2>2
  <1> QED BY <1>5, <1>6, <1>7

(* What reading a packet changes.                                          *)
LEMMA PacketRead ==
  ASSUME ReadPacket, DOMAIN capture = DOMAIN NoCapture, IsSeq(events.conn)
  PROVE  LET c == capture
             p == Packet
             next == capture'
         IN  /\ DOMAIN next = DOMAIN c /\ next.at = c.at + 1
             /\ next.disordered = c.disordered + IF c.latest # None /\ p.ts < c.latest THEN 1 ELSE 0
             /\ next.latest = IF c.latest = None \/ c.latest = 0 THEN p.ts ELSE Max({p.ts, c.latest})
             /\ next.truncated = c.truncated + IF p.form = "cut" THEN 1 ELSE 0
             /\ \/ /\ p.form = "foreign" \/ Cardinality(Candidates(p)) # 1
                   /\ next.sequences = c.sequences /\ next.times = c.times /\ next.prints = c.prints
                   /\ next.conflicting = c.conflicting
                   /\ next.ambiguous = c.ambiguous \/ next.ambiguous = c.ambiguous + 0 \/ next.ambiguous = c.ambiguous + 1
                   /\ p.form # "foreign" /\ Candidates(p) # {} => next.ambiguous = c.ambiguous + 1
                \/ \E i, d :
                     LET id == Identity(events.conn[i])
                     IN  /\ p.form # "foreign" /\ Candidates(p) = {<<i, d>>} /\ next.ambiguous = c.ambiguous
                         /\ next.sequences = Put(c.sequences, id, Kept(Sequence(c, id), p))
                         /\ \/ /\ p.hello # "" /\ d = "orig"
                               /\ next.times =
                                    Put(c.times, id, IF id \in DOMAIN c.times THEN Max({p.ts, c.times[id]}) ELSE p.ts)
                               /\ next.prints =
                                    Put(c.prints, id, IF id \in DOMAIN c.prints /\ c.prints[id] # p.hello THEN None ELSE p.hello)
                               /\ next.conflicting = c.conflicting + 0 \/ next.conflicting = c.conflicting + 1
                            \/ /\ ~(p.hello # "" /\ d = "orig")
                               /\ next.times = c.times /\ next.prints = c.prints /\ next.conflicting = c.conflicting
  <1> DEFINE c == capture
             p == Packet
             next == capture'
             counted == Counted(c, p)
  <1>1. DOMAIN c = {"at", "latest", "sequences", "prints", "times", "disordered", "truncated", "ambiguous", "conflicting"}
    BY DEF NoCapture
  <1>2. /\ DOMAIN counted = DOMAIN c /\ counted.at = c.at + 1
        /\ counted.disordered = c.disordered + IF c.latest # None /\ p.ts < c.latest THEN 1 ELSE 0
        /\ counted.latest = IF c.latest = None \/ c.latest = 0 THEN p.ts ELSE Max({p.ts, c.latest})
        /\ counted.truncated = c.truncated + IF p.form = "cut" THEN 1 ELSE 0
        /\ counted.sequences = c.sequences /\ counted.times = c.times /\ counted.prints = c.prints
        /\ counted.ambiguous = c.ambiguous /\ counted.conflicting = c.conflicting
    BY <1>1 DEF Counted
  <1>3. next = CASE p.form = "foreign" -> counted
                 [] p.form # "foreign" /\ Cardinality(Candidates(p)) = 1 -> Matched(counted, p)
                 [] OTHER -> [counted EXCEPT !.ambiguous = @ + IF Candidates(p) = {} THEN 0 ELSE 1]
    BY DEF ReadPacket
  <1> HIDE DEF counted, c, p, next
  <1>4. CASE p.form = "foreign"
    BY <1>2, <1>3, <1>4 DEF c, p, next
  <1>5. CASE p.form # "foreign" /\ Cardinality(Candidates(p)) # 1
    <2>1. next = [counted EXCEPT !.ambiguous = @ + IF Candidates(p) = {} THEN 0 ELSE 1]
      BY <1>3, <1>5
    <2>2. /\ DOMAIN next = DOMAIN c /\ next.at = counted.at /\ next.disordered = counted.disordered
          /\ next.latest = counted.latest /\ next.truncated = counted.truncated
          /\ next.sequences = counted.sequences /\ next.times = counted.times /\ next.prints = counted.prints
          /\ next.conflicting = counted.conflicting
          /\ next.ambiguous = counted.ambiguous + IF Candidates(p) = {} THEN 0 ELSE 1
      BY <1>1, <1>2, <2>1
    <2> QED BY <1>2, <1>5, <2>2 DEF c, p, next
  <1>6. CASE p.form # "foreign" /\ Cardinality(Candidates(p)) = 1
    <2>1. next = Matched(counted, p)
      BY <1>3, <1>6
    <2>2. PICK i, d : Candidates(p) = {<<i, d>>}
      BY <1>6, CandidatesFinite
    <2> DEFINE id == Identity(events.conn[i])
               new == [counted EXCEPT !.sequences = Put(@, id, Kept(IF id \in DOMAIN @ THEN @[id] ELSE <<>>, p))]
    <2>3. next = IF p.hello # "" /\ d = "orig" THEN Greeted(new, id, p) ELSE new
      <3> DEFINE hit == CHOOSE x \in Candidates(p) : TRUE
                 of(j) == Identity(events.conn[j])
                 seq(j) == [counted EXCEPT !.sequences =
                              Put(@, of(j), Kept(IF of(j) \in DOMAIN @ THEN @[of(j)] ELSE <<>>, p))]
      <3>1. hit[1] = i /\ hit[2] = d
        <4>1. hit = <<i, d>>
          BY <2>2
        <4> HIDE DEF hit
        <4> QED BY <4>1
      <3>2. Matched(counted, p) =
              IF p.hello # "" /\ hit[2] = "orig" THEN Greeted(seq(hit[1]), of(hit[1]), p) ELSE seq(hit[1])
        BY DEF Matched
      <3> HIDE DEF hit, seq, of
      <3>3. next = IF p.hello # "" /\ d = "orig" THEN Greeted(seq(i), of(i), p) ELSE seq(i)
        BY <2>1, <3>1, <3>2
      <3> QED BY <3>3 DEF seq, of
    <2> HIDE DEF id
    <2>4. /\ DOMAIN new = DOMAIN c /\ new.at = counted.at /\ new.disordered = counted.disordered
          /\ new.latest = counted.latest /\ new.truncated = counted.truncated
          /\ new.sequences = Put(c.sequences, id, Kept(Sequence(c, id), p))
          /\ new.times = c.times /\ new.prints = c.prints
          /\ new.conflicting = c.conflicting /\ new.ambiguous = c.ambiguous
      BY <1>1, <1>2 DEF Sequence
    <2> HIDE DEF new
    <2>5. CASE ~(p.hello # "" /\ d = "orig")
      <3>1. next = new
        BY <2>3, <2>5
      <3> QED BY <1>2, <1>6, <2>2, <2>4, <2>5, <3>1 DEF c, p, next, id
    <2>6. CASE p.hello # "" /\ d = "orig"
      <3>1. next = Greeted(new, id, p)
        BY <2>3, <2>6
      <3>2. /\ DOMAIN next = DOMAIN c /\ next.at = new.at /\ next.disordered = new.disordered
            /\ next.latest = new.latest /\ next.truncated = new.truncated /\ next.ambiguous = new.ambiguous
            /\ next.sequences = new.sequences
            /\ next.times = Put(new.times, id, IF id \in DOMAIN new.times THEN Max({p.ts, new.times[id]}) ELSE p.ts)
            /\ next.prints =
                 Put(new.prints, id, IF id \in DOMAIN new.prints /\ new.prints[id] # p.hello THEN None ELSE p.hello)
            /\ next.conflicting = new.conflicting + 0 \/ next.conflicting = new.conflicting + 1
        BY <1>1, <2>4, <3>1 DEF Greeted
      <3>3. /\ next.at = c.at + 1 /\ next.truncated = c.truncated + IF p.form = "cut" THEN 1 ELSE 0
            /\ next.disordered = c.disordered + IF c.latest # None /\ p.ts < c.latest THEN 1 ELSE 0
            /\ next.latest = IF c.latest = None \/ c.latest = 0 THEN p.ts ELSE Max({p.ts, c.latest})
            /\ next.ambiguous = c.ambiguous
        BY <1>2, <2>4, <3>2
      <3>4. /\ next.sequences = Put(c.sequences, id, Kept(Sequence(c, id), p))
            /\ next.times = Put(c.times, id, IF id \in DOMAIN c.times THEN Max({p.ts, c.times[id]}) ELSE p.ts)
            /\ next.prints = Put(c.prints, id, IF id \in DOMAIN c.prints /\ c.prints[id] # p.hello THEN None ELSE p.hello)
            /\ next.conflicting = c.conflicting + 0 \/ next.conflicting = c.conflicting + 1
        BY <2>4, <3>2
      <3> QED BY <1>6, <2>2, <2>6, <3>2, <3>3, <3>4 DEF c, p, next, id
    <2> QED BY <2>5, <2>6
  <1> QED BY <1>4, <1>5, <1>6

LEMMA PacketFacts ==
  ASSUME source \in Sources, source.packets # None, NEW n \in 1..Len(source.packets)
  PROVE  /\ IsSeq(PacketsRead(n - 1)) /\ PacketsRead(n) = Append(PacketsRead(n - 1), source.packets[n])
         /\ Len(PacketsRead(n - 1)) = n - 1 /\ Len(source.packets) \in Nat
         /\ source.packets[n] \in Range(source.packets)
         /\ source.packets[n].ts \in Nat /\ source.packets[n].form \in {"whole", "cut", "foreign", "broken"}
  <1> DEFINE s == source.packets
             m == n - 1
  <1>1. IsSeq(s) /\ Len(s) \in Nat /\ \A i \in 1..Len(s) : s[i] \in Range(s)
    BY SourceFacts, SeqFacts
  <1>2. m \in Nat /\ m < Len(s) /\ m + 1 = n
    BY <1>1
  <1>3. \A p \in Range(s) : p.ts \in Nat /\ p.form \in {"whole", "cut", "foreign", "broken"}
    BY SourcesAssumption
  <1> HIDE DEF s, m
  <1>4. SubSeq(s, 1, m + 1) = Append(SubSeq(s, 1, m), s[m + 1]) /\ IsSeq(SubSeq(s, 1, m)) /\ Len(SubSeq(s, 1, m)) = m
    BY <1>1, <1>2, PrefixExtends
  <1> QED BY <1>1, <1>2, <1>3, <1>4 DEF s, m, PacketsRead

LEMMA PacketTally ==
  ASSUME source \in Sources, source.packets # None, ReadPacket, IsSeq(events.conn),
         capture.at \in 1..Len(source.packets), CaptureTally(PacketsRead(capture.at - 1), capture)
  PROVE  CaptureTally(PacketsRead(capture.at), capture') /\ capture'.at = capture.at + 1
  <1> DEFINE s == PacketsRead(capture.at - 1)
             t == PacketsRead(capture.at)
             c == capture
             p == Packet
             next == capture'
  <1>1. /\ IsSeq(s) /\ t = Append(s, p) /\ p.ts \in Nat /\ Len(s) = c.at - 1
        /\ p.form \in {"whole", "cut", "foreign"} /\ c.at \in Nat
    BY PacketFacts DEF Packet, ReadPacket
  <1>2. Range(t) = Range(s) \cup {p} /\ Len(t) = Len(s) + 1
    BY <1>1, AppendIsSeq
  <1>3. /\ DOMAIN c = DOMAIN NoCapture /\ Timed(s) /\ c.at = Len(s) + 1 /\ LatestOf(s, c.latest)
        /\ IsFiniteSet(Late(s)) /\ c.disordered = Cardinality(Late(s))
        /\ c.truncated \in Nat /\ c.ambiguous \in Nat /\ c.conflicting \in Nat
        /\ c.truncated = 0 => \A x \in Range(s) : x.form # "cut"
        /\ c.ambiguous = 0 => \A x \in Range(s) : x.form = "whole" => Cardinality(Candidates(x)) <= 1
        /\ \A id \in DOMAIN c.times : c.times[id] \in Nat
    BY DEF CaptureTally
  <1>4. /\ DOMAIN next = DOMAIN c /\ next.at = c.at + 1
        /\ next.disordered = c.disordered + IF c.latest # None /\ p.ts < c.latest THEN 1 ELSE 0
        /\ next.latest = IF c.latest = None \/ c.latest = 0 THEN p.ts ELSE Max({p.ts, c.latest})
        /\ next.truncated = c.truncated + IF p.form = "cut" THEN 1 ELSE 0
    BY <1>3, PacketRead
  <1>5. /\ next.ambiguous \in Nat /\ next.conflicting \in Nat
        /\ next.ambiguous = 0 =>
             c.ambiguous = 0 /\ (p.form = "foreign" \/ Candidates(p) = {} \/ Cardinality(Candidates(p)) = 1)
    <2>1. next.ambiguous = c.ambiguous \/ next.ambiguous = c.ambiguous + 0 \/ next.ambiguous = c.ambiguous + 1
      BY <1>3, PacketRead
    <2>2. next.conflicting = c.conflicting \/ next.conflicting = c.conflicting + 0 \/ next.conflicting = c.conflicting + 1
      BY <1>3, PacketRead
    <2>3. p.form = "foreign" \/ Candidates(p) = {} \/ (\E x : Candidates(p) = {x}) \/ next.ambiguous = c.ambiguous + 1
      BY <1>3, PacketRead
    <2>4. (\E x : Candidates(p) = {x}) => Cardinality(Candidates(p)) = 1
      BY FS_Singleton
    <2> HIDE DEF c, p, next
    <2>5. p.form = "foreign" \/ Candidates(p) = {} \/ Cardinality(Candidates(p)) = 1 \/ next.ambiguous = c.ambiguous + 1
      BY <2>3, <2>4
    <2>6. c.ambiguous \in Nat /\ c.conflicting \in Nat
      BY <1>3
    <2> QED BY <2>1, <2>2, <2>5, <2>6
  <1>6. \A id \in DOMAIN next.times : next.times[id] \in Nat
    <2>1. \/ next.times = c.times
          \/ \E id : next.times = Put(c.times, id, IF id \in DOMAIN c.times THEN Max({p.ts, c.times[id]}) ELSE p.ts)
      BY <1>3, PacketRead
    <2> HIDE DEF c, p, next
    <2>2. CASE next.times = c.times
      BY <1>3, <2>2
    <2>3. ASSUME NEW id, next.times = Put(c.times, id, IF id \in DOMAIN c.times THEN Max({p.ts, c.times[id]}) ELSE p.ts)
          PROVE  \A x \in DOMAIN next.times : next.times[x] \in Nat
      <3> DEFINE v == IF id \in DOMAIN c.times THEN Max({p.ts, c.times[id]}) ELSE p.ts
      <3>1. p.ts \in Nat /\ \A x \in DOMAIN c.times : c.times[x] \in Nat
        BY <1>1, <1>3
      <3>2. v \in Nat
        BY <3>1, MaxOfTwo
      <3>3. next.times = Put(c.times, id, v)
        BY <2>3
      <3> HIDE DEF v
      <3> QED BY <3>1, <3>2, <3>3 DEF Put
    <2> QED BY <2>1, <2>2, <2>3
  <1> HIDE DEF s, t, c, p, next
  <1>7. Timed(t) /\ LatestOf(t, next.latest)
    <2>1. Timed(s) /\ LatestOf(s, c.latest) /\ p.ts \in Nat /\ t = Append(s, p)
      BY <1>1, <1>3
    <2>2. Timed(t) /\ LatestOf(t, IF c.latest = None \/ c.latest = 0 THEN p.ts ELSE Max({p.ts, c.latest}))
      BY <2>1, LatestAppend
    <2> QED BY <1>4, <2>2
  <1>8. IsFiniteSet(Late(t)) /\ next.disordered = Cardinality(Late(t))
    <2>1. /\ Timed(s) /\ LatestOf(s, c.latest) /\ p.ts \in Nat /\ t = Append(s, p)
          /\ IsFiniteSet(Late(s)) /\ c.disordered = Cardinality(Late(s))
      BY <1>1, <1>3
    <2> QED BY <1>4, <2>1, LateAppend
  <1>9. next.truncated \in Nat /\ (next.truncated = 0 => c.truncated = 0 /\ p.form # "cut")
    BY <1>3, <1>4
  <1>10. next.ambiguous = 0 => \A x \in Range(t) : x.form = "whole" => Cardinality(Candidates(x)) <= 1
    <2>1. Candidates(p) = {} \/ Cardinality(Candidates(p)) = 1 => Cardinality(Candidates(p)) <= 1
      <3>1. Candidates(p) = {} => Cardinality(Candidates(p)) = 0
        BY FS_EmptySet
      <3> QED BY <3>1
    <2>2. p.form = "foreign" => p.form # "whole"
      OBVIOUS
    <2> QED BY <1>2, <1>3, <1>5, <2>1, <2>2
  <1>11. next.truncated = 0 => \A x \in Range(t) : x.form # "cut"
    BY <1>2, <1>3, <1>9
  <1>12. next.at = Len(t) + 1
    BY <1>1, <1>2, <1>4
  <1>13. CaptureTally(t, next)
    BY <1>3, <1>4, <1>5, <1>6, <1>7, <1>8, <1>9, <1>10, <1>11, <1>12 DEF CaptureTally
  <1> QED BY <1>4, <1>13 DEF t, c, next

(* The packet was of this connection, of another one, or of none or more;  *)
(* one of another changes nothing that is kept under this identity.        *)
LEMMA PacketHeard ==
  ASSUME source \in Sources, source.packets # None, ReadPacket, IsSeq(events.conn),
         capture.at \in 1..Len(source.packets), CaptureTally(PacketsRead(capture.at - 1), capture),
         NEW i \in DOMAIN events.conn, Sole(i),
         Heard(i, Chosen(PacketsRead(capture.at - 1), Own(i)), capture)
  PROVE  Heard(i, Chosen(PacketsRead(capture.at), Own(i)), capture')
  <1> DEFINE s == PacketsRead(capture.at - 1)
             c == capture
             p == Packet
             next == capture'
             own == Chosen(s, Own(i))
             id == Identity(events.conn[i])
  <1>1. /\ IsSeq(s) /\ PacketsRead(capture.at) = Append(s, p) /\ p.ts \in Nat
        /\ p \in Range(source.packets) /\ p.form \in {"whole", "cut", "foreign"}
    BY PacketFacts DEF Packet, ReadPacket
  <1>2. Chosen(Append(s, p), Own(i)) = IF p \in Own(i) THEN Append(own, p) ELSE own
    <2>1. IsSeq(s)
      BY <1>1
    <2> HIDE DEF s, p
    <2> QED BY <2>1, ChosenAppend
  <1>3. DOMAIN c = DOMAIN NoCapture /\ \A x \in DOMAIN c.times : c.times[x] \in Nat
    BY DEF CaptureTally
  <1>4. IsSeq(own)
    BY <1>1, ChosenIsSeq
  <1>6. CASE /\ p.form = "foreign" \/ Cardinality(Candidates(p)) # 1
             /\ next.sequences = c.sequences /\ next.times = c.times /\ next.prints = c.prints
    <2>1. p \notin Own(i)
      <3> SUFFICES ASSUME p \in Own(i) PROVE FALSE
        OBVIOUS
      <3>1. PICK d : Candidates(p) = {<<i, d>>}
        BY OwnFits
      <3>2. Cardinality(Candidates(p)) = 1
        BY <3>1, FS_Singleton
      <3>3. p.form # "foreign"
        BY DEF Own
      <3> QED BY <1>6, <3>2, <3>3
    <2> QED BY <1>1, <1>2, <1>6, <2>1 DEF Heard, Sequence
  <1>7. ASSUME NEW j, NEW d, Candidates(p) = {<<j, d>>}, p.form # "foreign",
               next.sequences = Put(c.sequences, Identity(events.conn[j]), Kept(Sequence(c, Identity(events.conn[j])), p)),
               \/ /\ p.hello # "" /\ d = "orig"
                  /\ LET at1 == Identity(events.conn[j])
                     IN  /\ next.times =
                              Put(c.times, at1, IF at1 \in DOMAIN c.times THEN Max({p.ts, c.times[at1]}) ELSE p.ts)
                         /\ next.prints =
                              Put(c.prints, at1, IF at1 \in DOMAIN c.prints /\ c.prints[at1] # p.hello THEN None ELSE p.hello)
               \/ /\ ~(p.hello # "" /\ d = "orig")
                  /\ next.times = c.times /\ next.prints = c.prints
        PROVE  Heard(i, Chosen(PacketsRead(capture.at), Own(i)), next)
    <2>1. j \in DOMAIN events.conn /\ p.form \in {"whole", "cut"}
      BY <1>1, <1>7, FitsOne
    <2>2. CASE j # i
      <3>1. p \notin Own(i) /\ Identity(events.conn[j]) # id
        BY <1>7, <2>1, <2>2, FitsOne DEF Sole
      <3>2. Sequence(next, id) = Sequence(c, id)
        BY <1>7, <3>1 DEF Sequence, Put
      <3>3. id \in DOMAIN c.times => id \in DOMAIN next.times /\ next.times[id] = c.times[id]
        <4>1. next.times = c.times \/ \E v : next.times = Put(c.times, Identity(events.conn[j]), v)
          BY <1>7
        <4> HIDE DEF next, c, p, id
        <4> QED BY <3>1, <4>1 DEF Put
      <3>4. id \in DOMAIN c.prints => id \in DOMAIN next.prints /\ next.prints[id] = c.prints[id]
        BY <1>7, <3>1 DEF Put
      <3> HIDE DEF s, c, p, next, own, id
      <3>5. Heard(i, own, c)
        BY DEF own, s, c
      <3>6. Heard(i, own, next)
        BY <3>2, <3>3, <3>4, <3>5 DEF Heard, id
      <3> QED BY <1>1, <1>2, <3>1, <3>6 DEF c
    <2>3. CASE j = i
      <3>1. p \in Own(i)
        BY <1>1, <1>7, <2>1, <2>3, FitsOne
      <3> DEFINE more == Append(own, p)
      <3>2. Range(more) = Range(own) \cup {p}
        BY <1>4, AppendIsSeq
      <3>3. Sequence(next, id) = Kept(Sequence(c, id), p)
        BY <1>7, <2>3 DEF Sequence, Put
      <3>4. Sequence(c, id) = Recent(own)
        BY DEF Heard
      <3>5. Sequence(next, id) = Recent(more)
        BY <1>4, <3>3, <3>4, NextRecent
      <3>6. p.hello # "" /\ p.src = events.conn[i].src /\ p.dst = events.conn[i].dst => d = "orig"
        <4>1. PICK e \in {"orig", "resp"} : /\ Candidates(p) = {<<i, e>>}
                                            /\ p.src = events.conn[i].src /\ p.dst = events.conn[i].dst => e = "orig"
          BY <3>1, OwnFits
        <4>2. <<i, d>> = <<i, e>>
          BY <1>7, <2>3, <4>1
        <4> QED BY <4>1, <4>2
      <3>7. ASSUME NEW x \in Hellos(i, more)
            PROVE  /\ id \in DOMAIN next.times /\ x.ts <= next.times[id]
                   /\ id \in DOMAIN next.prints /\ next.prints[id] \in {None, x.hello}
        <4>1. /\ x \in Hellos(i, own) \/ x = p
              /\ x.hello # "" /\ x.src = events.conn[i].src /\ x.dst = events.conn[i].dst
          BY <3>2 DEF Hellos
        <4>2. /\ x \in Hellos(i, own) =>
                   /\ id \in DOMAIN c.times /\ x.ts <= c.times[id]
                   /\ id \in DOMAIN c.prints /\ c.prints[id] \in {None, x.hello}
          BY DEF Heard
        <4>3. x.ts \in Nat
          <5>1. x \in Range(own) \cup {p}
            BY <3>2 DEF Hellos
          <5>2. Range(own) \subseteq Own(i) /\ Own(i) \subseteq Range(source.packets)
            BY <1>1, ChosenIsSeq DEF Own
          <5> QED BY <1>1, <5>1, <5>2, SourceFacts
        <4>4. CASE p.hello # "" /\ d = "orig"
          <5>1. /\ next.times = Put(c.times, id, IF id \in DOMAIN c.times THEN Max({p.ts, c.times[id]}) ELSE p.ts)
                /\ next.prints = Put(c.prints, id, IF id \in DOMAIN c.prints /\ c.prints[id] # p.hello THEN None ELSE p.hello)
            BY <1>7, <2>3, <4>4
          <5>2. /\ id \in DOMAIN next.times /\ id \in DOMAIN next.prints
                /\ next.times[id] = IF id \in DOMAIN c.times THEN Max({p.ts, c.times[id]}) ELSE p.ts
                /\ next.prints[id] = IF id \in DOMAIN c.prints /\ c.prints[id] # p.hello THEN None ELSE p.hello
            BY <5>1 DEF Put
          <5>3. id \in DOMAIN c.times => c.times[id] \in Nat
            BY <1>3
          <5> HIDE DEF s, c, p, next, own, id, more
          <5>4. id \in DOMAIN c.times => Max({p.ts, c.times[id]}) = IF p.ts >= c.times[id] THEN p.ts ELSE c.times[id]
            BY <1>1, <5>3, MaxOfTwo
          <5>5. x.ts <= next.times[id]
            <6>1. CASE id \in DOMAIN c.times
              <7>1. next.times[id] = IF p.ts >= c.times[id] THEN p.ts ELSE c.times[id]
                BY <5>2, <5>4, <6>1
              <7>2. x = p \/ x.ts <= c.times[id]
                BY <4>1, <4>2
              <7> QED BY <1>1, <4>3, <5>3, <6>1, <7>1, <7>2
            <6>2. CASE id \notin DOMAIN c.times
              <7>1. next.times[id] = p.ts /\ x = p
                BY <4>1, <4>2, <5>2, <6>2
              <7> QED BY <1>1, <7>1
            <6> QED BY <6>1, <6>2
          <5>6. next.prints[id] \in {None, x.hello}
            BY <4>1, <4>2, <5>2
          <5> QED BY <5>2, <5>5, <5>6
        <4>5. CASE ~(p.hello # "" /\ d = "orig")
          <5>1. next.times = c.times /\ next.prints = c.prints
            BY <1>7, <4>5
          <5>2. x # p
            BY <3>6, <4>1, <4>5
          <5> QED BY <4>1, <4>2, <5>1, <5>2
        <4> QED BY <4>4, <4>5
      <3> HIDE DEF s, c, p, next, own, more
      <3>8. Heard(i, more, next)
        BY <3>5, <3>7 DEF Heard
      <3> QED BY <1>1, <1>2, <3>1, <3>8 DEF more, c
    <2> QED BY <2>2, <2>3
  <1> QED BY <1>3, <1>6, <1>7, PacketRead

-----------------------------------------------------------------------------
(* What depends on the input and the connections alone.                    *)
LEMMA ConnectionsKept ==
  ASSUME source' = source, events'.conn = events.conn
  PROVE  /\ \A p : Candidates(p)' = Candidates(p)
         /\ \A i : Own(i)' = Own(i) /\ (Sole(i)' <=> Sole(i)) /\ OfConnection(i)' = OfConnection(i)
         /\ \A n : PacketsRead(n)' = PacketsRead(n)
         /\ \A s, c : CaptureTally(s, c)' <=> CaptureTally(s, c)
         /\ \A i, own, c : Heard(i, own, c)' <=> Heard(i, own, c)
         /\ \A print : Printed(print)' <=> Printed(print)
         /\ \A m : Unjoined(m)' <=> Unjoined(m)
  <1>1. \A p : Candidates(p)' = Candidates(p)
    BY DEF Candidates
  <1>2. \A i : Own(i)' = Own(i)
    BY <1>1 DEF Own
  <1>3. \A i : Sole(i)' <=> Sole(i)
    BY DEF Sole
  <1>4. \A i : OfConnection(i)' = OfConnection(i)
    <2>1. \A i : OfConnection(i) = Chosen(source.packets, Own(i))
      BY DEF OfConnection, Own
    <2>2. \A i : OfConnection(i)' = Chosen(source.packets, Own(i))'
      BY DEF OfConnection, Own
    <2> QED BY <1>2, <2>1, <2>2
  <1>5. \A n : PacketsRead(n)' = PacketsRead(n)
    BY DEF PacketsRead
  <1>6. \A s, c : CaptureTally(s, c)' <=> CaptureTally(s, c)
    BY <1>1 DEF CaptureTally
  <1>7. \A i, s : Hellos(i, s)' = Hellos(i, s)
    BY DEF Hellos
  <1>8. \A i, own, c : Heard(i, own, c)' <=> Heard(i, own, c)
    BY <1>7 DEF Heard
  <1>9. \A print : Printed(print)' <=> Printed(print)
    BY SourceKept DEF Printed
  <1>10. \A m : Unjoined(m)' <=> Unjoined(m)
    BY <1>9 DEF Unjoined
  <1> QED BY <1>1, <1>2, <1>3, <1>4, <1>5, <1>6, <1>8, <1>9, <1>10

LEMMA EventsStep ==
  ASSUME FilesInv, EventsSound, [Next]_vars
  PROVE  EventsSound'
  <1> USE DEF vars, reader
  <1>1. source \in Sources /\ source' = source
    BY DEF FilesInv, Next, Convert, Refuse, Reject, Abort, Accept, Close, Absent, Finish, BreakOff, ReadPacket, Join
  <1>2. CASE events' = events /\ (Live' => Live)
    BY <1>1, <1>2, ConnectionsKept DEF EventsSound
  <1>3. CASE ~Live'
    BY <1>3 DEF EventsSound
  <1>4. CASE Accept
    <2> DEFINE r == Current
               file == File
               kind == KindOf(r, file.kind)
    <2>1. part \in DOMAIN source.files /\ at \in 1..Len(Records(part)) /\ Live /\ events' = Extended(events, r, file)
      <3>1. part \in DOMAIN source.files
        BY <1>1, <1>4, SourceFacts DEF FilesInv, TotalSound, Live, Accept, MoreRecords, Reading
      <3>2. Account(part, at, quality, latest, seen, accepted)
        BY <1>4, <3>1 DEF FilesInv, AccountSound, Accept, MoreRecords, Reading
      <3> QED BY <1>1, <1>4, <3>1, <3>2, RecordsFacts DEF Account, Live, Accept, MoreRecords, Reading
    <2>2. r \in Range(Records(part)) /\ r.ts \in Nat
      BY <1>1, <2>1, ReadNext DEF Current
    <2>3. Printed(r.print)
      BY <2>1, <2>2 DEF Printed
    <2>4. Unjoined(Metadata(r))
      <3>1. /\ DOMAIN Metadata(r) = {"ts", "flow", "src", "dst", "print", "packets", "joined"}
            /\ Metadata(r).ts = r.ts /\ Metadata(r).joined = None /\ Metadata(r).print = r.print
        BY DEF Metadata
      <3> QED BY <2>2, <2>3, <3>1 DEF Unjoined
    <2>5. Connection(r).ts \in Nat
      BY <2>2 DEF Connection
    <2>6. /\ DOMAIN events' = {"conn", "dns", "tls"}
          /\ events'.conn = events.conn \/ events'.conn = Append(events.conn, Connection(r))
          /\ events'.tls = events.tls \/ events'.tls = Append(events.tls, Metadata(r))
      BY <2>1 DEF Extended
    <2>7. /\ IsSeq(events.conn) /\ IsSeq(events.tls) /\ \A i \in DOMAIN events.conn : events.conn[i].ts \in Nat
          /\ \A m \in Range(events.tls) : Unjoined(m)
      BY <2>1 DEF EventsSound
    <2> HIDE DEF r
    <2>8. IsSeq(events'.conn) /\ \A i \in DOMAIN events'.conn : events'.conn[i].ts \in Nat
      <3> DEFINE t == Append(events.conn, Connection(r))
      <3>1. IsSeq(t) /\ Len(t) = Len(events.conn) + 1 /\ t[Len(events.conn) + 1] = Connection(r)
            /\ \A i \in 1..Len(events.conn) : t[i] = events.conn[i]
        BY <2>7, AppendIsSeq
      <3> HIDE DEF t
      <3>2. Len(events.conn) \in Nat /\ DOMAIN events.conn = 1..Len(events.conn) /\ DOMAIN t = 1..Len(t)
        BY <2>7, <3>1, SeqFacts
      <3>3. \A i \in DOMAIN t : t[i].ts \in Nat
        BY <2>5, <2>7, <3>1, <3>2
      <3> QED BY <2>6, <2>7, <3>1, <3>3 DEF t
    <2>9. IsSeq(events'.tls) /\ \A m \in Range(events'.tls) : Unjoined(m)
      <3>1. IsSeq(Append(events.tls, Metadata(r))) /\ Range(Append(events.tls, Metadata(r))) = Range(events.tls) \cup {Metadata(r)}
        BY <2>7, AppendIsSeq
      <3> QED BY <2>4, <2>6, <2>7, <3>1
    <2>10. \A m : Unjoined(m)' <=> Unjoined(m)
      BY <1>1, SourceKept DEF Unjoined, Printed
    <2> QED BY <2>6, <2>8, <2>9, <2>10 DEF EventsSound
  <1>5. CASE Convert \/ Reject \/ Close \/ Finish \/ ReadPacket \/ UNCHANGED vars
    <2>1. events' = events /\ (Live' => Live)
      BY <1>5 DEF Convert, Reject, Close, Finish, ReadPacket, Live, MoreRecords, MorePackets, Reading
    <2> QED BY <1>2, <2>1
  <1>6. CASE Refuse \/ Abort \/ Absent \/ BreakOff \/ Join
    <2>1. ~Live'
      BY <1>6 DEF Refuse, Abort, Absent, BreakOff, Join, Live
    <2> QED BY <1>3, <2>1
  <1> QED BY <1>4, <1>5, <1>6 DEF Next

LEMMA CaptureStep ==
  ASSUME FilesInv, EventsSound, CaptureSound, [Next]_vars
  PROVE  CaptureSound'
  <1> USE DEF vars, reader
  <1>1. source \in Sources /\ source' = source
    BY DEF FilesInv, Next, Convert, Refuse, Reject, Abort, Accept, Close, Absent, Finish, BreakOff, ReadPacket, Join
  <1>2. CASE capture' = capture /\ outcome' \in {"converting", "reading"} /\ outcome \in {"converting", "reading"}
    BY <1>2 DEF CaptureSound
  <1>3. CASE outcome' \notin {"converting", "reading", "joining"}
    BY <1>3 DEF CaptureSound
  <1>4. CASE UNCHANGED vars
    <2>1. events'.conn = events.conn
      BY <1>4
    <2> QED BY <1>1, <1>4, <2>1, ConnectionsKept DEF CaptureSound
  <1>5. CASE Convert \/ Reject \/ Accept \/ Close
    <2>1. capture' = capture /\ outcome \in {"converting", "reading"}
          /\ outcome' \in {"converting", "reading", "refused", "unusable"}
      BY <1>5 DEF Convert, Reject, Accept, Close, MoreRecords, Reading
    <2> QED BY <1>2, <1>3, <2>1
  <1>6. CASE Refuse \/ Abort \/ Absent \/ BreakOff \/ Join
    BY <1>3, <1>6 DEF Refuse, Abort, Absent, BreakOff, Join
  <1>7. CASE Finish /\ outcome' = "joining"
    <2>1. /\ capture' = NoCapture /\ source.packets # None /\ events' = events /\ IsSeq(events.conn)
      BY <1>7 DEF Finish, CaptureSound, EventsSound, Live
    <2>2. IsSeq(source.packets) /\ Len(source.packets) \in Nat
      BY <1>1, <2>1, SourceFacts
    <2>3. PacketsRead(0) = <<>> /\ NoCapture.at = 1 /\ 1 - 1 = 0
      BY <2>2, PrefixWhole DEF PacketsRead, NoCapture
    <2>4. CaptureTally(<<>>, NoCapture)
      <3>1. Timed(<<>>) /\ Len(<<>>) = 0 /\ Range(<<>>) = {} /\ LatestOf(<<>>, None) /\ Late(<<>>) = {}
        BY EmptyIsSeq DEF Timed, LatestOf, Late
      <3>2. IsFiniteSet(Late(<<>>)) /\ Cardinality(Late(<<>>)) = 0
        BY <3>1, FS_EmptySet
      <3>3. /\ NoCapture.at = 1 /\ NoCapture.latest = None /\ NoCapture.disordered = 0 /\ NoCapture.truncated = 0
            /\ NoCapture.ambiguous = 0 /\ NoCapture.conflicting = 0 /\ DOMAIN NoCapture.times = {}
        BY DEF NoCapture
      <3> DEFINE e == <<>>
      <3>4. /\ Timed(e) /\ NoCapture.at = Len(e) + 1 /\ LatestOf(e, NoCapture.latest)
            /\ IsFiniteSet(Late(e)) /\ NoCapture.disordered = Cardinality(Late(e)) /\ Range(e) = {}
        BY <3>1, <3>2, <3>3
      <3> HIDE DEF e
      <3>5. CaptureTally(e, NoCapture)
        BY <3>3, <3>4 DEF CaptureTally
      <3> QED BY <3>5 DEF e
    <2>5. ASSUME NEW i \in DOMAIN events.conn
          PROVE  Heard(i, <<>>, NoCapture)
      <3>1. DOMAIN NoCapture.sequences = {}
        BY DEF NoCapture
      <3>2. \A id : Sequence(NoCapture, id) = <<>>
        BY <3>1 DEF Sequence
      <3>3. Recent(<<>>) = <<>>
        <4>1. Max({1, Len(<<>>) - Retained + 1}) = 1
          <5>1. Len(<<>>) = 0
            BY EmptyIsSeq
          <5>2. 0 - Retained + 1 \in Int /\ 1 >= 0 - Retained + 1
            BY SourcesAssumption
          <5> QED BY <5>1, <5>2, MaxOfTwo
        <4>2. SubSeq(<<>>, 1, Len(<<>>)) = <<>>
          BY EmptyIsSeq, PrefixWhole
        <4> QED BY <4>1, <4>2 DEF Recent
      <3>4. Hellos(i, <<>>) = {}
        BY EmptyIsSeq DEF Hellos
      <3> DEFINE e == <<>>
      <3>5. Recent(e) = e /\ Hellos(i, e) = {} /\ \A id : Sequence(NoCapture, id) = e
        BY <3>2, <3>3, <3>4
      <3> HIDE DEF e
      <3>6. Heard(i, e, NoCapture)
        BY <3>5 DEF Heard
      <3> QED BY <3>6 DEF e
    <2>6. events'.conn = events.conn
      BY <2>1
    <2>7. /\ CaptureTally(PacketsRead(capture'.at - 1), capture')
          /\ \A i \in DOMAIN events.conn : Heard(i, Chosen(PacketsRead(capture'.at - 1), Own(i)), capture')
      <3>1. capture'.at - 1 = 0
        BY <2>1, <2>3
      <3>2. PacketsRead(capture'.at - 1) = <<>>
        BY <2>3, <3>1
      <3> QED BY <2>1, <2>4, <2>5, <3>2, ChosenEmpty
    <2>8. capture'.at \in 1..(Len(source.packets) + 1)
      BY <2>1, <2>2, <2>3
    <2> QED BY <1>1, <1>7, <2>1, <2>6, <2>7, <2>8, ConnectionsKept DEF CaptureSound
  <1>8. CASE Finish /\ outcome' # "joining"
    BY <1>3, <1>8 DEF Finish
  <1>9. CASE ReadPacket
    <2>1. /\ source.packets # None /\ capture.at \in 1..Len(source.packets) /\ IsSeq(events.conn)
          /\ CaptureTally(PacketsRead(capture.at - 1), capture)
          /\ \A i \in DOMAIN events.conn : Sole(i) => Heard(i, Chosen(PacketsRead(capture.at - 1), Own(i)), capture)
          /\ outcome = "joining" /\ outcome' = outcome /\ events'.conn = events.conn
      <3>1. outcome = "joining" /\ capture.at <= Len(source.packets) /\ outcome' = outcome /\ events' = events
        BY <1>9 DEF ReadPacket, MorePackets
      <3>2. source.packets # None /\ capture.at \in 1..(Len(source.packets) + 1) /\ IsSeq(events.conn)
        BY <3>1 DEF CaptureSound, EventsSound, Live
      <3>3. Len(source.packets) \in Nat
        BY <1>1, <3>2, SourceFacts
      <3> QED BY <3>1, <3>2, <3>3 DEF CaptureSound
    <2>2. CaptureTally(PacketsRead(capture.at), capture') /\ capture'.at = capture.at + 1
      BY <1>1, <1>9, <2>1, PacketTally
    <2>3. \A i \in DOMAIN events.conn : Sole(i) => Heard(i, Chosen(PacketsRead(capture.at), Own(i)), capture')
      BY <1>1, <1>9, <2>1, PacketHeard
    <2>4. capture'.at - 1 = capture.at /\ capture'.at \in 1..(Len(source.packets) + 1)
      <3>1. Len(source.packets) \in Nat
        BY <1>1, <2>1, SourceFacts
      <3> QED BY <2>1, <2>2, <3>1
    <2> QED BY <1>1, <2>1, <2>2, <2>3, <2>4, ConnectionsKept DEF CaptureSound
  <1> QED BY <1>4, <1>5, <1>6, <1>7, <1>8, <1>9 DEF Next

-----------------------------------------------------------------------------
(* The join.                                                               *)

LEMMA OneHolder ==
  ASSUME IsSeq(events.conn), NEW m, Cardinality(Holders(m)) = 1
  PROVE  LET i == CHOOSE i \in Holders(m) : TRUE
         IN  i \in DOMAIN events.conn /\ Identity(events.conn[i]) = Identity(m)
  <1>1. Holders(m) \in SUBSET (DOMAIN events.conn) /\ IsFiniteSet(DOMAIN events.conn)
    <2>1. Len(events.conn) \in Nat /\ DOMAIN events.conn = 1..Len(events.conn)
      BY SeqFacts
    <2>2. IsFiniteSet(1..Len(events.conn))
      BY <2>1, FS_Interval
    <2> QED BY <2>1, <2>2 DEF Holders
  <1>2. IsFiniteSet(Holders(m))
    BY <1>1, FS_Subset
  <1>3. PICK x : Holders(m) = {x}
    BY <1>2, FS_Singleton
  <1>4. (CHOOSE i \in Holders(m) : TRUE) = x
    BY <1>3
  <1>5. x \in Holders(m)
    BY <1>3
  <1> QED BY <1>4, <1>5 DEF Holders

LEMMA TimesFinite ==
  ASSUME NEW s, IsSeq(s), \A p \in Range(s) : p.ts \in Nat
  PROVE  IsFiniteSet({p.ts : p \in Range(s)}) /\ {p.ts : p \in Range(s)} \subseteq Int
  <1> DEFINE times == {p.ts : p \in Range(s)}
             f == [p \in Range(s) |-> p.ts]
  <1>1. f \in Surjection(Range(s), times)
    BY DEF Surjection
  <1>2. IsFiniteSet(Range(s))
    BY RangeFinite
  <1> HIDE DEF f
  <1>3. IsFiniteSet(times)
    <2> HIDE DEF times
    <2> QED BY <1>1, <1>2, FS_Surjection
  <1> QED BY <1>3

(* A session of a log, or one that only the capture has.                   *)
Session(m) ==
  /\ DOMAIN m = {"ts", "flow", "src", "dst", "print", "packets", "joined"}
  /\ m.ts \in Nat /\ (m.print = "" \/ Printed(m.print))
LEMMA SessionTime ==
  ASSUME NEW m, Session(m)
  PROVE  m.ts \in Int
  <1>1. m.ts \in Nat
    BY Zenon DEF Session
  <1> QED BY <1>1

(* What a session becomes that is joined to a connection.                  *)
LEMMA EnrichedCausal ==
  ASSUME source \in Sources, source.packets # None, IsSeq(events.conn),
         NEW i \in DOMAIN events.conn, Sole(i), CaptureTally(source.packets, capture),
         Heard(i, Chosen(source.packets, Own(i)), capture),
         NEW m, Session(m), Identity(m) = Identity(events.conn[i])
  PROVE  LET s == Enriched(m, i)
             own == OfConnection(i)
             hellos == {p \in Range(own) : p.hello # "" /\ p.src = s.src /\ p.dst = s.dst}
         IN  /\ s.joined = i /\ s.packets = Recent(own)
             /\ \A p \in Range(s.packets) \cup hellos : p.ts <= s.ts
             /\ Cardinality({p.hello : p \in hellos}) > 1 => s.print = "" \/ Printed(s.print)
  <1> DEFINE s == Enriched(m, i)
             own == OfConnection(i)
             hellos == {p \in Range(own) : p.hello # "" /\ p.src = s.src /\ p.dst = s.dst}
             id == Identity(m)
             packets == IF id \in DOMAIN capture.sequences THEN capture.sequences[id] ELSE <<>>
             hello == IF id \in DOMAIN capture.times THEN {capture.times[id]} ELSE {}
             times == {m.ts} \cup hello \cup {p.ts : p \in Range(packets)}
  <1>1. own = Chosen(source.packets, Own(i))
    BY DEF OfConnection, Own
  <1>2. /\ s.joined = i /\ s.packets = packets /\ s.ts = Max(times) /\ s.src = m.src /\ s.dst = m.dst
        /\ s.print = IF m.print = "" /\ Greeting(id) # None THEN Greeting(id) ELSE m.print
    BY DEF Enriched, Session
  <1>3. packets = Recent(own)
    BY <1>1 DEF Heard, Sequence
  <1>4. IsSeq(source.packets) /\ Len(source.packets) \in Nat /\ \A p \in Range(source.packets) : p.ts \in Nat
    BY SourceFacts
  <1>5. IsSeq(own) /\ Range(own) \subseteq Range(source.packets)
    <2>1. /\ IsSeq(Chosen(source.packets, Own(i)))
          /\ Range(Chosen(source.packets, Own(i))) \subseteq Own(i) \cap Range(source.packets)
      BY <1>4, ChosenIsSeq
    <2> HIDE DEF own
    <2> QED BY <1>1, <2>1
  <1>6. IsSeq(packets) /\ Range(packets) \subseteq Range(own)
    <2> DEFINE n == Len(own)
               from == Max({1, n - Retained + 1})
    <2>1. n \in Nat /\ Retained \in Nat
      BY <1>5, SeqFacts, SourcesAssumption
    <2> HIDE DEF own, n
    <2>2. from \in Nat /\ from >= 1
      <3>1. n - Retained + 1 \in Int
        BY <2>1
      <3>2. from = IF 1 >= n - Retained + 1 THEN 1 ELSE n - Retained + 1
        BY <3>1, MaxOfTwo
      <3> HIDE DEF from
      <3> QED BY <3>1, <3>2
    <2>3. Recent(own) = SubSeq(own, from, n)
      BY DEF Recent, n
    <2> HIDE DEF from, packets
    <2>4. IsSeq(SubSeq(own, from, n)) /\ Range(SubSeq(own, from, n)) \subseteq Range(own)
      BY <1>5, <2>1, <2>2, SubSeqIsSeq DEF n
    <2> QED BY <1>3, <2>3, <2>4
  <1>7. hellos = Hellos(i, own)
    BY <1>2 DEF Hellos, Identity
  <1>8. \A p \in hellos : /\ id \in DOMAIN capture.times /\ p.ts <= capture.times[id]
                          /\ id \in DOMAIN capture.prints /\ capture.prints[id] \in {None, p.hello}
    BY <1>1, <1>7 DEF Heard
  <1>9. \A x \in DOMAIN capture.times : capture.times[x] \in Nat
    BY DEF CaptureTally
  <1> HIDE DEF s, own, packets, id
  <1>10. IsFiniteSet(times) /\ times \subseteq Int /\ times # {}
    <2>1. hello \subseteq Int
      BY <1>9
    <2>2. IsFiniteSet(hello)
      <3>1. IsFiniteSet({capture.times[id]}) /\ IsFiniteSet({})
        BY FS_Singleton, FS_EmptySet
      <3> QED BY <3>1
    <2> DEFINE sent == {p.ts : p \in Range(packets)}
    <2>3. \A p \in Range(packets) : p.ts \in Nat
      BY <1>4, <1>5, <1>6
    <2>4. IsFiniteSet(sent) /\ sent \subseteq Int
      BY <1>6, <2>3, TimesFinite
    <2>5. IsFiniteSet({m.ts})
      BY FS_Singleton
    <2> HIDE DEF hello, sent
    <2>6. IsFiniteSet({m.ts} \cup hello)
      BY <2>2, <2>5, FS_Union
    <2>7. IsFiniteSet({m.ts} \cup hello \cup sent)
      BY <2>4, <2>6, FS_Union
    <2>8. m.ts \in Int
      BY SessionTime
    <2>9. times = {m.ts} \cup hello \cup sent
      BY DEF sent
    <2> HIDE DEF times
    <2> QED BY <2>1, <2>4, <2>7, <2>8, <2>9
  <1>11. \A t \in times : t <= s.ts
    <2>1. Max(times) \in times /\ \A t \in times : Max(times) >= t
      <3> HIDE DEF times
      <3> QED BY <1>10, MaxOfFinite
    <2> HIDE DEF times
    <2> QED BY <1>2, <1>10, <2>1
  <1>12. \A p \in Range(s.packets) : p.ts <= s.ts
    BY <1>2, <1>11
  <1>13. ASSUME NEW p \in hellos
         PROVE  p.ts <= s.ts
    <2>1. capture.times[id] \in times /\ p.ts <= capture.times[id] /\ capture.times[id] \in Nat
      BY <1>8, <1>9, <1>13
    <2>2. capture.times[id] <= s.ts /\ s.ts \in Int
      <3>1. s.ts \in times
        <4> HIDE DEF times
        <4> QED BY <1>2, <1>10, MaxOfFinite
      <3> QED BY <1>10, <1>11, <2>1, <3>1
    <2>3. p.ts \in Nat
      BY <1>4, <1>5, <1>13
    <2> HIDE DEF hellos, times
    <2> QED BY <2>1, <2>2, <2>3
  <1>14. ASSUME Cardinality({p.hello : p \in hellos}) > 1
         PROVE  s.print = "" \/ Printed(s.print)
    <2>1. CASE Greeting(id) = None
      BY <1>2, <2>1 DEF Session
    <2>2. CASE Greeting(id) # None
      <3>1. \A p \in hellos : p.hello = Greeting(id)
        BY <1>8, <2>2 DEF Greeting
      <3> HIDE DEF hellos
      <3>2. {p.hello : p \in hellos} = {} \/ {p.hello : p \in hellos} = {Greeting(id)}
        BY <3>1
      <3> DEFINE greetings == {p.hello : p \in hellos}
      <3>3. greetings = {} \/ greetings = {Greeting(id)}
        BY <3>2
      <3> HIDE DEF greetings
      <3>4. greetings = {} => Cardinality(greetings) = 0
        BY FS_EmptySet
      <3>5. greetings = {Greeting(id)} => Cardinality(greetings) = 1
        BY FS_Singleton
      <3>6. ~(Cardinality(greetings) > 1)
        BY <3>3, <3>4, <3>5
      <3> QED BY <1>14, <3>6 DEF greetings
    <2> QED BY <2>1, <2>2
  <1> QED BY <1>2, <1>3, <1>12, <1>13, <1>14 DEF s, own

IntakeInv == FilesInv /\ EventsSound /\ CaptureSound /\ HealthyIsWhole /\ JoinCausal

LEMMA JoinStarts ==
  ASSUME IntakeInv, Join
  PROVE  /\ source \in Sources /\ source' = source /\ source.packets # None /\ IsSeq(events.conn) /\ IsSeq(events.tls)
         /\ PacketsRead(capture.at - 1) = source.packets /\ CaptureTally(source.packets, capture)
         /\ \A i \in DOMAIN events.conn : Sole(i) => Heard(i, Chosen(source.packets, Own(i)), capture)
         /\ DOMAIN events = {"conn", "dns", "tls"} /\ \A m \in Range(events.tls) : Unjoined(m)
         /\ \A i \in DOMAIN events.conn : events.conn[i].ts \in Nat
         /\ events'.conn = events.conn
         /\ events'.tls = [k \in DOMAIN events.tls |-> Joined(events.tls[k])] \o SetToSeq({CaptureOnly(i) : i \in Unlogged})
         /\ capture' = capture /\ outcome' = "prepared"
  <1>1. outcome = "joining" /\ Live /\ capture.at > Len(source.packets) /\ source \in Sources
    BY DEF IntakeInv, FilesInv, Join, Live
  <1>2. source.packets # None /\ capture.at \in 1..(Len(source.packets) + 1)
    BY <1>1 DEF IntakeInv, CaptureSound
  <1>3. IsSeq(source.packets) /\ Len(source.packets) \in Nat
    BY <1>1, <1>2, SourceFacts
  <1>4. capture.at - 1 = Len(source.packets)
    BY <1>1, <1>2, <1>3
  <1>5. PacketsRead(capture.at - 1) = source.packets
    BY <1>3, <1>4, PrefixWhole DEF PacketsRead
  <1>6. /\ CaptureTally(source.packets, capture)
        /\ \A i \in DOMAIN events.conn : Sole(i) => Heard(i, Chosen(source.packets, Own(i)), capture)
    BY <1>1, <1>5 DEF IntakeInv, CaptureSound
  <1>7. /\ DOMAIN events = {"conn", "dns", "tls"} /\ IsSeq(events.conn) /\ IsSeq(events.tls)
        /\ \A m \in Range(events.tls) : Unjoined(m) /\ \A i \in DOMAIN events.conn : events.conn[i].ts \in Nat
    BY <1>1 DEF IntakeInv, EventsSound
  <1>8. /\ events'.conn = events.conn /\ source' = source /\ capture' = capture /\ outcome' = "prepared"
        /\ events'.tls = [k \in DOMAIN events.tls |-> Joined(events.tls[k])] \o SetToSeq({CaptureOnly(i) : i \in Unlogged})
    BY <1>7 DEF Join
  <1>9. \A i \in DOMAIN events.conn : events.conn[i].ts \in Nat
    BY <1>1 DEF IntakeInv, EventsSound
  <1>10. \A m \in Range(events.tls) : Unjoined(m)
    BY <1>1 DEF IntakeInv, EventsSound
  <1> QED BY <1>1, <1>2, <1>5, <1>6, <1>7, <1>8, <1>9, <1>10

LEMMA JoinWhole ==
  ASSUME IntakeInv, Join
  PROVE  HealthyIsWhole'
  <1> SUFFICES ASSUME total'.status = "healthy" PROVE HealthyIsWhole'
    BY DEF HealthyIsWhole
  <1>1. /\ source \in Sources /\ source' = source /\ source.packets # None /\ CaptureTally(source.packets, capture)
        /\ events'.conn = events.conn
    BY JoinStarts
  <1>2. DOMAIN total = DOMAIN NoQuality /\ part > Len(source.files) /\ part \in Nat
        /\ (total.status = "healthy" => \A n \in DOMAIN source.files : n < part => WholeFile(n))
    BY DEF IntakeInv, FilesInv, TotalSound, Live, Join
  <1>3. total.status = "healthy"
        /\ ~(capture.disordered + capture.truncated + capture.ambiguous + capture.conflicting > 0)
    <2>1. "status" \in DOMAIN total
      BY <1>2 DEF NoQuality
    <2> DEFINE sum == capture.disordered + capture.truncated + capture.ambiguous + capture.conflicting
    <2>2. total' = IF total.status = "healthy" /\ sum > 0 THEN [total EXCEPT !.status = "degraded"] ELSE total
      BY DEF Join
    <2> HIDE DEF sum
    <2>3. total' = total
      BY <2>1, <2>2
    <2>4. total.status = "healthy" /\ ~(sum > 0)
      BY <2>1, <2>2, <2>3
    <2> QED BY <2>4 DEF sum
  <1>4. capture.disordered = 0 /\ capture.truncated = 0 /\ capture.ambiguous = 0
    <2>1. /\ capture.disordered \in Nat /\ capture.truncated \in Nat
          /\ capture.ambiguous \in Nat /\ capture.conflicting \in Nat
      BY <1>1, FS_CardinalityType DEF CaptureTally
    <2> DEFINE a == capture.disordered
               b == capture.truncated
               c == capture.ambiguous
               d == capture.conflicting
    <2>2. ~(a + b + c + d > 0) /\ a \in Nat /\ b \in Nat /\ c \in Nat /\ d \in Nat
      BY <1>3, <2>1
    <2> HIDE DEF a, b, c, d
    <2>3. a = 0 /\ b = 0 /\ c = 0
      BY <2>2
    <2> QED BY <2>3 DEF a, b, c
  <1>5. \A n \in DOMAIN source.files : WholeFile(n)
    <2>1. Len(source.files) \in Nat /\ DOMAIN source.files = 1..Len(source.files)
      BY <1>1, SourceFacts
    <2>2. \A n \in DOMAIN source.files : n < part
      BY <1>2, <2>1
    <2> QED BY <1>2, <1>3, <2>2
  <1>6. /\ Late(source.packets) = {}
        /\ \A p \in Range(source.packets) :
             p.form # "cut" /\ (p.form = "whole" => Cardinality(Candidates(p)) <= 1)
    <2>1. Late(source.packets) = {}
      BY <1>1, <1>4, FS_EmptySet DEF CaptureTally
    <2> QED BY <1>1, <1>4, <2>1 DEF CaptureTally
  <1>7. \A p : Candidates(p)' = Candidates(p)
    BY <1>1, ConnectionsKept
  <1>8. \A n \in DOMAIN source.files : WholeFile(n)'
    BY <1>1, <1>5, SourceKept
  <1>9. \A n \in DOMAIN source'.files : WholeFile(n)'
    BY <1>1, <1>8
  <1>10. source'.packets # None =>
           /\ Late(source'.packets) = {}
           /\ \A p \in Range(source'.packets) :
                p.form # "cut" /\ (p.form = "whole" => Cardinality(Candidates(p)') <= 1)
    BY <1>1, <1>6, <1>7
  <1> QED BY <1>9, <1>10 DEF HealthyIsWhole, WholeFile

(* What the code hands on, once the packets are joined.                    *)
Causal(s) ==
  s.joined # None /\ (\A i \in DOMAIN events.conn : Identity(events.conn[i]) = Identity(s) => i = s.joined) =>
    LET own    == OfConnection(s.joined)
        hellos == {p \in Range(own) : p.hello # "" /\ p.src = s.src /\ p.dst = s.dst}
    IN  /\ s.packets = Recent(own)
        /\ \A p \in Range(s.packets) \cup hellos : p.ts <= s.ts
        /\ Cardinality({p.hello : p \in hellos}) > 1 => s.print = "" \/ Printed(s.print)

LEMMA EnrichedIsCausal ==
  ASSUME IntakeInv, Join, NEW i \in DOMAIN events.conn, NEW m, Session(m), Identity(m) = Identity(events.conn[i])
  PROVE  Causal(Enriched(m, i))
  <1> DEFINE s == Enriched(m, i)
  <1>1. /\ source \in Sources /\ source.packets # None /\ IsSeq(events.conn) /\ CaptureTally(source.packets, capture)
        /\ \A j \in DOMAIN events.conn : Sole(j) => Heard(j, Chosen(source.packets, Own(j)), capture)
    BY JoinStarts
  <1>2. s.joined = i /\ Identity(s) = Identity(m)
    BY DEF Enriched, Session, Identity
  <1> HIDE DEF s
  <1> SUFFICES ASSUME \A j \in DOMAIN events.conn : Identity(events.conn[j]) = Identity(s) => j = s.joined
               PROVE  Causal(s)
    BY DEF Causal, s
  <1>3. Sole(i)
    BY <1>2 DEF Sole
  <1>4. Heard(i, Chosen(source.packets, Own(i)), capture)
    BY <1>1, <1>3
  <1> DEFINE own    == OfConnection(i)
             hellos == {p \in Range(own) : p.hello # "" /\ p.src = s.src /\ p.dst = s.dst}
  <1>5. /\ s.packets = Recent(own)
        /\ \A p \in Range(s.packets) \cup hellos : p.ts <= s.ts
        /\ Cardinality({p.hello : p \in hellos}) > 1 => s.print = "" \/ Printed(s.print)
    BY <1>1, <1>3, <1>4, EnrichedCausal DEF s
  <1> QED BY <1>2, <1>5 DEF Causal

LEMMA JoinIsCausal ==
  ASSUME IntakeInv, Join
  PROVE  JoinCausal'
  <1>1. /\ source' = source /\ IsSeq(events.conn) /\ IsSeq(events.tls) /\ \A m \in Range(events.tls) : Unjoined(m)
        /\ \A i \in DOMAIN events.conn : events.conn[i].ts \in Nat
        /\ events'.conn = events.conn /\ source.packets # None
        /\ events'.tls = [k \in DOMAIN events.tls |-> Joined(events.tls[k])] \o SetToSeq({CaptureOnly(i) : i \in Unlogged})
    BY JoinStarts
  <1>2. ASSUME NEW m, Unjoined(m)
        PROVE  Causal(Joined(m))
    <2>1. Session(m)
      BY <1>2 DEF Unjoined, Session
    <2>2. CASE Cardinality(Holders(m)) = 1
      <3> DEFINE i == CHOOSE i \in Holders(m) : TRUE
      <3>1. i \in DOMAIN events.conn /\ Identity(events.conn[i]) = Identity(m)
        BY <1>1, <2>2, OneHolder
      <3>2. Joined(m) = Enriched(m, i)
        BY <2>2 DEF Joined
      <3> HIDE DEF i
      <3> QED BY <2>1, <3>1, <3>2, EnrichedIsCausal
    <2>3. CASE Cardinality(Holders(m)) # 1
      <3>1. Joined(m).joined = None
        BY <1>2, <2>3 DEF Joined, Unjoined
      <3> QED BY <3>1 DEF Causal
    <2> QED BY <2>2, <2>3
  <1>3. ASSUME NEW i \in Unlogged
        PROVE  Causal(CaptureOnly(i))
    <2> DEFINE e == events.conn[i]
               m == [ts |-> e.ts, flow |-> e.flow, src |-> e.src, dst |-> e.dst, print |-> "",
                     packets |-> <<>>, joined |-> None]
    <2>1. i \in DOMAIN events.conn
      BY DEF Unlogged
    <2>2. Session(m) /\ Identity(m) = Identity(e)
      BY <1>1, <2>1 DEF Session, Identity
    <2>3. CaptureOnly(i) = Enriched(m, i)
      BY DEF CaptureOnly
    <2> HIDE DEF m
    <2> QED BY <2>1, <2>2, <2>3, EnrichedIsCausal
  <1> DEFINE mapped == [k \in DOMAIN events.tls |-> Joined(events.tls[k])]
             alone == {CaptureOnly(i) : i \in Unlogged}
  <1>4. IsSeq(mapped) /\ \A s \in Range(mapped) : Causal(s)
    <2>1. Len(events.tls) \in Nat /\ DOMAIN events.tls = 1..Len(events.tls)
          /\ \A k \in 1..Len(events.tls) : events.tls[k] \in Range(events.tls)
      BY <1>1, SeqFacts
    <2>2. \A k \in 1..Len(events.tls) : Causal(Joined(events.tls[k]))
      BY <1>1, <1>2, <2>1
    <2>3. mapped = [k \in 1..Len(events.tls) |-> Joined(events.tls[k])]
      BY <2>1
    <2>4. Range(mapped) = {Joined(events.tls[k]) : k \in 1..Len(events.tls)}
      BY <2>3 DEF Range
    <2>5. mapped \in [1..Len(events.tls) -> Range(mapped)]
      BY <2>3, <2>4
    <2> HIDE DEF mapped
    <2>6. mapped \in Seq(Range(mapped))
      BY <2>1, <2>5
    <2> QED BY <2>2, <2>4, <2>6 DEF IsSeq
  <1>5. IsFiniteSet(alone) /\ \A s \in alone : Causal(s)
    <2>1. Unlogged \in SUBSET (DOMAIN events.conn) /\ IsFiniteSet(DOMAIN events.conn)
      <3>1. Len(events.conn) \in Nat /\ DOMAIN events.conn = 1..Len(events.conn)
        BY <1>1, SeqFacts
      <3>2. IsFiniteSet(1..Len(events.conn))
        BY <3>1, FS_Interval
      <3> QED BY <3>1, <3>2 DEF Unlogged
    <2>2. IsFiniteSet(Unlogged)
      BY <2>1, FS_Subset
    <2> DEFINE f == [i \in Unlogged |-> CaptureOnly(i)]
    <2>3. f \in Surjection(Unlogged, alone)
      BY DEF Surjection
    <2>4. \A s \in alone : Causal(s)
      BY <1>3
    <2> HIDE DEF f, alone
    <2> QED BY <2>2, <2>3, <2>4, FS_Surjection
  <1> HIDE DEF mapped, alone
  <1>6. IsSeq(SetToSeq(alone)) /\ Range(SetToSeq(alone)) \subseteq alone
    BY <1>5, SetToSeqRange
  <1>7. Range(mapped \o SetToSeq(alone)) \subseteq Range(mapped) \cup Range(SetToSeq(alone))
    BY <1>4, <1>6, ConcatIsSeq
  <1>8. events'.tls = mapped \o SetToSeq(alone)
    BY <1>1 DEF mapped, alone
  <1>9. \A s \in Range(events'.tls) : Causal(s)
    BY <1>4, <1>5, <1>6, <1>7, <1>8
  <1>10. /\ \A i : OfConnection(i)' = OfConnection(i)
         /\ \A print : Printed(print)' <=> Printed(print)
    BY <1>1, ConnectionsKept
  <1>11. ASSUME NEW s \in Range(events'.tls)
         PROVE  Causal(s)'
    <2>1. Causal(s)
      BY <1>9
    <2> QED BY <1>1, <1>10, <2>1 DEF Causal
  <1> QED BY <1>11 DEF JoinCausal, Causal, Printed

LEMMA IntakeStep ==
  ASSUME IntakeInv, [Next]_vars
  PROVE  IntakeInv'
  <1> USE DEF vars, reader
  <1>1. FilesInv' /\ EventsSound' /\ CaptureSound'
    BY FilesStep, EventsStep, CaptureStep DEF IntakeInv
  <1>2. CASE Join
    BY <1>1, <1>2, JoinWhole, JoinIsCausal DEF IntakeInv
  <1>3. CASE UNCHANGED vars
    <2>1. source' = source /\ events'.conn = events.conn /\ events' = events
      BY <1>3
    <2>2. HealthyIsWhole'
      BY <1>3, <2>1, ConnectionsKept, SourceKept DEF IntakeInv, HealthyIsWhole
    <2>3. JoinCausal'
      <3>1. /\ \A i : OfConnection(i)' = OfConnection(i)
            /\ \A print : Printed(print)' <=> Printed(print)
        BY <2>1, ConnectionsKept
      <3>2. \A s : Causal(s)' <=> Causal(s)
        BY <2>1, <3>1 DEF Causal
      <3>3. JoinCausal <=> (outcome = "prepared" /\ source.packets # None => \A s \in Range(events.tls) : Causal(s))
        BY DEF JoinCausal, Causal, Printed
      <3>4. JoinCausal' <=> (outcome' = "prepared" /\ source'.packets # None => \A s \in Range(events'.tls) : Causal(s)')
        BY DEF JoinCausal, Causal, Printed
      <3> QED BY <1>3, <2>1, <3>2, <3>3, <3>4 DEF IntakeInv
    <2> QED BY <1>1, <2>2, <2>3 DEF IntakeInv
  <1>4. CASE outcome' # "prepared"
    BY <1>1, <1>4 DEF IntakeInv, HealthyIsWhole, JoinCausal
  <1>5. CASE Absent
    <2>1. outcome' # "prepared" \/ (source'.packets = None /\ total'.status # "healthy")
      <3>1. source \in Sources /\ source' = source
        BY <1>5 DEF IntakeInv, FilesInv, Absent
      <3>2. CASE source.how = "log"
        <4>1. source.packets = None
          BY <3>1, <3>2, SourceFacts
        <4>2. "status" \in DOMAIN total
          BY <1>5 DEF IntakeInv, FilesInv, TotalSound, Live, Absent, NoQuality
        <4>3. total' = [total EXCEPT !.status = "unavailable"]
          BY <1>5, <3>2 DEF Absent
        <4> QED BY <3>1, <4>1, <4>2, <4>3
      <3>3. CASE source.how # "log"
        BY <1>5, <3>3 DEF Absent
      <3> QED BY <3>2, <3>3
    <2> QED BY <1>1, <2>1 DEF IntakeInv, HealthyIsWhole, JoinCausal
  <1>6. CASE Finish
    <2>1. /\ source \in Sources /\ source' = source /\ part > Len(source.files) /\ total' = total /\ part \in Nat
          /\ (total.status = "healthy" => \A n \in DOMAIN source.files : n < part => WholeFile(n))
          /\ (outcome' = "prepared" => source.packets = None)
      BY <1>6 DEF IntakeInv, FilesInv, TotalSound, Live, Finish
    <2>2. \A n \in DOMAIN source.files : n < part
      BY <2>1, SourceFacts
    <2>3. HealthyIsWhole'
      <3> SUFFICES ASSUME outcome' = "prepared", total'.status = "healthy" PROVE HealthyIsWhole'
        BY DEF HealthyIsWhole
      <3>1. \A n \in DOMAIN source'.files : WholeFile(n)'
        BY <2>1, <2>2, SourceKept
      <3>2. source'.packets = None
        BY <2>1
      <3> QED BY <3>1, <3>2 DEF HealthyIsWhole, WholeFile
    <2>4. JoinCausal'
      BY <2>1 DEF JoinCausal
    <2> QED BY <1>1, <2>3, <2>4 DEF IntakeInv
  <1>7. CASE Convert \/ Refuse \/ Reject \/ Abort \/ Accept \/ Close \/ BreakOff \/ ReadPacket
    <2>1. outcome' # "prepared"
      BY <1>7 DEF Convert, Refuse, Reject, Abort, Accept, Close, BreakOff, ReadPacket,
                  MoreRecords, MorePackets, Reading
    <2> QED BY <1>4, <2>1
  <1> QED BY <1>2, <1>3, <1>5, <1>6, <1>7 DEF Next

LEMMA IntakeInit == Init => IntakeInv
  <1> SUFFICES ASSUME Init PROVE IntakeInv
    OBVIOUS
  <1>1. outcome \in {"converting", "reading"} /\ capture = NoCapture
        /\ events = [conn |-> <<>>, dns |-> <<>>, tls |-> <<>>]
    BY DEF Init
  <1>2. EventsSound
    BY <1>1, EmptyIsSeq DEF EventsSound
  <1>3. CaptureSound
    BY <1>1 DEF CaptureSound
  <1> QED BY <1>1, <1>2, <1>3, FilesInit DEF IntakeInv, HealthyIsWhole, JoinCausal

-----------------------------------------------------------------------------
(* The counters a replay keeps are the truth about the records read so     *)
(* far, and a replay reported healthy lost nothing of its records or its   *)
(* packets (passive_replay.py, replay_service.py, telemetry_quality.py,    *)
(* capture_join.py).                                                       *)
THEOREM QualityIsTrue == Spec => []QualityTruthful
  <1>1. IntakeInv => QualityTruthful
    BY FilesAccount DEF IntakeInv, QualityTruthful
  <1> QED BY <1>1, IntakeInit, IntakeStep, PTL DEF Spec

(* A session joined to a connection of its own identity has the most       *)
(* recent of that connection's packets, is dated after all of them and     *)
(* after its hellos, and never has a fingerprint of the capture when the   *)
(* client gave two (pcap_metadata.py, capture_join.py).                    *)
THEOREM JoinsAreCausal == Spec => []JoinCausal
  <1>1. IntakeInv => JoinCausal
    BY DEF IntakeInv
  <1> QED BY <1>1, IntakeInit, IntakeStep, PTL DEF Spec

-----------------------------------------------------------------------------
(* Sums.  The recursion of SumFunction is opened once: partial sums of the *)
(* sets of at most n elements exist for every n.                           *)
Pick(s) == CHOOSE x \in s : TRUE
UpTo(S, n) == {s \in SUBSET S : Cardinality(s) <= n}
IsSum(f, sum, S, n) ==
  sum = [s \in UpTo(S, n) |-> IF s = {} THEN 0 ELSE f[Pick(s)] + sum[s \ {Pick(s)}]]

LEMMA Picked ==
  ASSUME NEW S, IsFiniteSet(S), NEW n \in Nat, NEW s \in UpTo(S, n + 1), s # {}
  PROVE  Pick(s) \in s /\ s \ {Pick(s)} \in UpTo(S, n)
  <1>1. Pick(s) \in s /\ IsFiniteSet(s)
    BY FS_Subset DEF Pick, UpTo
  <1>2. Cardinality(s) \in Nat /\ Cardinality(s \ {Pick(s)}) = Cardinality(s) - 1
    BY <1>1, FS_CardinalityType, FS_RemoveElement
  <1> QED BY <1>1, <1>2 DEF UpTo

LEMMA SumExists ==
  ASSUME NEW f, NEW S, IsFiniteSet(S), NEW n \in Nat
  PROVE  \E sum : IsSum(f, sum, S, n)
  <1> DEFINE T == {k \in Nat : ~ \E sum : IsSum(f, sum, S, k)}
  <1>1. SUFFICES ASSUME T # {} PROVE FALSE
    OBVIOUS
  <1>2. PICK k \in T : \A y \in T : k <= y
    <2>1. T \subseteq Nat
      OBVIOUS
    <2> HIDE DEF T
    <2> QED BY <1>1, <2>1, LeastNat
  <1>3. k # 0
    <2>1. UpTo(S, 0) = {{}}
      <3>1. ASSUME NEW s \in SUBSET S PROVE Cardinality(s) <= 0 <=> s = {}
        BY FS_Subset, FS_CardinalityType, FS_EmptySet
      <3> QED BY <3>1 DEF UpTo
    <2>2. IsSum(f, [s \in {{}} |-> 0], S, 0)
      BY <2>1 DEF IsSum
    <2> QED BY <2>2, <1>2
  <1>4. k - 1 \in Nat /\ k - 1 \notin T /\ (k - 1) + 1 = k
    BY <1>2, <1>3
  <1>5. PICK sum : IsSum(f, sum, S, k - 1)
    BY <1>4
  <1> DEFINE m == k - 1
             more == [s \in UpTo(S, k) |-> IF s = {} THEN 0 ELSE f[Pick(s)] + sum[s \ {Pick(s)}]]
  <1>6. ASSUME NEW s \in UpTo(S, k), s # {}
        PROVE  more[s \ {Pick(s)}] = sum[s \ {Pick(s)}]
    <2>1. s \ {Pick(s)} \in UpTo(S, k - 1)
      BY <1>4, <1>6, Picked
    <2>2. s \ {Pick(s)} \in UpTo(S, k)
      <3>1. ASSUME NEW t \in UpTo(S, k - 1) PROVE t \in UpTo(S, k)
        <4>1. Cardinality(t) \in Nat
          BY FS_Subset, FS_CardinalityType DEF UpTo
        <4> QED BY <1>2, <4>1 DEF UpTo
      <3> QED BY <2>1, <3>1
    <2> DEFINE t == s \ {Pick(s)}
    <2>3. sum[t] = IF t = {} THEN 0 ELSE f[Pick(t)] + sum[t \ {Pick(t)}]
      <3> HIDE DEF t
      <3> QED BY <1>5, <2>1 DEF IsSum, t
    <2>4. more[t] = IF t = {} THEN 0 ELSE f[Pick(t)] + sum[t \ {Pick(t)}]
      <3> HIDE DEF t
      <3> QED BY <2>2 DEF t
    <2> QED BY <2>3, <2>4
  <1>7. more = [s \in UpTo(S, k) |-> IF s = {} THEN 0 ELSE f[Pick(s)] + more[s \ {Pick(s)}]]
    BY <1>6
  <1>8. IsSum(f, more, S, k)
    <2> HIDE DEF more
    <2> QED BY <1>7 DEF IsSum
  <1> QED BY <1>2, <1>8

(* What is known of a sum.                                                 *)
LEMMA SumIsRun ==
  ASSUME NEW f, IsFiniteSet(DOMAIN f)
  PROVE  \E sum : /\ sum[{}] = 0
                  /\ \A s \in SUBSET DOMAIN f : s # {} => sum[s] = f[Pick(s)] + sum[s \ {Pick(s)}]
                  /\ SumFunction(f) = sum[DOMAIN f]
  <1> DEFINE S == DOMAIN f
             n == Cardinality(S)
             sum == CHOOSE g : g = [s \in SUBSET S |-> IF s = {} THEN 0 ELSE f[Pick(s)] + g[s \ {Pick(s)}]]
  <1>1. UpTo(S, n) = SUBSET S
    BY FS_Subset, FS_CardinalityType DEF UpTo
  <1>2. \E g : g = [s \in SUBSET S |-> IF s = {} THEN 0 ELSE f[Pick(s)] + g[s \ {Pick(s)}]]
    <2>1. n \in Nat
      BY FS_CardinalityType
    <2>2. \E g : IsSum(f, g, S, n)
      BY <2>1, SumExists
    <2> QED BY <1>1, <2>2 DEF IsSum
  <1>3. sum = [s \in SUBSET S |-> IF s = {} THEN 0 ELSE f[Pick(s)] + sum[s \ {Pick(s)}]]
    BY <1>2
  <1>4. SumFunction(f) = sum[S]
    BY DEF SumFunction, SumFunctionOnSet, FoldFunctionOnSet, MapThenFoldSet, Pick
  <1> HIDE DEF sum
  <1>5. sum[{}] = 0
    BY <1>3
  <1> QED BY <1>3, <1>4, <1>5

(* A sum of sums is the sum of the parts.                                  *)
LEMMA SumAdds ==
  ASSUME NEW S, IsFiniteSet(S), NEW f \in [S -> Int], NEW g \in [S -> Int], NEW h \in [S -> Int],
         \A x \in S : f[x] = g[x] + h[x]
  PROVE  SumFunction(f) = SumFunction(g) + SumFunction(h)
  <1>1. PICK sf : /\ sf[{}] = 0
                  /\ \A s \in SUBSET S : s # {} => sf[s] = f[Pick(s)] + sf[s \ {Pick(s)}]
                  /\ SumFunction(f) = sf[S]
    <2>1. DOMAIN f = S
      OBVIOUS
    <2> QED BY <2>1, SumIsRun
  <1>2. PICK sg : /\ sg[{}] = 0
                  /\ \A s \in SUBSET S : s # {} => sg[s] = g[Pick(s)] + sg[s \ {Pick(s)}]
                  /\ SumFunction(g) = sg[S]
    <2>1. DOMAIN g = S
      OBVIOUS
    <2> QED BY <2>1, SumIsRun
  <1>3. PICK sh : /\ sh[{}] = 0
                  /\ \A s \in SUBSET S : s # {} => sh[s] = h[Pick(s)] + sh[s \ {Pick(s)}]
                  /\ SumFunction(h) = sh[S]
    <2>1. DOMAIN h = S
      OBVIOUS
    <2> QED BY <2>1, SumIsRun
  <1> DEFINE Good(s) == sg[s] \in Int /\ sh[s] \in Int /\ sf[s] = sg[s] + sh[s]
             T == {k \in Nat : \E s \in SUBSET S : Cardinality(s) = k /\ ~Good(s)}
  <1>4. T = {}
    <2> SUFFICES ASSUME T # {} PROVE FALSE
      OBVIOUS
    <2>1. PICK k \in T : \A y \in T : k <= y
      <3>1. T \subseteq Nat
        OBVIOUS
      <3> HIDE DEF T
      <3> QED BY <3>1, LeastNat
    <2>2. PICK s \in SUBSET S : Cardinality(s) = k /\ ~Good(s)
      BY <2>1
    <2>3. s # {}
      <3>1. Good({})
        BY <1>1, <1>2, <1>3
      <3> HIDE DEF Good
      <3> QED BY <2>2, <3>1
    <2> DEFINE x == Pick(s)
               t == s \ {x}
    <2>4. x \in s /\ x \in S
      BY <2>3 DEF Pick
    <2>5. t \in SUBSET S /\ Cardinality(t) \in Nat /\ Cardinality(t) = k - 1 /\ k \in Nat
      BY <2>1, <2>2, <2>4, FS_Subset, FS_CardinalityType, FS_RemoveElement
    <2> HIDE DEF T
    <2>6. Good(t)
      <3>1. Cardinality(t) \notin T
        BY <2>1, <2>5
      <3> HIDE DEF t, Good
      <3> QED BY <2>5, <3>1 DEF T
    <2>7. f[x] = g[x] + h[x] /\ g[x] \in Int /\ h[x] \in Int
      BY <2>4
    <2>8. sf[s] = f[x] + sf[t] /\ sg[s] = g[x] + sg[t] /\ sh[s] = h[x] + sh[t]
      BY <1>1, <1>2, <1>3, <2>2, <2>3
    <2> HIDE DEF x, t
    <2>9. Good(s)
      BY <2>6, <2>7, <2>8
    <2> QED BY <2>2, <2>9
  <1>5. Cardinality(S) \in Nat /\ S \in SUBSET S
    BY FS_CardinalityType
  <1>6. Good(S)
    BY <1>4, <1>5
  <1> QED BY <1>1, <1>2, <1>3, <1>6

-----------------------------------------------------------------------------
(* One artifact, whose units are the ones its records' labels form.        *)

Measurable(a, alerts) ==
  /\ ArtifactValid(a) /\ a.units = ScenarioUnits(a.records)
  /\ IsFiniteSet(a.records) /\ IsFiniteSet(a.units) /\ IsFiniteSet(alerts)
  /\ \A alert \in alerts : alert.flows \subseteq Uids(Accepted(a))
Reached(a) == {u \in a.units : u.flows \cap Uids(Accepted(a)) # {}}
Restriction(a, u) == Unit(u.flows \cap Uids(Accepted(a)), u.label, u.expected)
(* What is left of units where only accepted records are seen.             *)
Remaining(a, X) == {Restriction(a, u) : u \in X \cap Reached(a)}

LEMMA OneRecord ==
  ASSUME NEW a, ArtifactValid(a), IsFiniteSet(a.records), NEW r \in a.records, NEW s \in a.records, r.uid = s.uid
  PROVE  r = s
  <1> DEFINE R == a.records
             U == Uids(R)
             f == [t \in R |-> t.uid]
  <1>1. f \in Surjection(R, U)
    BY DEF Surjection, Uids
  <1>2. Cardinality(U) = Cardinality(R)
    BY DEF ArtifactValid
  <1>3. f \in Injection(R, U)
    <2>1. IsFiniteSet(R)
      OBVIOUS
    <2> HIDE DEF R, U, f
    <2> QED BY <1>1, <1>2, <2>1, FS_SurjSameCardinalityImpliesInj
  <1>4. f[r] = f[s] /\ r \in R /\ s \in R
    OBVIOUS
  <1> HIDE DEF R, U, f
  <1> QED BY <1>3, <1>4 DEF Injection, IsInjective

(* The key of a unit's records says its label and its class.               *)
LEMMA KeySays ==
  ASSUME NEW r, NEW s, UnitKey(r) = UnitKey(s)
  PROVE  r.label = s.label /\ r.class = s.class
  <1>1. \A t : UnitKey(t)[1] = t.label /\ UnitKey(t)[2] = t.class
    BY DEF UnitKey
  <1> QED BY <1>1

Sharing(records, r) == {t.uid : t \in {s \in LabelledRecords(records) : UnitKey(s) = UnitKey(r)}}
UnitOf(records, r) == Unit(Sharing(records, r), r.label, IF r.label = "attack" THEN {r.class} ELSE {})
LEMMA UnitsOf == \A records : ScenarioUnits(records) = {UnitOf(records, r) : r \in LabelledRecords(records)}
  BY DEF ScenarioUnits, UnitOf, Sharing

LEMMA SharingAccepted ==
  ASSUME NEW a, ArtifactValid(a), IsFiniteSet(a.records), NEW r
  PROVE  Sharing(Accepted(a), r) = Sharing(a.records, r) \cap Uids(Accepted(a))
  <1>1. ASSUME NEW x \in Sharing(Accepted(a), r)
        PROVE  x \in Sharing(a.records, r) \cap Uids(Accepted(a))
    BY <1>1 DEF Sharing, Uids, Accepted, LabelledRecords
  <1>2. ASSUME NEW x \in Sharing(a.records, r) \cap Uids(Accepted(a))
        PROVE  x \in Sharing(Accepted(a), r)
    <2>1. PICK t \in LabelledRecords(a.records) : UnitKey(t) = UnitKey(r) /\ x = t.uid
      BY <1>2 DEF Sharing
    <2>2. PICK s \in Accepted(a) : x = s.uid
      BY <1>2 DEF Uids
    <2>3. t = s
      BY <2>1, <2>2, OneRecord DEF Accepted, LabelledRecords
    <2> QED BY <2>1, <2>2, <2>3 DEF Sharing, Accepted, LabelledRecords
  <1> QED BY <1>1, <1>2

(* The units of the accepted records are what is left of the artifact's.   *)
LEMMA LiveUnits ==
  ASSUME NEW a, NEW alerts, Measurable(a, alerts)
  PROVE  ScenarioUnits(Accepted(a)) = Remaining(a, a.units)
  <1>0. ArtifactValid(a) /\ IsFiniteSet(a.records) /\ a.units = {UnitOf(a.records, r) : r \in LabelledRecords(a.records)}
    BY UnitsOf DEF Measurable
  <1>1. ASSUME NEW r
        PROVE  UnitOf(Accepted(a), r) = Restriction(a, UnitOf(a.records, r))
    BY <1>0, SharingAccepted DEF UnitOf, Restriction, Unit
  <1>2. ASSUME NEW r \in LabelledRecords(Accepted(a))
        PROVE  UnitOf(Accepted(a), r) \in Remaining(a, a.units)
    <2>1. r \in LabelledRecords(a.records) /\ r \in Accepted(a)
      BY DEF LabelledRecords, Accepted
    <2>2. r.uid \in Sharing(a.records, r) /\ r.uid \in Uids(Accepted(a))
      BY <2>1 DEF Sharing, Uids
    <2>3. UnitOf(a.records, r) \in Reached(a)
      BY <1>0, <2>1, <2>2 DEF Reached, UnitOf, Unit
    <2> QED BY <1>1, <2>3 DEF Remaining, Reached
  <1>3. ASSUME NEW u \in Reached(a)
        PROVE  \E r \in LabelledRecords(Accepted(a)) : Restriction(a, u) = UnitOf(Accepted(a), r)
    <2>1. PICK r \in LabelledRecords(a.records) : u = UnitOf(a.records, r)
      BY <1>0 DEF Reached
    <2>2. PICK x : x \in Sharing(a.records, r) /\ x \in Uids(Accepted(a))
      BY <2>1 DEF Reached, UnitOf, Unit
    <2>3. PICK t \in LabelledRecords(a.records) : UnitKey(t) = UnitKey(r) /\ x = t.uid
      BY <2>2 DEF Sharing
    <2>4. PICK s \in Accepted(a) : x = s.uid
      BY <2>2 DEF Uids
    <2>5. t = s
      BY <1>0, <2>3, <2>4, OneRecord DEF Accepted, LabelledRecords
    <2>6. t \in LabelledRecords(Accepted(a))
      BY <2>3, <2>4, <2>5 DEF LabelledRecords
    <2>7. t.label = r.label /\ t.class = r.class
      BY <2>3, KeySays
    <2>8. Sharing(a.records, t) = Sharing(a.records, r)
      BY <2>3 DEF Sharing
    <2>9. UnitOf(a.records, t) = u
      BY <2>1, <2>7, <2>8 DEF UnitOf
    <2> QED BY <1>1, <2>6, <2>9
  <1>4. Remaining(a, a.units) = {Restriction(a, u) : u \in Reached(a)}
    BY DEF Remaining, Reached
  <1> QED BY <1>2, <1>3, <1>4, UnitsOf

(* Of units that are reached no two become one.                            *)
LEMMA LiveCounts ==
  ASSUME NEW a, NEW alerts, Measurable(a, alerts), NEW X \in SUBSET a.units
  PROVE  /\ IsFiniteSet(Remaining(a, X)) /\ IsFiniteSet(X \cap Reached(a))
         /\ Cardinality(Remaining(a, X)) = Cardinality(X \cap Reached(a))
         /\ Cardinality(Remaining(a, X)) \in Nat
  <1> DEFINE Y == X \cap Reached(a)
             f == [u \in Y |-> Restriction(a, u)]
             Z == Remaining(a, X)
  <1>1. IsFiniteSet(Y)
    BY FS_Subset DEF Measurable
  <1>2. ASSUME NEW u \in Y, NEW v \in Y, f[u] = f[v]
        PROVE  u = v
    <2>1. u.flows \cap Uids(Accepted(a)) = v.flows \cap Uids(Accepted(a))
      BY <1>2 DEF Restriction, Unit
    <2>2. u.flows \cap v.flows # {}
      BY <2>1 DEF Reached
    <2>3. u \in a.units /\ v \in a.units /\ UnitsValid(a.units, Uids(a.records))
      BY DEF Measurable, ArtifactValid
    <2> QED BY <2>2, <2>3 DEF UnitsValid
  <1>3. f \in Bijection(Y, Z)
    <2>1. f \in Surjection(Y, Z)
      BY DEF Surjection, Remaining
    <2>2. f \in Injection(Y, Z)
      <3>1. f \in [Y -> Z]
        BY <2>1 DEF Surjection
      <3> HIDE DEF f, Y, Z
      <3> QED BY <1>2, <3>1 DEF Injection, IsInjective
    <2> QED BY <2>1, <2>2 DEF Bijection
  <1> HIDE DEF Y, Z, f
  <1>4. ExistsBijection(Y, Z)
    BY <1>3 DEF ExistsBijection
  <1>5. IsFiniteSet(Z) /\ Cardinality(Z) = Cardinality(Y)
    BY <1>1, <1>4, FS_Bijection
  <1>6. Cardinality(Z) \in Nat
    BY <1>5, FS_CardinalityType
  <1> QED BY <1>1, <1>5, <1>6 DEF Y, Z

(* What is left of a difference.                                           *)
LEMMA LiveParts ==
  ASSUME NEW a, NEW alerts, Measurable(a, alerts)
  PROVE  \A X, Y \in SUBSET a.units : Remaining(a, X) \ Remaining(a, Y) = Remaining(a, X \ Y)
  <1>1. ASSUME NEW u \in Reached(a), NEW v \in Reached(a), Restriction(a, u) = Restriction(a, v)
        PROVE  u = v
    <2>1. u.flows \cap Uids(Accepted(a)) = v.flows \cap Uids(Accepted(a))
      BY <1>1 DEF Restriction, Unit
    <2>2. u.flows \cap v.flows # {}
      BY <2>1 DEF Reached
    <2>3. u \in a.units /\ v \in a.units /\ UnitsValid(a.units, Uids(a.records))
      BY DEF Measurable, ArtifactValid, Reached
    <2> QED BY <2>2, <2>3 DEF UnitsValid
  <1> QED BY <1>1 DEF Remaining

(* An alert is over accepted flows: the accepted part of a unit meets the  *)
(* alerts the unit meets.                                                  *)
LEMMA MeetsAlike ==
  ASSUME NEW a, NEW alerts, Measurable(a, alerts), NEW u \in a.units
  PROVE  /\ Overlapping(Restriction(a, u), alerts) = Overlapping(u, alerts)
         /\ Matching(Restriction(a, u), alerts) = Matching(u, alerts)
         /\ Overlapping(u, alerts) # {} => u \in Reached(a)
  <1>1. ASSUME NEW alert \in alerts
        PROVE  alert.flows \cap (u.flows \cap Uids(Accepted(a))) = alert.flows \cap u.flows
    BY DEF Measurable
  <1>2. Overlapping(Restriction(a, u), alerts) = Overlapping(u, alerts)
    BY <1>1 DEF Overlapping, Restriction, Unit
  <1>3. AcceptableSubtypes(Restriction(a, u)) = AcceptableSubtypes(u)
    BY DEF AcceptableSubtypes, Restriction, Unit
  <1>4. Overlapping(u, alerts) # {} => u \in Reached(a)
    BY <1>1 DEF Overlapping, Reached
  <1> QED BY <1>2, <1>3, <1>4 DEF Matching

LEMMA Known ==
  /\ DOMAIN ExpectedSubtypes \subseteq Classes /\ "any_attack" \in Classes
  /\ "any_attack" \notin DOMAIN ExpectedSubtypes
  /\ \A c \in DOMAIN ExpectedSubtypes : ClassSubtypes[c] = ExpectedSubtypes[c]
  <1>1. "any_attack" \notin DOMAIN ExpectedSubtypes
    BY DEF ExpectedSubtypes
  <1> DEFINE E == ExpectedSubtypes
  <1> HIDE DEF E
  <1>2. ClassSubtypes = [c \in DOMAIN E \cup {"volumetric_ddos_udp_flood", "any_attack"} |->
                           CASE c \in DOMAIN E -> E[c]
                             [] c = "volumetric_ddos_udp_flood" -> {"udp_flood"} [] c = "any_attack" -> {}]
    BY DEF ClassSubtypes, E
  <1>3. Classes = DOMAIN E \cup {"volumetric_ddos_udp_flood", "any_attack"}
    BY <1>2 DEF Classes
  <1>4. ASSUME NEW c \in DOMAIN E PROVE ClassSubtypes[c] = E[c]
    <2>1. "any_attack" \notin DOMAIN E /\ "volumetric_ddos_udp_flood" \notin DOMAIN E
      BY DEF E, ExpectedSubtypes
    <2> QED BY <1>2, <2>1
  <1> QED BY <1>1, <1>3, <1>4 DEF E

(* What the benchmark observes of a unit.                                  *)
LEMMA ObservedIs ==
  ASSUME NEW u, NEW alerts
  PROVE  /\ Observed(u, alerts) # {} <=> Overlapping(u, alerts) # {}
         /\ "any_attack" \in Observed(u, alerts) <=> Overlapping(u, alerts) # {}
         /\ \A c \in DOMAIN ExpectedSubtypes :
              c \in Observed(u, alerts) <=> \E b \in Overlapping(u, alerts) : b.subtype \in ExpectedSubtypes[c]
  <1>1. \A b \in alerts : b \in Overlapping(u, alerts) <=> \E uid \in u.flows : uid \in b.flows
    BY DEF Overlapping
  <1>2. ASSUME NEW c
        PROVE  c \in Observed(u, alerts) <=>
                 \E b \in Overlapping(u, alerts) : c = "any_attack" \/ (c \in Classes /\ b.subtype \in ClassSubtypes[c])
    <2>1. \A uid : c \in Predictions(uid, alerts) <=>
                     \E b \in alerts : uid \in b.flows /\ (c = "any_attack" \/ (c \in Classes /\ b.subtype \in ClassSubtypes[c]))
      BY DEF Predictions
    <2>2. Overlapping(u, alerts) \subseteq alerts
      BY DEF Overlapping
    <2>3. c \in Observed(u, alerts) <=> \E uid \in u.flows : c \in Predictions(uid, alerts)
      BY DEF Observed
    <2> QED BY <1>1, <2>1, <2>2, <2>3
  <1>3. "any_attack" \in Observed(u, alerts) <=> Overlapping(u, alerts) # {}
    BY <1>2
  <1>4. Observed(u, alerts) # {} => Overlapping(u, alerts) # {}
    BY <1>2
  <1>5. ASSUME NEW c \in DOMAIN ExpectedSubtypes
        PROVE  c \in Observed(u, alerts) <=> \E b \in Overlapping(u, alerts) : b.subtype \in ExpectedSubtypes[c]
    BY <1>2, Known
  <1> QED BY <1>3, <1>4, <1>5

(* A unit expects one class or none.                                       *)
LEMMA UnitShape ==
  ASSUME NEW a, NEW alerts, Measurable(a, alerts), NEW u \in a.units
  PROVE  /\ u.label \in {"attack", "benign"}
         /\ u.label = "attack" <=> u.expected # {}
         /\ \A c \in u.expected : u.expected = {c}
         /\ \A c \in u.expected \cap DOMAIN ExpectedSubtypes :
              /\ "any_attack" \notin u.expected
              /\ c \in Observed(u, alerts) <=> Matching(u, alerts) # {}
  <1>1. PICK r \in LabelledRecords(a.records) : u = UnitOf(a.records, r)
    BY UnitsOf DEF Measurable
  <1>2. u.label = r.label /\ u.expected = IF r.label = "attack" THEN {r.class} ELSE {}
    BY <1>1 DEF UnitOf, Unit
  <1>3. u.label \in {"attack", "benign"} /\ (u.label = "attack" <=> u.expected # {}) /\ \A c \in u.expected : u.expected = {c}
    BY <1>1, <1>2 DEF LabelledRecords
  <1>4. ASSUME NEW c \in u.expected \cap DOMAIN ExpectedSubtypes
        PROVE  c \in Observed(u, alerts) <=> Matching(u, alerts) # {}
    <2>1. u.expected \cap DOMAIN ExpectedSubtypes = {c}
      BY <1>3
    <2>2. AcceptableSubtypes(u) = ExpectedSubtypes[c]
      BY <2>1 DEF AcceptableSubtypes
    <2> QED BY <2>2, ObservedIs DEF Matching
  <1> QED BY <1>3, <1>4, Known

Attacks(a) == {u \in a.units : u.label = "attack"}
Alarmed(a, alerts)  == {u \in a.units : Overlapping(u, alerts) # {}}
Detected(a, alerts) == {u \in Attacks(a) : Matching(u, alerts) # {}}
Expecting(a, c) == {u \in a.units : c \in u.expected}

TwoParts(S, T, U) == T \subseteq S /\ U \subseteq S /\ T \cap U = {} /\ S = T \cup U
LEMMA PartsAdd ==
  ASSUME NEW S, IsFiniteSet(S), NEW T, NEW U, TwoParts(S, T, U)
  PROVE  /\ Cardinality(S) = Cardinality(T) + Cardinality(U)
         /\ Cardinality(S) \in Nat /\ Cardinality(T) \in Nat /\ Cardinality(U) \in Nat
  <1>0. T \in SUBSET S /\ U \in SUBSET S /\ T \cap U = {} /\ S = T \cup U
    BY DEF TwoParts
  <1>1. IsFiniteSet(T) /\ IsFiniteSet(U)
    BY <1>0, FS_Subset
  <1>2. Cardinality(T) \in Nat /\ Cardinality(U) \in Nat /\ Cardinality(S) \in Nat
    BY <1>1, FS_CardinalityType
  <1>3. Cardinality(T \cup U) = Cardinality(T) + Cardinality(U) - Cardinality(T \cap U)
    BY <1>1, FS_Union
  <1>4. Cardinality(T \cap U) = 0
    BY <1>0, FS_EmptySet
  <1> QED BY <1>0, <1>2, <1>3, <1>4

(* The live scorer's counts, of the artifact's units that are reached.     *)
LEMMA GroundTruthIs ==
  ASSUME NEW a, NEW alerts, Measurable(a, alerts)
  PROVE  LET G == GroundTruth(Accepted(a), alerts)
             A == a.units
             At == Attacks(a)
             Al == Alarmed(a, alerts)
             De == Detected(a, alerts)
             Count(X) == Cardinality(X \cap Reached(a))
         IN  /\ G.tp = Count(De) /\ G.fn = Count(At \ De) /\ G.mismatches = Count((At \cap Al) \ De)
             /\ G.unmatched \in Nat /\ G.fp = Count((A \ At) \cap Al) + G.unmatched
             /\ G.tn = Count((A \ At) \ Al)
             /\ \A c \in DOMAIN ExpectedSubtypes :
                  G.class[c].tp = Count(De \cap Expecting(a, c)) /\ G.class[c].fn = Count((At \ De) \cap Expecting(a, c))
  <1> DEFINE A == a.units
             At == Attacks(a)
             Al == Alarmed(a, alerts)
             De == Detected(a, alerts)
             formed == ScenarioUnits(Accepted(a))
             attacks == {u \in formed : u.label = "attack"}
             benign == formed \ attacks
             alarmed(units) == {u \in units : Overlapping(u, alerts) # {}}
             detected == {u \in attacks : Matching(u, alerts) # {}}
             unmatched == alerts \ UNION {Overlapping(u, alerts) : u \in attacks \cup benign}
             G == GroundTruth(Accepted(a), alerts)
  <1>1. formed = Remaining(a, A)
    BY LiveUnits
  <1>2. \A u : Restriction(a, u).label = u.label /\ Restriction(a, u).expected = u.expected
    BY DEF Restriction, Unit
  <1>3. \A u \in A : /\ Overlapping(Restriction(a, u), alerts) = Overlapping(u, alerts)
                     /\ Matching(Restriction(a, u), alerts) = Matching(u, alerts)
    BY MeetsAlike
  <1> HIDE DEF formed
  <1>4. attacks = Remaining(a, At)
    BY <1>1, <1>2 DEF Remaining, Attacks
  <1>5. benign = Remaining(a, A \ At)
    <2>1. Remaining(a, A) \ Remaining(a, At) = Remaining(a, A \ At)
      <3>1. A \in SUBSET A /\ At \in SUBSET A
        BY DEF Attacks
      <3> HIDE DEF At
      <3> QED BY <3>1, LiveParts
    <2> HIDE DEF attacks, A, At
    <2> QED BY <1>1, <1>4, <2>1
  <1>6. \A X \in SUBSET A : alarmed(Remaining(a, X)) = Remaining(a, X \cap Al)
    BY <1>3 DEF Remaining, Alarmed
  <1>7. detected = Remaining(a, De)
    <2> HIDE DEF attacks
    <2> QED BY <1>3, <1>4 DEF Remaining, Detected, Attacks
  <1>8. \A c : \A X \in SUBSET A : {u \in Remaining(a, X) : c \in u.expected} = Remaining(a, X \cap Expecting(a, c))
    BY <1>2 DEF Remaining, Expecting
  <1>9. At \in SUBSET A /\ De \in SUBSET A
    BY DEF Attacks, Detected
  <1>10. /\ G.tp = Cardinality(detected) /\ G.fn = Cardinality(attacks \ detected)
         /\ G.fp = Cardinality(alarmed(benign)) + Cardinality(unmatched)
         /\ G.tn = Cardinality(benign \ alarmed(benign))
         /\ G.mismatches = Cardinality(alarmed(attacks) \ detected) /\ G.unmatched = Cardinality(unmatched)
         /\ \A c \in DOMAIN ExpectedSubtypes :
              /\ G.class[c].tp = Cardinality({u \in detected : c \in u.expected})
              /\ G.class[c].fn = Cardinality({u \in attacks \ detected : c \in u.expected})
    BY DEF GroundTruth, formed
  <1>11. Cardinality(unmatched) \in Nat
    <2>1. IsFiniteSet(alerts) /\ unmatched \in SUBSET alerts
      BY DEF Measurable
    <2> HIDE DEF unmatched
    <2> QED BY <2>1, FS_Subset, FS_CardinalityType
  <1> HIDE DEF A, At, Al, De, attacks, benign, detected, unmatched, G, alarmed
  <1>12. \A X, Y \in SUBSET A : Remaining(a, X) \ Remaining(a, Y) = Remaining(a, X \ Y)
    BY LiveParts DEF A
  <1>13. \A X \in SUBSET A : Cardinality(Remaining(a, X)) = Cardinality(X \cap Reached(a))
    BY LiveCounts DEF A
  <1>14. attacks \ detected = Remaining(a, At \ De) /\ alarmed(attacks) = Remaining(a, At \cap Al) /\ alarmed(benign) = Remaining(a, (A \ At) \cap Al)
    BY <1>4, <1>5, <1>6, <1>7, <1>9, <1>12
  <1>15. alarmed(attacks) \ detected = Remaining(a, (At \cap Al) \ De)
    BY <1>7, <1>9, <1>12, <1>14
  <1>16. benign \ alarmed(benign) = Remaining(a, (A \ At) \ Al)
    <2>1. (A \ At) \ ((A \ At) \cap Al) = (A \ At) \ Al
      OBVIOUS
    <2>2. Remaining(a, A \ At) \ Remaining(a, (A \ At) \cap Al) = Remaining(a, (A \ At) \ ((A \ At) \cap Al))
      BY <1>12
    <2> QED BY <1>5, <1>14, <2>1, <2>2
  <1>17. /\ G.tp = Cardinality(De \cap Reached(a)) /\ G.fn = Cardinality((At \ De) \cap Reached(a))
         /\ G.mismatches = Cardinality(((At \cap Al) \ De) \cap Reached(a))
    BY <1>7, <1>9, <1>10, <1>13, <1>14, <1>15
  <1>18. G.fp = Cardinality(((A \ At) \cap Al) \cap Reached(a)) + G.unmatched /\ G.unmatched \in Nat
    BY <1>10, <1>11, <1>13, <1>14
  <1>19. G.tn = Cardinality(((A \ At) \ Al) \cap Reached(a))
    BY <1>10, <1>13, <1>16
  <1>20. ASSUME NEW c \in DOMAIN ExpectedSubtypes
         PROVE  /\ G.class[c].tp = Cardinality((De \cap Expecting(a, c)) \cap Reached(a))
                /\ G.class[c].fn = Cardinality(((At \ De) \cap Expecting(a, c)) \cap Reached(a))
    <2>1. /\ {u \in detected : c \in u.expected} = Remaining(a, De \cap Expecting(a, c))
          /\ {u \in attacks \ detected : c \in u.expected} = Remaining(a, (At \ De) \cap Expecting(a, c))
      BY <1>7, <1>8, <1>9, <1>14
    <2>2. De \cap Expecting(a, c) \in SUBSET A /\ (At \ De) \cap Expecting(a, c) \in SUBSET A
      BY <1>9
    <2> QED BY <1>10, <1>13, <2>1, <2>2
  <1> QED BY <1>17, <1>18, <1>19, <1>20 DEF A, At, Al, De, G

(* The benchmark's counts, of the artifact's units.                        *)
LEMMA ScoreIs ==
  ASSUME NEW a, NEW alerts, Measurable(a, alerts)
  PROVE  LET S == ScoreUnits(Completed(a.units, Uids(a.records)), alerts)
             A == a.units
             At == Attacks(a)
             Al == Alarmed(a, alerts)
             De == Detected(a, alerts)
         IN  /\ S.binary = [o \in Outcomes |->
                              CASE o = "tp" -> Cardinality(At \cap Al) [] o = "fn" -> Cardinality(At \ Al)
                                [] o = "fp" -> Cardinality((A \ At) \cap Al) [] o = "tn" -> Cardinality((A \ At) \ Al)]
             /\ S.class["any_attack"] = S.binary
             /\ \A c \in DOMAIN ExpectedSubtypes :
                  /\ S.class[c].tp = Cardinality(De \cap Expecting(a, c))
                  /\ S.class[c].fn = Cardinality((At \ De) \cap Expecting(a, c))
  <1> DEFINE A == a.units
             At == Attacks(a)
             Al == Alarmed(a, alerts)
             De == Detected(a, alerts)
             units == Completed(A, Uids(a.records))
             S == ScoreUnits(units, alerts)
  <1>1. {u \in units : u.label # "unknown"} = A
    <2>1. \A u \in A : u.label # "unknown"
      BY UnitShape
    <2>2. \A x : Unit({x}, "unknown", {}).label = "unknown"
      BY DEF Unit
    <2> QED BY <2>1, <2>2 DEF Completed
  <1> HIDE DEF units
  <1>2. \A u \in A : /\ Observed(u, alerts) # {} <=> u \in Al
                     /\ "any_attack" \in Observed(u, alerts) <=> u \in Al
                     /\ u.label = "attack" <=> u \in At
    BY ObservedIs DEF Alarmed, Attacks
  <1>3. ASSUME NEW c \in DOMAIN ExpectedSubtypes, NEW u \in A, c \in u.expected
        PROVE  "any_attack" \notin u.expected /\ u \in At /\ (c \in Observed(u, alerts) <=> u \in De)
    BY <1>3, UnitShape DEF Detected, Attacks
  <1>4. At \subseteq A /\ Al \subseteq A /\ De \subseteq At
    BY DEF Attacks, Alarmed, Detected
  <1>5. S.binary = Tally(A, LAMBDA u : Told(u.label = "attack", Observed(u, alerts) # {}))
    BY <1>1 DEF ScoreUnits
  <1>6. /\ S.class["any_attack"] = Tally(A, LAMBDA u : Told(u.label = "attack", "any_attack" \in Observed(u, alerts)))
        /\ \A c \in DOMAIN ExpectedSubtypes :
             S.class[c] = Tally({u \in A : "any_attack" \notin u.expected},
                                LAMBDA u : Told(c \in u.expected, c \in Observed(u, alerts)))
    BY <1>1, Known DEF ScoreUnits
  <1> HIDE DEF A, At, Al, De, S
  <1>7. \A p, q \in BOOLEAN : /\ (Told(p, q) = "tp") <=> (p /\ q)
                              /\ (Told(p, q) = "fn") <=> (p /\ ~q)
                              /\ (Told(p, q) = "fp") <=> (~p /\ q)
                              /\ (Told(p, q) = "tn") <=> (~p /\ ~q)
    BY DEF Told
  <1>8. ASSUME NEW c \in DOMAIN ExpectedSubtypes
        PROVE  S.class[c].tp = Cardinality(De \cap Expecting(a, c)) /\ S.class[c].fn = Cardinality((At \ De) \cap Expecting(a, c))
    <2> DEFINE K == {u \in A : "any_attack" \notin u.expected}
               Is(u) == Told(c \in u.expected, c \in Observed(u, alerts))
    <2>1. ASSUME NEW u \in A
          PROVE  /\ (u \in K /\ Is(u) = "tp") <=> (u \in De /\ c \in u.expected)
                 /\ (u \in K /\ Is(u) = "fn") <=> (u \in At \ De /\ c \in u.expected)
      <3>1. CASE c \in u.expected
        <4>1. u \in K /\ u \in At /\ (c \in Observed(u, alerts) <=> u \in De)
          BY <1>3, <3>1
        <4>2. Is(u) = IF c \in Observed(u, alerts) THEN "tp" ELSE "fn"
          BY <3>1 DEF Told
        <4> QED BY <3>1, <4>1, <4>2
      <3>2. CASE c \notin u.expected
        <4>1. Is(u) \in {"fp", "tn"}
          BY <3>2 DEF Told
        <4> QED BY <3>2, <4>1
      <3> QED BY <3>1, <3>2
    <2>2. {u \in K : Is(u) = "tp"} = De \cap Expecting(a, c)
      <3>1. Expecting(a, c) = {u \in A : c \in u.expected} /\ K \subseteq A
        BY DEF Expecting, A
      <3> HIDE DEF K, Is
      <3> QED BY <1>4, <2>1, <3>1
    <2>3. {u \in K : Is(u) = "fn"} = (At \ De) \cap Expecting(a, c)
      <3>1. Expecting(a, c) = {u \in A : c \in u.expected} /\ K \subseteq A
        BY DEF Expecting, A
      <3> HIDE DEF K, Is
      <3> QED BY <1>4, <2>1, <3>1
    <2>4. S.class[c] = [o \in Outcomes |-> Cardinality({u \in K : Is(u) = o})]
      BY <1>6 DEF Tally
    <2> HIDE DEF K, Is
    <2>5. S.class[c]["tp"] = Cardinality({u \in K : Is(u) = "tp"}) /\ S.class[c]["fn"] = Cardinality({u \in K : Is(u) = "fn"})
      BY <2>4 DEF Outcomes
    <2> QED BY <2>2, <2>3, <2>5
  <1> DEFINE Is(u) == Told(u.label = "attack", Observed(u, alerts) # {})
             Group(o) == {u \in A : Is(u) = o}
  <1>9. Group("tp") = At \cap Al /\ Group("fn") = At \ Al /\ Group("fp") = (A \ At) \cap Al /\ Group("tn") = (A \ At) \ Al
    BY <1>2, <1>4, <1>7
  <1>10. S.binary = [o \in Outcomes |-> Cardinality(Group(o))]
    BY <1>5 DEF Tally
  <1>11. S.class["any_attack"] = S.binary
    <2> DEFINE Other(u) == Told(u.label = "attack", "any_attack" \in Observed(u, alerts))
    <2>1. \A u \in A : Other(u) = Is(u)
      BY <1>2 DEF Told
    <2>2. S.class["any_attack"] = [o \in Outcomes |-> Cardinality({u \in A : Other(u) = o})]
      BY <1>6 DEF Tally
    <2> HIDE DEF Other, Is
    <2>3. ASSUME NEW o PROVE {u \in A : Other(u) = o} = Group(o)
      BY <2>1
    <2> HIDE DEF Group
    <2> QED BY <1>10, <2>2, <2>3
  <1> HIDE DEF Group, Is
  <1>12. S.binary = [o \in Outcomes |->
                       CASE o = "tp" -> Cardinality(At \cap Al) [] o = "fn" -> Cardinality(At \ Al)
                         [] o = "fp" -> Cardinality((A \ At) \cap Al) [] o = "tn" -> Cardinality((A \ At) \ Al)]
    BY <1>9, <1>10 DEF Outcomes
  <1> QED BY <1>8, <1>11, <1>12 DEF A, At, Al, De, S, units

(* Both scorers tell one story of an artifact.                             *)
Lost(a, X) == Cardinality({u \in a.units : u.flows \cap Uids(Accepted(a)) = {} /\ u \in X})
Alike(a, S, G) ==
  /\ \A c \in DOMAIN ExpectedSubtypes :
       /\ S.class[c].tp = G.class[c].tp /\ S.class[c].fn = G.class[c].fn + Lost(a, Expecting(a, c))
       /\ S.class[c].fn \in Int /\ G.class[c].fn \in Int /\ Lost(a, Expecting(a, c)) \in Int
  /\ S.binary.tp = G.tp + G.mismatches
  /\ S.binary.fn = (G.fn - G.mismatches) + Lost(a, Attacks(a))
  /\ S.binary.fp = G.fp - G.unmatched
  /\ S.binary.tn = G.tn + Lost(a, a.units \ Attacks(a))
  /\ S.binary.fn \in Int /\ G.fn - G.mismatches \in Int /\ Lost(a, Attacks(a)) \in Int
  /\ S.binary.tn \in Int /\ G.tn \in Int /\ Lost(a, a.units \ Attacks(a)) \in Int
  /\ S.class["any_attack"] = S.binary

LEMMA ScoresAlike ==
  ASSUME NEW a, NEW alerts, Measurable(a, alerts)
  PROVE  Alike(a, ScoreUnits(Completed(a.units, Uids(a.records)), alerts), GroundTruth(Accepted(a), alerts))
  <1> DEFINE A == a.units
             R == Reached(a)
             At == Attacks(a)
             Al == Alarmed(a, alerts)
             De == Detected(a, alerts)
             E(c) == Expecting(a, c)
             S == ScoreUnits(Completed(a.units, Uids(a.records)), alerts)
             G == GroundTruth(Accepted(a), alerts)
  <1>1. IsFiniteSet(A) /\ R \subseteq A /\ At \subseteq A /\ Al \subseteq R /\ De \subseteq At
    BY MeetsAlike DEF Measurable, Reached, Attacks, Alarmed, Detected
  <1>2. De \subseteq Al
    BY DEF Detected, Alarmed, Attacks, Matching
  <1>3. \A X : Lost(a, X) = Cardinality({u \in A \ R : u \in X})
    <2>1. ASSUME NEW X
          PROVE  {u \in a.units : u.flows \cap Uids(Accepted(a)) = {} /\ u \in X} = {u \in A \ R : u \in X}
      BY DEF Reached
    <2> QED BY <2>1 DEF Lost
  <1>4. /\ S.binary.tp = Cardinality(At \cap Al) /\ S.binary.fn = Cardinality(At \ Al)
        /\ S.binary.fp = Cardinality((A \ At) \cap Al) /\ S.binary.tn = Cardinality((A \ At) \ Al)
        /\ S.class["any_attack"] = S.binary
    <2> DEFINE B == [o \in Outcomes |->
                       CASE o = "tp" -> Cardinality(At \cap Al) [] o = "fn" -> Cardinality(At \ Al)
                         [] o = "fp" -> Cardinality((A \ At) \cap Al) [] o = "tn" -> Cardinality((A \ At) \ Al)]
    <2>1. S.binary = B /\ S.class["any_attack"] = S.binary
      BY ScoreIs
    <2> HIDE DEF S
    <2>2. /\ B["tp"] = Cardinality(At \cap Al) /\ B["fn"] = Cardinality(At \ Al)
          /\ B["fp"] = Cardinality((A \ At) \cap Al) /\ B["tn"] = Cardinality((A \ At) \ Al)
      <3> HIDE DEF A, At, Al
      <3> QED BY DEF Outcomes
    <2> QED BY <2>1, <2>2
  <1>5. \A c \in DOMAIN ExpectedSubtypes :
          S.class[c].tp = Cardinality(De \cap E(c)) /\ S.class[c].fn = Cardinality((At \ De) \cap E(c))
    BY ScoreIs
  <1>6. /\ G.tp = Cardinality(De \cap R) /\ G.fn = Cardinality((At \ De) \cap R)
        /\ G.mismatches = Cardinality(((At \cap Al) \ De) \cap R)
        /\ G.unmatched \in Nat /\ G.fp = Cardinality(((A \ At) \cap Al) \cap R) + G.unmatched
        /\ G.tn = Cardinality(((A \ At) \ Al) \cap R)
    BY GroundTruthIs
  <1>7. \A c \in DOMAIN ExpectedSubtypes :
          /\ G.class[c].tp = Cardinality((De \cap E(c)) \cap R)
          /\ G.class[c].fn = Cardinality(((At \ De) \cap E(c)) \cap R)
    BY GroundTruthIs
  <1>8. \A c : E(c) \subseteq A
    BY DEF Expecting
  <1>9. \A c \in DOMAIN ExpectedSubtypes : E(c) \subseteq At
    BY UnitShape DEF Expecting, Attacks
  <1> HIDE DEF A, R, At, Al, De, E, S, G
  <1>10. ASSUME NEW X, X \subseteq A, NEW T, NEW U, TwoParts(X, T, U)
         PROVE  /\ Cardinality(X) = Cardinality(T) + Cardinality(U)
                /\ Cardinality(X) \in Int /\ Cardinality(T) \in Int /\ Cardinality(U) \in Int
    <2>1. IsFiniteSet(X)
      BY <1>1, <1>10, FS_Subset
    <2>2. /\ Cardinality(X) = Cardinality(T) + Cardinality(U)
          /\ Cardinality(X) \in Nat /\ Cardinality(T) \in Nat /\ Cardinality(U) \in Nat
      BY <1>10, <2>1, PartsAdd
    <2> QED BY <2>2
  <1>11. ASSUME NEW c \in DOMAIN ExpectedSubtypes
         PROVE  /\ S.class[c].tp = G.class[c].tp /\ S.class[c].fn = G.class[c].fn + Lost(a, E(c))
                /\ S.class[c].fn \in Int /\ G.class[c].fn \in Int /\ Lost(a, E(c)) \in Int
    <2> DEFINE X == (At \ De) \cap E(c)
               T == ((At \ De) \cap E(c)) \cap R
               U == {u \in A \ R : u \in E(c)}
    <2>1. (De \cap E(c)) \cap R = De \cap E(c)
      BY <1>1, <1>2
    <2>2. X \subseteq A
      BY <1>1
    <2>3. TwoParts(X, T, U)
      BY <1>1, <1>2, <1>9 DEF TwoParts
    <2> HIDE DEF X, T, U
    <2>4. Cardinality(X) = Cardinality(T) + Cardinality(U) /\ Cardinality(X) \in Int /\ Cardinality(T) \in Int /\ Cardinality(U) \in Int
      BY <1>10, <2>2, <2>3
    <2>5. S.class[c].fn = Cardinality(X) /\ G.class[c].fn = Cardinality(T) /\ Lost(a, E(c)) = Cardinality(U)
      BY <1>3, <1>5, <1>7 DEF X, T, U
    <2>6. S.class[c].tp = G.class[c].tp
      BY <1>5, <1>7, <2>1
    <2> QED BY <2>4, <2>5, <2>6
  <1>12. S.binary.tp = G.tp + G.mismatches
    <2> DEFINE X == At \cap Al
               T == De \cap R
               U == ((At \cap Al) \ De) \cap R
    <2>1. X \subseteq A /\ TwoParts(X, T, U)
      BY <1>1, <1>2 DEF TwoParts
    <2> HIDE DEF X, T, U
    <2>2. Cardinality(X) = Cardinality(T) + Cardinality(U)
      BY <1>10, <2>1
    <2> QED BY <1>4, <1>6, <2>2 DEF X, T, U
  <1>13. /\ S.binary.fn = (G.fn - G.mismatches) + Lost(a, At)
         /\ S.binary.fn \in Int /\ G.fn - G.mismatches \in Int /\ Lost(a, At) \in Int
    <2> DEFINE X == At \ Al
               T == (At \ Al) \cap R
               U == {u \in A \ R : u \in At}
               V == (At \ De) \cap R
               W == ((At \cap Al) \ De) \cap R
    <2>1. X \subseteq A /\ TwoParts(X, T, U)
      BY <1>1 DEF TwoParts
    <2>2. V \subseteq A /\ TwoParts(V, T, W)
      BY <1>1, <1>2 DEF TwoParts
    <2>3. Lost(a, At) = Cardinality(U)
      BY <1>3
    <2> HIDE DEF X, T, U, V, W
    <2>4. Cardinality(X) = Cardinality(T) + Cardinality(U) /\ Cardinality(X) \in Int /\ Cardinality(T) \in Int /\ Cardinality(U) \in Int
      BY <1>10, <2>1
    <2>5. Cardinality(V) = Cardinality(T) + Cardinality(W) /\ Cardinality(V) \in Int /\ Cardinality(W) \in Int
      BY <1>10, <2>2
    <2>6. S.binary.fn = Cardinality(X) /\ G.fn = Cardinality(V) /\ G.mismatches = Cardinality(W)
      BY <1>4, <1>6 DEF X, V, W
    <2> QED BY <2>3, <2>4, <2>5, <2>6
  <1>14. S.binary.fp = G.fp - G.unmatched
    <2> DEFINE X == (A \ At) \cap Al
    <2>1. X \cap R = X /\ X \in SUBSET A
      BY <1>1
    <2> HIDE DEF X
    <2>2. IsFiniteSet(X)
      BY <1>1, <2>1, FS_Subset
    <2>3. Cardinality(X) \in Nat
      BY <2>2, FS_CardinalityType
    <2>4. S.binary.fp = Cardinality(X) /\ G.fp = Cardinality(X) + G.unmatched
      BY <1>4, <1>6, <2>1 DEF X
    <2> QED BY <1>6, <2>3, <2>4
  <1>15. /\ S.binary.tn = G.tn + Lost(a, A \ At)
         /\ S.binary.tn \in Int /\ G.tn \in Int /\ Lost(a, A \ At) \in Int
    <2> DEFINE X == (A \ At) \ Al
               T == ((A \ At) \ Al) \cap R
               U == {u \in A \ R : u \in A \ At}
    <2>1. X \subseteq A /\ TwoParts(X, T, U)
      BY <1>1 DEF TwoParts
    <2>2. Lost(a, A \ At) = Cardinality(U)
      BY <1>3
    <2> HIDE DEF X, T, U
    <2>3. Cardinality(X) = Cardinality(T) + Cardinality(U) /\ Cardinality(X) \in Int /\ Cardinality(T) \in Int /\ Cardinality(U) \in Int
      BY <1>10, <2>1
    <2>4. S.binary.tn = Cardinality(X) /\ G.tn = Cardinality(T)
      BY <1>4, <1>6 DEF X, T
    <2> QED BY <2>2, <2>3, <2>4
  <1> QED BY <1>4, <1>11, <1>12, <1>13, <1>14, <1>15 DEF A, At, E, S, G, Alike

-----------------------------------------------------------------------------
(* An evaluation.                                                          *)

Scores(a) == ScoreUnits(Completed(a.units, Uids(a.records)), published.raised[a.id])
LiveScore(a) == GroundTruth(Accepted(a), published.raised[a.id])
(* A report comes from an audited corpus, some of whose artifacts are of   *)
(* the split, and pools their scores.                                      *)
Report ==
  /\ published.split \in BenchmarkSplits /\ Evaluated # {}
  /\ CorpusAudited(corpus.artifacts) /\ LineageAudited(corpus)
  /\ published.raised \in Raisable(Evaluated)
  /\ published.binary = [o \in Outcomes |-> SumFunction([a \in Evaluated |-> Scores(a).binary[o]])]
  /\ published.class =
       [c \in Classes |-> [o \in Outcomes |-> SumFunction([a \in Evaluated |-> Scores(a).class[c][o]])]]
BenchmarkInv == corpus \in Corpora /\ (published.split # "none" => Report)

LEMMA BenchmarkStep == BenchmarkInv /\ [BenchmarkNext]_evaluation => BenchmarkInv'
  <1> SUFFICES ASSUME BenchmarkInv, [BenchmarkNext]_evaluation PROVE BenchmarkInv'
    OBVIOUS
  <1>1. ASSUME NEW split \in BenchmarkSplits, RunBenchmark(split)
        PROVE  BenchmarkInv'
    <2> DEFINE chosen == Of(corpus.artifacts, split)
    <2>1. PICK raised \in Raisable(chosen) :
            LET scores == [a \in chosen |-> ScoreUnits(Completed(a.units, Uids(a.records)), raised[a.id])]
            IN  published' =
                  [split |-> split, raised |-> raised,
                   binary |-> [o \in Outcomes |-> SumFunction([a \in chosen |-> scores[a].binary[o]])],
                   class |-> [c \in Classes |-> [o \in Outcomes |-> SumFunction([a \in chosen |-> scores[a].class[c][o]])]]]
      BY <1>1 DEF RunBenchmark
    <2>2. corpus' = corpus /\ chosen # {} /\ CorpusAudited(corpus.artifacts) /\ LineageAudited(corpus)
      BY <1>1 DEF RunBenchmark
    <2>3. published'.split = split /\ published'.raised = raised
      BY <2>1
    <2>4. Evaluated' = chosen
      BY <2>2, <2>3 DEF Evaluated
    <2> HIDE DEF chosen
    <2> DEFINE scores == [a \in chosen |-> ScoreUnits(Completed(a.units, Uids(a.records)), raised[a.id])]
    <2>5. \A a \in chosen : scores[a] = Scores(a)'
      BY <2>3 DEF Scores
    <2> HIDE DEF scores
    <2>6. \A o : [a \in chosen |-> scores[a].binary[o]] = [a \in chosen |-> Scores(a)'.binary[o]]
      BY <2>5
    <2>7. \A c, o : [a \in chosen |-> scores[a].class[c][o]] = [a \in chosen |-> Scores(a)'.class[c][o]]
      BY <2>5
    <2>8. /\ published'.binary = [o \in Outcomes |-> SumFunction([a \in chosen |-> scores[a].binary[o]])]
          /\ published'.class = [c \in Classes |-> [o \in Outcomes |-> SumFunction([a \in chosen |-> scores[a].class[c][o]])]]
      BY <2>1 DEF scores
    <2>9. /\ published'.binary = [o \in Outcomes |-> SumFunction([a \in chosen |-> Scores(a)'.binary[o]])]
          /\ published'.class = [c \in Classes |-> [o \in Outcomes |-> SumFunction([a \in chosen |-> Scores(a)'.class[c][o]])]]
      <3> DEFINE New(a) == Scores(a)'
      <3>1. /\ \A o : [a \in chosen |-> scores[a].binary[o]] = [a \in chosen |-> New(a).binary[o]]
            /\ \A c, o : [a \in chosen |-> scores[a].class[c][o]] = [a \in chosen |-> New(a).class[c][o]]
        BY <2>6, <2>7
      <3> HIDE DEF New
      <3>2. published'.binary = [o \in Outcomes |-> SumFunction([a \in chosen |-> New(a).binary[o]])]
        BY <2>8, <3>1
      <3>3. published'.class = [c \in Classes |-> [o \in Outcomes |-> SumFunction([a \in chosen |-> New(a).class[c][o]])]]
        BY <2>8, <3>1
      <3> QED BY <3>2, <3>3 DEF New
    <2>10. Report'
      BY <2>2, <2>3, <2>4, <2>9 DEF Report
    <2> QED BY <2>2, <2>10 DEF BenchmarkInv
  <1>2. CASE UNCHANGED evaluation
    BY <1>2 DEF BenchmarkInv, Report, Evaluated, Scores, evaluation
  <1> QED BY <1>1, <1>2 DEF BenchmarkNext

LEMMA Isolated ==
  ASSUME BenchmarkInv, published.split # "none"
  PROVE  EvaluationIsolated
  <1>1. CorpusAudited(corpus.artifacts) /\ LineageAudited(corpus)
    BY DEF BenchmarkInv, Report
  <1> SUFFICES ASSUME NEW a \in Evaluated
               PROVE  /\ \A b \in corpus.artifacts :
                           b.split # a.split => GroupIds(a) \cap GroupIds(b) = {} /\ Telemetry(a) \cap Telemetry(b) = {}
                      /\ a.split # "train" /\ corpus.modelled => GroupIds(a) \cap corpus.lineage = {}
    BY DEF EvaluationIsolated
  <1>2. a \in corpus.artifacts
    BY DEF Evaluated, Of
  <1>3. ASSUME NEW b \in corpus.artifacts, b.split # a.split
        PROVE  GroupIds(a) \cap GroupIds(b) = {} /\ Telemetry(a) \cap Telemetry(b) = {}
    <2>1. a # b
      BY <1>3
    <2>2. ~Leaks(a, b)
      BY <1>1, <1>2, <2>1 DEF CorpusAudited
    <2> QED BY <1>3, <2>2 DEF Leaks
  <1>4. ASSUME a.split # "train", corpus.modelled
        PROVE  GroupIds(a) \cap corpus.lineage = {}
    <2>1. \A g \in corpus.lineage : \E b \in corpus.artifacts : b.split = "train" /\ g \in b.groups
      BY <1>1, <1>4 DEF LineageAudited, Of
    <2>2. \A b : b.groups \subseteq GroupIds(b)
      BY DEF GroupIds
    <2> QED BY <1>3, <1>4, <2>1, <2>2
  <1> QED BY <1>3, <1>4

LEMMA Agree ==
  ASSUME BenchmarkInv, published.split # "none"
  PROVE  ScorersAgree
  <1> SUFFICES ASSUME \A a \in Evaluated : a.units = ScenarioUnits(a.records)
               PROVE  ScorersAgree
    BY DEF ScorersAgree
  <1> DEFINE X == Evaluated
             LA(a) == Cardinality({u \in a.units : u.flows \cap Uids(Accepted(a)) = {} /\ u.label = "attack"})
             LB(a) == Cardinality({u \in a.units : u.flows \cap Uids(Accepted(a)) = {} /\ u.label = "benign"})
             LC(a, c) == Cardinality({u \in a.units : u.flows \cap Uids(Accepted(a)) = {} /\ c \in u.expected})
  <1>1. Report /\ corpus \in Corpora
    BY DEF BenchmarkInv
  <1>2. IsFiniteSet(X)
    <2>1. IsFiniteSet(corpus.artifacts) /\ X \in SUBSET corpus.artifacts
      BY <1>1, BenchmarkAssumption DEF Evaluated, Of
    <2> HIDE DEF X
    <2> QED BY <2>1, FS_Subset
  <1>3. ASSUME NEW a \in X PROVE Measurable(a, published.raised[a.id])
    <2>1. a \in corpus.artifacts
      BY DEF Evaluated, Of
    <2>2. IsFiniteSet(a.records) /\ IsFiniteSet(a.units)
      BY <1>1, <2>1, BenchmarkAssumption
    <2>3. IsFiniteSet(published.raised[a.id]) /\ \A alert \in published.raised[a.id] : alert.flows \subseteq Uids(Accepted(a))
      <3>1. /\ published.split \in BenchmarkSplits /\ Of(corpus.artifacts, published.split) # {}
            /\ published.raised \in Raisable(Of(corpus.artifacts, published.split))
            /\ a \in Of(corpus.artifacts, published.split)
        BY <1>1 DEF Report, Evaluated
      <3> HIDE DEF X
      <3> QED BY <1>1, <3>1, BenchmarkAssumption
    <2>4. ArtifactValid(a) /\ a.units = ScenarioUnits(a.records)
      BY <1>1, <2>1 DEF Report, CorpusAudited
    <2> QED BY <2>2, <2>3, <2>4 DEF Measurable
  <1>4. ASSUME NEW a \in X
        PROVE  /\ \A c \in DOMAIN ExpectedSubtypes :
                    /\ Scores(a).class[c].tp = LiveScore(a).class[c].tp
                    /\ Scores(a).class[c].fn = LiveScore(a).class[c].fn + LC(a, c)
                    /\ Scores(a).class[c].fn \in Int /\ LiveScore(a).class[c].fn \in Int /\ LC(a, c) \in Int
               /\ Scores(a).binary.tp = LiveScore(a).tp + LiveScore(a).mismatches
               /\ Scores(a).binary.fn = (LiveScore(a).fn - LiveScore(a).mismatches) + LA(a)
               /\ Scores(a).binary.fp = LiveScore(a).fp - LiveScore(a).unmatched
               /\ Scores(a).binary.tn = LiveScore(a).tn + LB(a)
               /\ Scores(a).binary.fn \in Int /\ LiveScore(a).fn - LiveScore(a).mismatches \in Int
               /\ LA(a) \in Int
               /\ Scores(a).binary.tn \in Int /\ LiveScore(a).tn \in Int /\ LB(a) \in Int
               /\ Scores(a).class["any_attack"] = Scores(a).binary
    <2> DEFINE alerts == published.raised[a.id]
    <2>1. Measurable(a, alerts)
      BY <1>3
    <2>2. \A u \in a.units : u.label \in {"attack", "benign"}
      BY <2>1, UnitShape
    <2>3. /\ LA(a) = Lost(a, Attacks(a))
          /\ LB(a) = Lost(a, a.units \ Attacks(a))
          /\ \A c : LC(a, c) = Lost(a, Expecting(a, c))
      <3>1. {u \in a.units : u.flows \cap Uids(Accepted(a)) = {} /\ u.label = "attack"}
              = {u \in a.units : u.flows \cap Uids(Accepted(a)) = {} /\ u \in Attacks(a)}
        BY DEF Attacks
      <3>2. {u \in a.units : u.flows \cap Uids(Accepted(a)) = {} /\ u.label = "benign"}
              = {u \in a.units : u.flows \cap Uids(Accepted(a)) = {} /\ u \in a.units \ Attacks(a)}
        BY <2>2 DEF Attacks
      <3>3. ASSUME NEW c
            PROVE  {u \in a.units : u.flows \cap Uids(Accepted(a)) = {} /\ c \in u.expected}
                     = {u \in a.units : u.flows \cap Uids(Accepted(a)) = {} /\ u \in Expecting(a, c)}
        BY DEF Expecting
      <3> QED BY <3>1, <3>2, <3>3 DEF Lost
    <2> HIDE DEF LA, LB, LC
    <2>4. Alike(a, Scores(a), LiveScore(a))
      BY <2>1, ScoresAlike DEF Scores, LiveScore
    <2> QED BY <2>3, <2>4 DEF Alike
  <1> HIDE DEF LA, LB, LC
  <1>5. /\ published.binary = [o \in Outcomes |-> SumFunction([a \in X |-> Scores(a).binary[o]])]
        /\ published.class = [c \in Classes |-> [o \in Outcomes |-> SumFunction([a \in X |-> Scores(a).class[c][o]])]]
    BY <1>1 DEF Report
  <1>6. ASSUME NEW c \in DOMAIN ExpectedSubtypes
        PROVE  /\ published.class[c].tp = Truth(LAMBDA g : g.class[c].tp)
               /\ published.class[c].fn = Truth(LAMBDA g : g.class[c].fn) + Rejected(LAMBDA u : c \in u.expected)
    <2> DEFINE f == [a \in X |-> Scores(a).class[c]["fn"]]
               g == [a \in X |-> LiveScore(a).class[c].fn]
               h == [a \in X |-> LC(a, c)]
    <2>1. published.class[c] = [o \in Outcomes |-> SumFunction([a \in X |-> Scores(a).class[c][o]])]
      BY <1>5, Known
    <2>2. published.class[c].tp = SumFunction([a \in X |-> Scores(a).class[c]["tp"]]) /\ published.class[c].fn = SumFunction(f)
      BY <2>1 DEF Outcomes
    <2>3. [a \in X |-> Scores(a).class[c]["tp"]] = [a \in X |-> LiveScore(a).class[c].tp]
      BY <1>4
    <2>4. Truth(LAMBDA p : p.class[c].tp) = SumFunction([a \in X |-> LiveScore(a).class[c].tp])
      BY DEF Truth, LiveScore
    <2>5. Truth(LAMBDA p : p.class[c].fn) = SumFunction(g)
      BY DEF Truth, LiveScore
    <2>6. Rejected(LAMBDA u : c \in u.expected) = SumFunction(h)
      BY DEF Rejected, LC
    <2>7. f \in [X -> Int] /\ g \in [X -> Int] /\ h \in [X -> Int] /\ \A a \in X : f[a] = g[a] + h[a]
      BY <1>4
    <2> HIDE DEF f, g, h, X
    <2>8. SumFunction(f) = SumFunction(g) + SumFunction(h)
      BY <1>2, <2>7, SumAdds
    <2> QED BY <2>2, <2>3, <2>4, <2>5, <2>6, <2>8
  <1>7. \A o \in Outcomes : published.binary[o] = SumFunction([a \in X |-> Scores(a).binary[o]])
    BY <1>5
  <1>8. published.binary.tp = Truth(LAMBDA g : g.tp + g.mismatches) /\ published.binary.fp = Truth(LAMBDA g : g.fp - g.unmatched)
    <2>1. /\ published.binary.tp = SumFunction([a \in X |-> Scores(a).binary["tp"]])
          /\ published.binary.fp = SumFunction([a \in X |-> Scores(a).binary["fp"]])
      BY <1>7 DEF Outcomes
    <2>2. /\ [a \in X |-> Scores(a).binary["tp"]] = [a \in X |-> LiveScore(a).tp + LiveScore(a).mismatches]
          /\ [a \in X |-> Scores(a).binary["fp"]] = [a \in X |-> LiveScore(a).fp - LiveScore(a).unmatched]
      BY <1>4
    <2>3. /\ Truth(LAMBDA g : g.tp + g.mismatches) = SumFunction([a \in X |-> LiveScore(a).tp + LiveScore(a).mismatches])
          /\ Truth(LAMBDA g : g.fp - g.unmatched) = SumFunction([a \in X |-> LiveScore(a).fp - LiveScore(a).unmatched])
      BY DEF Truth, LiveScore
    <2> QED BY <2>1, <2>2, <2>3
  <1>9. published.binary.fn = Truth(LAMBDA g : g.fn - g.mismatches) + Rejected(LAMBDA u : u.label = "attack")
    <2> DEFINE f == [a \in X |-> Scores(a).binary["fn"]]
               g == [a \in X |-> LiveScore(a).fn - LiveScore(a).mismatches]
               h == [a \in X |-> LA(a)]
    <2>1. published.binary.fn = SumFunction(f)
      BY <1>7 DEF Outcomes
    <2>2. Truth(LAMBDA p : p.fn - p.mismatches) = SumFunction(g)
      BY DEF Truth, LiveScore
    <2>3. Rejected(LAMBDA u : u.label = "attack") = SumFunction(h)
      BY DEF Rejected, LA
    <2>4. f \in [X -> Int] /\ g \in [X -> Int] /\ h \in [X -> Int] /\ \A a \in X : f[a] = g[a] + h[a]
      BY <1>4
    <2> HIDE DEF f, g, h, X
    <2>5. SumFunction(f) = SumFunction(g) + SumFunction(h)
      BY <1>2, <2>4, SumAdds
    <2> QED BY <2>1, <2>2, <2>3, <2>5
  <1>10. published.binary.tn = Truth(LAMBDA g : g.tn) + Rejected(LAMBDA u : u.label = "benign")
    <2> DEFINE f == [a \in X |-> Scores(a).binary["tn"]]
               g == [a \in X |-> LiveScore(a).tn]
               h == [a \in X |-> LB(a)]
    <2>1. published.binary.tn = SumFunction(f)
      BY <1>7 DEF Outcomes
    <2>2. Truth(LAMBDA p : p.tn) = SumFunction(g)
      BY DEF Truth, LiveScore
    <2>3. Rejected(LAMBDA u : u.label = "benign") = SumFunction(h)
      BY DEF Rejected, LB
    <2>4. f \in [X -> Int] /\ g \in [X -> Int] /\ h \in [X -> Int] /\ \A a \in X : f[a] = g[a] + h[a]
      BY <1>4
    <2> HIDE DEF f, g, h, X
    <2>5. SumFunction(f) = SumFunction(g) + SumFunction(h)
      BY <1>2, <2>4, SumAdds
    <2> QED BY <2>1, <2>2, <2>3, <2>5
  <1>11. published.class["any_attack"] = published.binary
    <2>1. published.class["any_attack"] = [o \in Outcomes |-> SumFunction([a \in X |-> Scores(a).class["any_attack"][o]])]
      BY <1>5, Known
    <2> DEFINE C(o) == [a \in X |-> Scores(a).class["any_attack"][o]]
               B(o) == [a \in X |-> Scores(a).binary[o]]
    <2>2. \A o : C(o) = B(o)
      BY <1>4
    <2>3. published.class["any_attack"] = [o \in Outcomes |-> SumFunction(C(o))]
      BY <2>1
    <2>4. published.binary = [o \in Outcomes |-> SumFunction(B(o))]
      BY <1>5
    <2> HIDE DEF B, C, X
    <2>5. [o \in Outcomes |-> SumFunction(C(o))] = [o \in Outcomes |-> SumFunction(B(o))]
      BY <2>2, Zenon
    <2> QED BY <2>3, <2>4, <2>5, Zenon
  <1> QED BY <1>6, <1>8, <1>9, <1>10, <1>11 DEF ScorersAgree

(* What a published report says stands: for any corpora, any analysis of   *)
(* the accepted flows and any split, nothing leaked into what was measured *)
(* and the two scorers tell one story (benchmark.run_benchmark).           *)
THEOREM EvaluationsStand == BenchmarkSpec => []EvaluationStands
  <1>1. BenchmarkInit => BenchmarkInv
    BY DEF BenchmarkInit, BenchmarkInv
  <1>2. BenchmarkInv => EvaluationStands
    BY Isolated, Agree DEF EvaluationStands
  <1> QED BY <1>1, <1>2, BenchmarkStep, PTL DEF BenchmarkSpec
=============================================================================
