-------------------------- MODULE AnalystRecovery --------------------------
(***************************************************************************)
(* The operator's backup of the signed analyst store and its restoration.  *)
(* A bundle is filled step by step and signed last; the head it was taken  *)
(* at is kept elsewhere by hand; a restoration into a new place trusts     *)
(* only what it copied.  The store is written meanwhile, files are changed *)
(* and the operator's command dies.  A store is its rows and the rows its  *)
(* ledger signs; a digest is what it digests.                              *)
(***************************************************************************)
EXTENDS Integers, FiniteSets

CONSTANTS
  Bundles, Places,      (* directories for backups and restorations        *)
  MaxWrites, MaxFaults  (* commits of the service; changes of files        *)

VARIABLES
  live,       (* the analyst store in service                              *)
  bundle,     (* the directory of each backup                              *)
  place,      (* the directory of each restoration                         *)
  operator,   (* the command under way                                     *)
  heads,      (* the heads kept independently                              *)
  faults

recovery == <<live, bundle, place, operator, heads, faults>>

Missing == [rows |-> -1, signed |-> -1]
Store(n) == [rows |-> n, signed |-> n]
NoMeta  == [head |-> -1, db |-> Missing, rows |-> -1]
NoDirectory == [made |-> FALSE, db |-> Missing, head |-> -1, manifest |-> NoMeta]
NoPlace == [made |-> FALSE, db |-> Missing, receipt |-> NoMeta]
Ready   == [step |-> "ready"]

RecoveryInit ==
  /\ live = Store(1)
  /\ bundle = [b \in Bundles |-> NoDirectory] /\ place = [p \in Places |-> NoPlace]
  /\ operator = Ready /\ heads = {} /\ faults = 0

(* verify_database: the rows are those the ledger signs, in one reading.   *)
VerifiedStore(db) == db # Missing /\ db.rows = db.signed

-----------------------------------------------------------------------------
(* Backup.                                                                 *)

Step(next) == operator' = next
AtStep(step) == operator # Ready /\ operator.step = step
BackingUp(step) == AtStep(step) /\ UNCHANGED <<live, place, heads, faults>>
Fill(field, value) == bundle' = [bundle EXCEPT ![operator.bundle][field] = value]

MakeBundle(b) ==
  /\ operator = Ready /\ ~bundle[b].made
  /\ bundle' = [bundle EXCEPT ![b].made = TRUE]
  /\ Step([step |-> "copy", bundle |-> b])
  /\ UNCHANGED <<live, place, heads, faults>>
(* The online copy starts over when the store is written: what it leaves   *)
(* is one committed state.  Past its deadline it leaves nothing of use.    *)
CopyStore ==
  /\ BackingUp("copy") /\ Fill("db", live) /\ Step([operator EXCEPT !.step = "verify"])
CopyExpires ==
  /\ BackingUp("copy") /\ Step(Ready) /\ UNCHANGED bundle
VerifyCopy ==
  /\ BackingUp("verify") /\ UNCHANGED bundle
  /\ LET db == bundle[operator.bundle].db
     IN  Step(IF VerifiedStore(db)
              THEN [step |-> "measure", bundle |-> operator.bundle, head |-> db.signed, rows |-> db.rows]
              ELSE Ready)
(* Size and digest are those of the file as it is then.                    *)
MeasureCopy ==
  /\ BackingUp("measure") /\ UNCHANGED bundle
  /\ Step([step |-> "head", bundle |-> operator.bundle,
           manifest |-> [head |-> operator.head, db |-> bundle[operator.bundle].db, rows |-> operator.rows]])
WriteHead ==
  /\ BackingUp("head") /\ Fill("head", operator.manifest.head) /\ Step([operator EXCEPT !.step = "manifest"])
WriteManifest ==
  /\ BackingUp("manifest") /\ Fill("manifest", operator.manifest) /\ Step(Ready)

(* By hand: the head of a finished backup is copied elsewhere.             *)
KeepHead(b) ==
  /\ operator = Ready /\ bundle[b].manifest # NoMeta
  /\ heads' = heads \cup {bundle[b].manifest.head}
  /\ UNCHANGED <<live, bundle, place, operator, faults>>

-----------------------------------------------------------------------------
(* Restoration.                                                            *)

(* Only this key's signature makes a manifest: one is missing or genuine.  *)
Acceptable(manifest, expected) == manifest # NoMeta /\ manifest.head = expected
Restoring(step) == AtStep(step) /\ UNCHANGED <<live, bundle, heads, faults>>
BeginRestore(b, p, expected) ==
  /\ operator = Ready /\ Acceptable(bundle[b].manifest, expected) /\ ~place[p].made
  /\ place' = [place EXCEPT ![p].made = TRUE]
  /\ Step([step |-> "fetch", bundle |-> b, place |-> p, manifest |-> bundle[b].manifest, expected |-> expected])
  /\ UNCHANGED <<live, bundle, heads, faults>>
Fetch ==
  /\ Restoring("fetch") /\ place' = [place EXCEPT ![operator.place].db = bundle[operator.bundle].db]
  /\ Step([operator EXCEPT !.step = "check"])
DigestOnly(db, manifest, expected) == db = manifest.db
Sound(db, manifest, expected) ==
  /\ db = manifest.db                                    (* size, digest *)
  /\ VerifiedStore(db) /\ db.signed = expected /\ db.rows = manifest.rows
(* The bytes that were copied, not those the bundle had when it was read.  *)
CheckFetched ==
  /\ Restoring("check") /\ UNCHANGED place
  /\ Step(IF Sound(place[operator.place].db, operator.manifest, operator.expected)
          THEN [operator EXCEPT !.step = "receipt"] ELSE Ready)
WriteReceipt ==
  /\ Restoring("receipt") /\ Step(Ready)
  /\ place' = [place EXCEPT ![operator.place].receipt = operator.manifest]

-----------------------------------------------------------------------------
(* The service writes on; faults.                                          *)

ServiceWrites ==
  /\ live.signed < MaxWrites /\ VerifiedStore(live) /\ live' = Store(live.signed + 1)
  /\ UNCHANGED <<bundle, place, operator, heads, faults>>
CommandDies == operator # Ready /\ Step(Ready) /\ UNCHANGED <<live, bundle, place, heads, faults>>
Fault == faults < MaxFaults /\ faults' = faults + 1 /\ UNCHANGED heads
(* Rows edited behind the ledger, an older or another copy put in place, a *)
(* file lost.                                                              *)
AlterLive == Fault /\ live' = [live EXCEPT !.rows = 0] /\ UNCHANGED <<bundle, place, operator>>
AlterBundle(b) ==
  /\ Fault /\ bundle[b].made
  /\ \E db \in {Missing, [bundle[b].db EXCEPT !.rows = 0]} \cup {bundle[c].db : c \in Bundles} :
       bundle' = [bundle EXCEPT ![b].db = db]
  /\ UNCHANGED <<live, place, operator>>
MoveManifest(b, c) ==
  /\ Fault /\ bundle[c].made /\ bundle' = [bundle EXCEPT ![c].manifest = bundle[b].manifest]
  /\ UNCHANGED <<live, place, operator>>

RecoveryNext ==
  \/ \E b \in Bundles : MakeBundle(b) \/ KeepHead(b) \/ AlterBundle(b)
  \/ \E b, c \in Bundles : MoveManifest(b, c)
  \/ CopyStore \/ CopyExpires \/ VerifyCopy \/ MeasureCopy \/ WriteHead \/ WriteManifest
  \/ \E b \in Bundles, p \in Places, expected \in heads : BeginRestore(b, p, expected)
  \/ Fetch \/ CheckFetched \/ WriteReceipt
  \/ ServiceWrites \/ CommandDies \/ AlterLive

RecoverySpec == RecoveryInit /\ [][RecoveryNext]_recovery

-----------------------------------------------------------------------------
(* Properties.                                                             *)

(* Whatever was changed, moved or broken off: a restoration with a receipt *)
(* is the whole store as it was when the kept head was its last entry; and *)
(* of a bundle nobody touched, the manifest is the last thing written and  *)
(* true of it (operations.py: backup_database, restore_database).          *)
RecoverySound ==
  /\ \A p \in Places :
       place[p].receipt # NoMeta =>
         place[p].receipt.head \in heads /\ place[p].db = Store(place[p].receipt.head)
  /\ faults = 0 =>
       \A b \in Bundles :
         LET m == bundle[b].manifest
         IN  m # NoMeta => bundle[b].head = m.head /\ Sound(bundle[b].db, m, m.head)
=============================================================================
