---------------------------- MODULE AuditedStore ----------------------------
(***************************************************************************)
(* The signed evidence store: the analyst tables, the ledger that chains   *)
(* one signed entry per change, retention bookkeeping and deletion, export *)
(* receipts, and the processes that share the database file: requests of a *)
(* signed repository, an unsigned repository opened on the same file, and  *)
(* whoever changes the file from outside.                                  *)
(*                                                                         *)
(* Every operation of a signed repository is a transaction under SQLite's  *)
(* immediate lock.  Begin takes the lock, photographs the tables and       *)
(* verifies; the operation's own action is its body with the exit that     *)
(* follows, since nothing of it can be seen before the commit.             *)
(***************************************************************************)
EXTENDS Integers, Sequences, FiniteSets

CONSTANTS
  Requests,     (* threads of signed repositories                          *)
  Outsiders,    (* processes with an unsigned repository on the file       *)
  Keepers,      (* operators who keep a head outside the file              *)
  Items,        (* incident, alert, feedback and runtime-state rows        *)
  Values,       (* their contents                                          *)
  Runs,         (* analysis run ids, ordered as SQLite orders them         *)
  Reports,      (* contents of a run                                       *)
  Completed,    (* ... those whose status is "completed"                   *)
  Exports,      (* digests of exported payloads                            *)
  None,         (* no row, no lock holder, no event                        *)
  PlanLimit,    (* run ids in a retention plan, at most                    *)
  MaxLedger,    (* bound: ledger entries                                   *)
  MaxPlans,     (* bound: retention plans previewed                        *)
  MaxClock,     (* bound: time                                             *)
  MaxStrays,    (* bound: unsigned writes                                  *)
  MaxEdits      (* bound: outside changes to the file                      *)

ASSUME RowsAssumption ==
  /\ Runs \subseteq Nat /\ Completed \subseteq Reports
  /\ None \notin Values \cup Reports \cup Exports \cup Requests \cup [stored : Nat, held : BOOLEAN]
  /\ PlanLimit \in Nat \ {0}
ASSUME EventsAssumption ==
  (Exports \cup {None}) \cap {"genesis", "state_change", "retention_hold", "retention_applied"} = {}
ASSUME LimitsAssumption ==
  MaxLedger \in Nat /\ MaxPlans \in Nat /\ MaxClock \in Nat /\ MaxStrays \in Nat /\ MaxEdits \in Nat

VARIABLES
  state,     (* the protected tables                                       *)
  ledger,    (* evidence_audit                                             *)
  signed,    (* every payload the key has signed; its place is its MAC     *)
  lock,      (* who is in a write transaction                              *)
  tx,        (* each request's transaction                                 *)
  exporting, (* the digest each request has recorded but not yet receipted *)
  plans,     (* retention plans previewed                                  *)
  receipts,  (* export receipts handed out                                 *)
  clock,     (* time.time()                                                *)
  unsigned,  (* outsiders that have opened the file                        *)
  saved,     (* an older copy of the file                                  *)
  anchors,   (* heads kept outside the file, with what they stood for      *)
  honest,    (* history: what signed operations alone made of the tables   *)
  strays, edits

database == <<state, ledger, signed>>
outside  == <<unsigned, saved, strays, edits>>
vars == <<state, ledger, signed, lock, tx, exporting, plans, receipts, clock,
          unsigned, saved, anchors, honest, strays, edits>>

-----------------------------------------------------------------------------
(* Shapes.                                                                 *)

Retained == [stored : Nat, held : BOOLEAN]

(* One row per id and table; a digest of the tables is the tables.         *)
State == [records : [Items -> Values \cup {None}],
          runs : [Runs -> Reports \cup {None}],
          retention : [Runs -> Retained \cup {None}]]
Empty == [records   |-> [i \in Items |-> None],
          runs      |-> [r \in Runs |-> None],
          retention |-> [r \in Runs |-> None]]

Events == {"genesis", "state_change", "retention_hold", "retention_applied"}
          \cup Exports

Row    == Values \cup Reports \cup Retained \cup {None}
Change == [table : {"records", "runs", "retention"}, id : Items \cup Runs,
           before : Row, after : Row]

(* The rows of a table that were added, altered or removed.                *)
Altered(table, old, new) ==
  { [table |-> table, id |-> k, before |-> old[k], after |-> new[k]] :
    k \in {j \in DOMAIN old : old[j] # new[j]} }
Changes(before, after) ==
  Altered("records", before.records, after.records)
  \cup Altered("runs", before.runs, after.runs)
  \cup Altered("retention", before.retention, after.retention)

(* MACs are numbers, 0 the sixty-four zeros before the first entry.        *)
Mac     == Nat
Payload == [sequence : Nat, previous : Mac, time : Nat, event : Events,
            changes : SUBSET Change, state : State]
Checkpoint == [sequence : Nat, mac : Mac]
NoHead  == [sequence |-> 0, mac |-> 0]
Tx      == [phase : {"off", "idle", "open"}, before : State, head : Checkpoint]
NoTx(phase) == [phase |-> phase, before |-> Empty, head |-> NoHead]
Entry   == [payload : Payload, mac : Mac]
Plan    == [before : Nat, runs : SUBSET Runs, head : Mac]
Receipt == [digest : Exports, head : Checkpoint]
Image   == [state : State, ledger : Seq(Entry), honest : Seq(State)]
Anchor  == [head : Checkpoint, image : Image]

TypeOK ==
  /\ state \in State /\ ledger \in Seq(Entry) /\ signed \in Seq(Payload)
  /\ lock \in Requests \cup {None} /\ tx \in [Requests -> Tx]
  /\ exporting \in [Requests -> Exports \cup {None}]
  /\ plans \in SUBSET Plan /\ receipts \in SUBSET Receipt
  /\ clock \in Nat
  /\ unsigned \in SUBSET Outsiders
  /\ saved \in Image \cup {None} /\ anchors \in [Keepers -> Anchor \cup {None}]
  /\ honest \in Seq(State)
  /\ strays \in 0 .. MaxStrays /\ edits \in 0 .. MaxEdits

Init ==
  /\ state = Empty /\ ledger = <<>> /\ signed = <<>>
  /\ lock = None /\ tx = [c \in Requests |-> NoTx("off")]
  /\ exporting = [c \in Requests |-> None]
  /\ plans = {} /\ receipts = {} /\ clock = 1
  /\ unsigned = {} /\ saved = None /\ anchors = [k \in Keepers |-> None]
  /\ honest = <<>> /\ strays = 0 /\ edits = 0

-----------------------------------------------------------------------------
(* The ledger.                                                             *)

(* Entry n of a ledger has a valid MAC, its place as its sequence, and the *)
(* MAC of the entry before it.                                             *)
EntryValid(n) ==
  LET entry == ledger[n]
  IN  /\ entry.mac \in DOMAIN signed /\ signed[entry.mac] = entry.payload
      /\ entry.payload.sequence = n
      /\ entry.payload.previous = IF n = 1 THEN 0 ELSE ledger[n - 1].mac

(* verify_connection, run over the tables as the transaction sees them.    *)
Verified ==
  /\ ledger # <<>>
  /\ \A n \in DOMAIN ledger : EntryValid(n)
  /\ ledger[Len(ledger)].payload.state = state

HeadOf == [sequence |-> Len(ledger), mac |-> ledger[Len(ledger)].mac]

(* HMAC: one MAC per payload, and none without the key.                    *)
Signs(payload, mac) ==
  \/ mac \in DOMAIN signed /\ signed[mac] = payload /\ UNCHANGED signed
  \/ /\ \A m \in DOMAIN signed : signed[m] # payload
     /\ mac = Len(signed) + 1 /\ signed' = Append(signed, payload)

(* _append: the next entry after a head; its sequence is the row's key.    *)
Appends(head, after, changes, event) ==
  LET payload == [sequence |-> head.sequence + 1, previous |-> head.mac,
                  time |-> clock, event |-> event, changes |-> changes,
                  state |-> after]
  IN  /\ Len(ledger) = head.sequence /\ Len(ledger) < MaxLedger
      /\ \E mac \in 1 .. Len(signed) + 1 :
           /\ Signs(payload, mac)
           /\ ledger' = Append(ledger, [payload |-> payload, mac |-> mac])

-----------------------------------------------------------------------------
(* Transactions.                                                           *)

(* Rows a body writes, by id; None deletes one.                            *)
NoWrites == [records |-> <<>>, runs |-> <<>>, retention |-> <<>>]

Overlaid(table, rows) ==
  [k \in DOMAIN table |-> IF k \in DOMAIN rows THEN rows[k] ELSE table[k]]
Written(s, w) == [records   |-> Overlaid(s.records, w.records),
                  runs      |-> Overlaid(s.runs, w.runs),
                  retention |-> Overlaid(s.retention, w.retention)]

(* Fault: the age of a run is that of its first version.                   *)
DatedOnce(before, body, r) ==
  body.runs[r] \notin {None, before.runs[r]} /\ body.retention[r] = None

Dated(before, body, r) == body.runs[r] \notin {None, before.runs[r]}

(* Fault: the bookkeeping replaces the row, and with it the hold.          *)
Replaced(before, body) ==
  [body EXCEPT !.retention =
     [r \in Runs |-> IF Dated(before, body, r) THEN [stored |-> clock, held |-> FALSE]
                     ELSE body.retention[r]]]

(* A run that was added or altered is as old as this transaction; a hold   *)
(* on it stays.                                                            *)
Bookkept(before, body) ==
  [body EXCEPT !.retention =
     [r \in Runs |->
        IF Dated(before, body, r)
        THEN [stored |-> clock,
              held   |-> body.retention[r] # None /\ body.retention[r].held]
        ELSE body.retention[r]]]

(* Fault: the lock is only taken by the first write.                       *)
LateLock(c) == UNCHANGED lock

(* BEGIN IMMEDIATE *)
Locks(c) == lock = None /\ lock' = c

Begin(c) ==
  /\ tx[c].phase = "idle" /\ Locks(c) /\ Verified
  /\ tx' = [tx EXCEPT ![c] = [phase |-> "open", before |-> state, head |-> HeadOf]]
  /\ UNCHANGED <<database, exporting, plans, receipts, clock, anchors, honest, outside>>

Release(c, phase) ==
  /\ lock' = IF lock = c THEN None ELSE lock
  /\ tx' = [tx EXCEPT ![c] = NoTx(phase)]

(* History: the same writes on what signed operations made of the tables   *)
(* by the end of this ledger.                                              *)
HonestlyWritten(w) ==
  LET base == honest[Len(ledger)]
  IN  honest' = Append(SubSeq(honest, 1, Len(ledger)), Bookkept(base, Written(base, w)))

(* Faults: what is certified, or listed, is the state before the           *)
(* bookkeeping.                                                            *)
EarlyState(before, body)   == body
EarlyChanges(before, body) == Changes(before, body)

Certified(before, body) == Bookkept(before, body)
Listed(before, body)    == Changes(before, Bookkept(before, body))

(* __exit__ after a body that wrote w: bookkeeping, one entry if anything  *)
(* changed or an event was set, commit.                                    *)
Exit(c, w, event) ==
  LET before == tx[c].before
      body   == Written(state, w)
  IN  /\ tx[c].phase = "open"
      /\ state' = Bookkept(before, body)
      /\ IF Listed(before, body) # {} \/ event # None
         THEN /\ Appends(tx[c].head, Certified(before, body), Listed(before, body),
                         IF event = None THEN "state_change" ELSE event)
              /\ HonestlyWritten(w)
         ELSE UNCHANGED <<ledger, signed, honest>>
      /\ Release(c, "idle")

(* An exception in the body or the exit, or the death of the process:      *)
(* nothing was written.                                                    *)
Fail(c) ==
  /\ tx[c].phase = "open" \/ exporting[c] # None
  /\ \E phase \in {"idle", "off"} : Release(c, phase)
  /\ exporting' = [exporting EXCEPT ![c] = None]
  /\ UNCHANGED <<database, plans, receipts, clock, anchors, honest, outside>>

(* Fault: whatever is there is certified.                                  *)
Anything == TRUE

Enrollable == state = Empty

(* The constructor: a store without a ledger is enrolled if it is empty,   *)
(* one with a ledger is verified.                                          *)
Start(c) ==
  /\ tx[c].phase = "off" /\ lock = None
  /\ IF ledger = <<>>
     THEN /\ Enrollable
          /\ Appends(NoHead, state, {}, "genesis")
          /\ honest' = <<Empty>>
     ELSE Verified /\ UNCHANGED <<ledger, signed, honest>>
  /\ tx' = [tx EXCEPT ![c] = NoTx("idle")]
  /\ UNCHANGED <<state, lock, exporting, plans, receipts, clock, anchors, outside>>

-----------------------------------------------------------------------------
(* Operations of a signed repository.                                      *)

Idle(c)  == tx[c].phase = "open" /\ exporting[c] = None
Keeping  == UNCHANGED <<exporting, plans, receipts, clock, anchors, outside>>
OneRow(key, row) == [k \in {key} |-> row]

(* An incident, alert, feedback or runtime-state row is put or deleted.    *)
PutRecord(c) ==
  /\ Idle(c)
  /\ \E i \in Items, v \in Values \cup {None} :
       Exit(c, [NoWrites EXCEPT !.records = OneRow(i, v)], None)
  /\ Keeping

SaveAnalysisRun(c) ==
  /\ Idle(c)
  /\ \E r \in Runs, report \in Reports :
       Exit(c, [NoWrites EXCEPT !.runs = OneRow(r, report)], None)
  /\ Keeping

(* A run and the incidents and alerts it found, in one transaction.        *)
ProjectAnalysisRun(c) ==
  /\ Idle(c)
  /\ \E r \in Runs, report \in Reports, i \in Items, v \in Values :
       Exit(c, [NoWrites EXCEPT !.runs = OneRow(r, report), !.records = OneRow(i, v)],
            None)
  /\ Keeping

(* Fault: a hold is stored as it was sent.                                 *)
SentHolds == BOOLEAN \cup {None}

Holds == BOOLEAN

SetRetentionHold(c) ==
  /\ Idle(c)
  /\ \E r \in {q \in Runs : state.runs[q] # None}, held \in Holds :
       Exit(c, [NoWrites EXCEPT !.retention =
                  IF state.retention[r] = None THEN <<>>
                  ELSE OneRow(r, [state.retention[r] EXCEPT !.held = held])],
            "retention_hold")
  /\ Keeping

Expendable(s, before) ==
  {r \in Runs : /\ s.runs[r] \in Completed /\ s.retention[r] # None
                /\ ~s.retention[r].held /\ s.retention[r].stored < before}

(* _retention_plan: the first of them by id, bound to the verified head.   *)
PlanFor(c, before) ==
  LET all == Expendable(state, before)
  IN  [before |-> before, head |-> tx[c].head.mac,
       runs   |-> {r \in all : Cardinality({q \in all : q < r}) < PlanLimit}]

PreviewRetention(c) ==
  /\ Idle(c)
  /\ Cardinality(plans) < MaxPlans
  /\ \E before \in 1 .. clock : plans' = plans \cup {PlanFor(c, before)}
  /\ Exit(c, NoWrites, None)
  /\ UNCHANGED <<exporting, receipts, clock, anchors, outside>>

DeleteRuns(plan) ==
  LET gone == [r \in plan.runs |-> None]
  IN  [NoWrites EXCEPT !.runs = gone, !.retention = gone]

(* Fault: plans are compared by what they delete, not by their head.       *)
SameRuns(c, plan) == plan.runs = PlanFor(c, plan.before).runs

SamePlan(c, plan) == plan = PlanFor(c, plan.before)

(* A previewed plan is applied if it is still the plan for its cutoff.     *)
ApplyRetention(c) ==
  /\ Idle(c)
  /\ \E plan \in plans :
       /\ SamePlan(c, plan)
       /\ Exit(c, DeleteRuns(plan), "retention_applied")
  /\ Keeping

(* Fault: the export is not written to the ledger.                         *)
NoEvent(digest) == None

ExportEvent(digest) == digest

(* sign_export is two transactions: the event ...                          *)
RecordExport(c) ==
  /\ Idle(c)
  /\ \E digest \in Exports :
       /\ Exit(c, NoWrites, ExportEvent(digest))
       /\ exporting' = [exporting EXCEPT ![c] = digest]
  /\ UNCHANGED <<plans, receipts, clock, anchors, outside>>

(* ... and the head that the receipt quotes.                               *)
IssueReceipt(c) ==
  /\ tx[c].phase = "open" /\ exporting[c] # None
  /\ receipts' = receipts \cup {[digest |-> exporting[c], head |-> tx[c].head]}
  /\ exporting' = [exporting EXCEPT ![c] = None]
  /\ Exit(c, NoWrites, None)
  /\ UNCHANGED <<plans, clock, anchors, outside>>

ThisImage == [state |-> state, ledger |-> ledger, honest |-> honest]

(* verify_evidence: a verified head is kept outside the file ...           *)
RetainHead(c) ==
  /\ Idle(c)
  /\ \E k \in Keepers :
       anchors' = [anchors EXCEPT ![k] = [head |-> tx[c].head, image |-> ThisImage]]
  /\ Exit(c, NoWrites, None)
  /\ UNCHANGED <<exporting, plans, receipts, clock, outside>>

(* Fault: only the number of entries is compared.                          *)
SameLength(expected) == HeadOf.sequence = expected.sequence

(* ... and a later one is compared with it.                                *)
MatchesHead(expected) == HeadOf = expected

-----------------------------------------------------------------------------
(* Everything else that reaches the file.                                  *)

Tick ==
  /\ clock < MaxClock /\ clock' = clock + 1
  /\ UNCHANGED <<database, lock, tx, exporting, plans, receipts, anchors, honest,
                 outside>>

Elsewhere == UNCHANGED <<signed, lock, tx, exporting, plans, receipts, clock, anchors>>

(* An unsigned repository refuses a file that has a ledger ...             *)
OpenUnsigned(u) ==
  /\ u \notin unsigned /\ ledger = <<>>
  /\ unsigned' = unsigned \cup {u}
  /\ UNCHANGED <<state, ledger, honest, saved, strays, edits>> /\ Elsewhere

(* ... when it opens it: it writes without a ledger ever after.            *)
UnsignedWrite(u) ==
  /\ u \in unsigned /\ lock = None /\ strays < MaxStrays
  /\ strays' = strays + 1
  /\ \/ \E i \in Items, v \in Values \cup {None} : state' = [state EXCEPT !.records[i] = v]
     \/ \E r \in Runs, report \in Reports : state' = [state EXCEPT !.runs[r] = report]
  /\ UNCHANGED <<ledger, honest, unsigned, saved, edits>> /\ Elsewhere

Editing == lock = None /\ edits < MaxEdits /\ edits' = edits + 1

SaveCopy ==
  /\ saved = None /\ edits < MaxEdits
  /\ saved' = ThisImage
  /\ UNCHANGED <<state, ledger, honest, unsigned, strays, edits>> /\ Elsewhere

PutBack ==
  /\ saved # None /\ Editing
  /\ state' = saved.state /\ ledger' = saved.ledger /\ honest' = saved.honest
  /\ UNCHANGED <<unsigned, saved, strays>> /\ Elsewhere

DropEntry ==
  /\ ledger # <<>> /\ Editing
  /\ ledger' = SubSeq(ledger, 1, Len(ledger) - 1)
  /\ UNCHANGED <<state, honest, unsigned, saved, strays>> /\ Elsewhere

EditRow ==
  /\ Editing
  /\ \/ \E i \in Items, v \in Values \cup {None} : state' = [state EXCEPT !.records[i] = v]
     \/ \E r \in Runs : state' = [state EXCEPT !.runs[r] = None]
     \/ \E r \in {q \in Runs : state.retention[q] # None} :
          state' = [state EXCEPT !.retention[r].held = ~@]
  /\ UNCHANGED <<ledger, honest, unsigned, saved, strays>> /\ Elsewhere

Operation(c) ==
  \/ PutRecord(c) \/ SaveAnalysisRun(c) \/ ProjectAnalysisRun(c)
  \/ SetRetentionHold(c) \/ PreviewRetention(c) \/ ApplyRetention(c)
  \/ RecordExport(c) \/ IssueReceipt(c) \/ RetainHead(c)

Next ==
  \/ \E c \in Requests : Start(c) \/ Begin(c) \/ Operation(c) \/ Fail(c)
  \/ \E u \in Outsiders : OpenUnsigned(u) \/ UnsignedWrite(u)
  \/ Tick
  \/ SaveCopy \/ PutBack \/ DropEntry \/ EditRow

Spec == Init /\ [][Next]_vars

-----------------------------------------------------------------------------
(* Properties.                                                             *)

(* What a transaction photographed and verified when it began is still     *)
(* what the file holds when its body reads and its exit signs              *)
(* (_AuditedConnection.__enter__ to __exit__): no other request, unsigned  *)
(* process or edit comes between.                                          *)
SnapshotCurrent ==
  \A c \in Requests : tx[c].phase = "open" => tx[c].before = state /\ tx[c].head = HeadOf

(* Legal operations alone, in any order and wherever they fail or die,     *)
(* never leave a store that its own verification refuses: every later      *)
(* operation begins with that verification.                                *)
NeverLockedOut == (edits = 0 /\ strays = 0 /\ ledger # <<>>) => Verified

(* The changes signed in each entry of a store that verifies are exactly   *)
(* the rows in which the state it certifies differs from the one before,   *)
(* trusted bookkeeping included.                                           *)
LedgerExplains ==
  Verified =>
    \A n \in 2 .. Len(ledger) :
      ledger[n].payload.changes =
        Changes(ledger[n - 1].payload.state, ledger[n].payload.state)

(* A store that verifies holds what signed operations made of it: neither  *)
(* enrolment nor a later transaction certifies rows that an unsigned       *)
(* process or an edit of the file put there.                               *)
NothingSilentlyCertified == Verified => state = honest[Len(ledger)]

(* A store that verifies and still has the head retained outside the file  *)
(* holds what it held then, entry for entry, whatever was done to the file *)
(* and however it went on from there.                                      *)
AnchorFaithful ==
  \A k \in Keepers :
    (Verified /\ anchors[k] # None /\ MatchesHead(anchors[k].head))
      => state = anchors[k].image.state /\ ledger = anchors[k].image.ledger

(* The entry that last changed a run in this ledger.                       *)
LastChange(r) ==
  CHOOSE n \in DOMAIN ledger :
    /\ \E x \in ledger[n].payload.changes : x.table = "runs" /\ x.id = r
    /\ \A m \in n + 1 .. Len(ledger) :
         \A x \in ledger[m].payload.changes : x.table # "runs" \/ x.id # r

(* In a store that verifies, retention follows the runs row for row, and a *)
(* run is as old as the entry that last changed it: changing a report      *)
(* makes it young again, and nothing else does.                            *)
RetentionAccounts ==
  Verified =>
    \A r \in Runs :
      /\ (state.runs[r] = None) <=> (state.retention[r] = None)
      /\ state.runs[r] # None =>
           state.retention[r].stored = ledger[LastChange(r)].payload.time

(* Without an edit of the file a run disappears only by applying a plan    *)
(* that was previewed on this very state, and only if the run was          *)
(* completed, not held and stored before the plan's cutoff.                *)
RetentionBinding ==
  [][\A r \in Runs :
       (edits' = edits /\ state.runs[r] # None /\ state'.runs[r] = None) =>
         \E plan \in plans :
           /\ r \in plan.runs /\ r \in Expendable(state, plan.before)
           /\ signed[plan.head].state = state
           /\ ledger[Len(ledger)].mac = plan.head]_vars

(* The head a receipt quotes is an entry of this ledger, and the export    *)
(* the receipt is for was recorded at or before it, whatever other         *)
(* requests signed between the two transactions of sign_export.            *)
ReceiptBacked ==
  edits = 0 =>
    \A receipt \in receipts :
      /\ receipt.head.sequence \in DOMAIN ledger
      /\ ledger[receipt.head.sequence].mac = receipt.head.mac
      /\ \E n \in 1 .. receipt.head.sequence : ledger[n].payload.event = receipt.digest

(* What the store shows: its tables, and each entry of its ledger as a     *)
(* dated, named change with the state it certifies.                        *)
Shown(entries) ==
  [n \in DOMAIN entries |-> [event  |-> entries[n].payload.event,
                             time   |-> entries[n].payload.time,
                             tables |-> entries[n].payload.state]]

Serial == INSTANCE SerialEvidence WITH tables <- state, log <- Shown(ledger), now <- clock

(* As long as nobody edits the file, the requests of any number of signed  *)
(* repositories, wherever they fail or die between their lock and their    *)
(* commit, are what one serial store does one whole operation at a time.   *)
SerialStore == Serial!Spec
=============================================================================
