------------------------- MODULE ContinuousIngestion -------------------------
(***************************************************************************)
(* The restartable JSONL follower (ContinuousIngestor) with everything it  *)
(* shares with others: the source file a producer appends to, the SQLite   *)
(* checkpoint (meta row, journal, report snapshot) and its lifetime lock,  *)
(* and the analyst store it projects reports into.                         *)
(*                                                                         *)
(* Each worker is a process that may crash, be interrupted or meet a       *)
(* storage or delivery error between any two steps; a crash loses its      *)
(* memory and releases the lock, an error makes it unusable until it is    *)
(* closed.  A step is one action per await-free piece of the code between  *)
(* two points at which another actor can see or change shared state.       *)
(***************************************************************************)
EXTENDS StreamPolicy, FiniteSets

CONSTANTS
  Workers,           (* processes started on this checkpoint               *)
  Contracts,         (* engine, profile, model, policy and limits, as one  *)
  BatchRecords,      (* StreamLimits.batch_records                         *)
  MaxLineBytes,      (* StreamLimits.max_line_bytes                        *)
  MaxRecords,        (* StreamLimits.max_journal_records                   *)
  MaxBytes,          (* StreamLimits.max_journal_bytes                     *)
  AtomicProjection,  (* the repository has project_analysis_run            *)
  LiveEdits,         (* outsiders may edit the journal of a live worker    *)
  MaxSource,         (* bound: lines the producer writes                   *)
  MaxFaults,         (* bound: crashes, interrupts and storage errors      *)
  MaxEdits           (* bound: outside changes to the source or journal    *)

(* StreamLimits.__post_init__ accepts positive integers only.              *)
ASSUME LimitsAssumption ==
  /\ BatchRecords \in Nat \ {0} /\ MaxLineBytes \in Nat \ {0}
  /\ MaxRecords \in Nat \ {0} /\ MaxBytes \in Nat \ {0}
ASSUME ModesAssumption ==
  /\ AtomicProjection \in BOOLEAN /\ LiveEdits \in BOOLEAN
  /\ None \notin Contracts /\ None \notin Workers
ASSUME BoundsAssumption ==
  MaxSource \in Nat /\ MaxFaults \in Nat /\ MaxEdits \in Nat

VARIABLES
  source,    (* complete lines of the pinned file                          *)
  tail,      (* the file ends in a fragment without its newline            *)
  rotated,   (* the path no longer names the pinned file                   *)
  owner,     (* who holds the lifetime lock                                *)
  meta,      (* stream_meta                                                *)
  journal,   (* stream_records                                             *)
  snapshot,  (* stream_snapshot                                            *)
  pc,        (* each worker's next step                                    *)
  ram,       (* each worker's memory                                       *)
  job,       (* each worker's locals of the poll or delivery under way     *)
  evidence,  (* analyst store: accepted lines its alerts come from         *)
  run,       (* analyst store: this stream's analysis_runs row             *)
  faults, edits,
  frozen     (* history: most lines the journal may reach once the source  *)
             (* no longer matches, -1 before any outside change            *)

file       == <<source, tail, rotated>>
checkpoint == <<meta, journal, snapshot>>
store      == <<evidence, run>>
bounds     == <<faults, edits, frozen>>
vars == <<source, tail, rotated, owner, meta, journal, snapshot, pc, ram, job,
          evidence, run, faults, edits, frozen>>

-----------------------------------------------------------------------------
(* Shapes.                                                                 *)

Statuses == {"none", "following", "awaiting_partial_line",
             "capacity_reached", "failed"}

(* A report, reduced to what it commits to.                                *)
Report == [lines : Nat, evidence : Seq(Nat), status : Statuses,
           contract : Contracts \cup {None}]
NoReport == [lines |-> 0, evidence |-> <<>>, status |-> "none",
             contract |-> None]

Meta == [contract : Contracts \cup {None}, lines : Nat, offset : Nat,
         prefix : Seq(Lines), highwater : Nat, batches : Nat]
NoMeta == [contract |-> None, lines |-> 0, offset |-> 0, prefix |-> <<>>,
           highwater |-> 0, batches |-> 0]

Entry == [raw : Lines, outcome : Outcomes]

(* What follows a delivery: the rest of the poll, or nothing more.         *)
Continuations == {"verify", "ready"}

Job == [contract : Contracts \cup {None}, cont : Continuations,
        outbox : Report, queue : Seq(Lines), room : Int, horizon : Nat,
        fragment : BOOLEAN, state : Statuses, tx : Seq(Entry)]
NoJob == [contract |-> None, cont |-> "ready", outbox |-> NoReport,
          queue |-> <<>>, room |-> 0, horizon |-> 0, fragment |-> FALSE,
          state |-> "none", tx |-> <<>>]

Phases == {"down", "recover", "outbox", "deliver", "save", "ready", "verify",
           "read", "consume", "failed"}

TypeOK ==
  /\ source \in Seq(Lines) /\ tail \in BOOLEAN /\ rotated \in BOOLEAN
  /\ owner \in Workers \cup {None}
  /\ meta \in Meta
  /\ journal \in Seq(Entry)
  /\ snapshot \in Report
  /\ pc \in [Workers -> Phases]
  /\ ram \in [Workers -> Memory]
  /\ job \in [Workers -> Job]
  /\ evidence \in SUBSET Nat
  /\ run \in Report
  /\ faults \in 0 .. MaxFaults /\ edits \in 0 .. MaxEdits
  /\ frozen \in Nat \cup {-1}

Running(w) == pc[w] # "down"

Init ==
  /\ source = <<>> /\ tail = FALSE /\ rotated = FALSE
  /\ owner = None
  /\ meta = NoMeta /\ journal = <<>> /\ snapshot = NoReport
  /\ pc = [w \in Workers |-> "down"]
  /\ ram = [w \in Workers |-> FreshMemory]
  /\ job = [w \in Workers |-> NoJob]
  /\ evidence = {} /\ run = NoReport
  /\ faults = 0 /\ edits = 0 /\ frozen = -1

-----------------------------------------------------------------------------
(* Opening a checkpoint: the constructor.                                  *)

(* _verify_source: the path still names the pinned file, and that file     *)
(* still starts with the lines already committed.                          *)
SourceMatches(prefix) ==
  /\ ~ rotated
  /\ Len(prefix) <= Len(source)
  /\ SubSeq(source, 1, Len(prefix)) = prefix

(* Fault: the lock is not looked at.                                       *)
UnlockedStart(w, c) ==
  /\ pc[w] = "down"
  /\ owner' = w
  /\ ram' = [ram EXCEPT ![w] = FreshMemory]
  /\ job' = [job EXCEPT ![w] = [NoJob EXCEPT !.contract = c]]
  /\ \/ /\ meta.contract = None /\ ~ rotated
        /\ meta' = [NoMeta EXCEPT !.contract = c]
        /\ pc' = [pc EXCEPT ![w] = "outbox"]
     \/ /\ meta.contract = c /\ SourceMatches(meta.prefix)
        /\ pc' = [pc EXCEPT ![w] = "recover"]
        /\ UNCHANGED meta
  /\ UNCHANGED <<file, journal, snapshot, store, bounds>>

(* Fault: an existing checkpoint is resumed under whatever contract.       *)
AnyContractStart(w, c) ==
  /\ pc[w] = "down" /\ owner = None
  /\ owner' = w
  /\ ram' = [ram EXCEPT ![w] = FreshMemory]
  /\ job' = [job EXCEPT ![w] = [NoJob EXCEPT !.contract = c]]
  /\ meta' = [meta EXCEPT !.contract = c]
  /\ pc' = [pc EXCEPT ![w] = IF meta.contract = None THEN "outbox" ELSE "recover"]
  /\ UNCHANGED <<file, journal, snapshot, store, bounds>>

(* The lock is taken first; then the source is opened.  A checkpoint       *)
(* without a meta row is given one, pinning this worker's contract; one    *)
(* with a row must agree with it and with the source.  A refusal closes    *)
(* what was opened and changes nothing.                                    *)
Start(w, c) ==
  /\ pc[w] = "down" /\ owner = None
  /\ owner' = w
  /\ ram' = [ram EXCEPT ![w] = FreshMemory]
  /\ job' = [job EXCEPT ![w] = [NoJob EXCEPT !.contract = c]]
  /\ \/ /\ meta.contract = None /\ ~ rotated
        /\ meta' = [NoMeta EXCEPT !.contract = c]
        /\ pc' = [pc EXCEPT ![w] = "outbox"]
     \/ /\ meta.contract = c /\ SourceMatches(meta.prefix)
        /\ pc' = [pc EXCEPT ![w] = "recover"]
        /\ UNCHANGED meta
  /\ UNCHANGED <<file, journal, snapshot, store, bounds>>

(* Fault: the stored outcome is not compared.                              *)
UncheckedRowReplays(w) ==
  LET n == Len(ram[w].digest) + 1
  IN  /\ n <= Len(journal)
      /\ n <= MaxRecords /\ journal[n].raw.size <= MaxLineBytes
      /\ ~ SessionRefuses(ram[w], journal[n].raw)

(* The next journal row replays to the outcome it was stored with.         *)
RowReplays(w) ==
  LET n == Len(ram[w].digest) + 1
  IN  /\ n <= Len(journal)
      /\ n <= MaxRecords /\ journal[n].raw.size <= MaxLineBytes
      /\ Outcome(ram[w], journal[n].raw) = journal[n].outcome
      /\ ~ SessionRefuses(ram[w], journal[n].raw)

(* Every row replayed, and position, hash and findings agree with what the *)
(* checkpoint says.  The findings are compared only when there are lines.  *)
ReplayComplete(w) ==
  /\ Len(ram[w].digest) = Len(journal)
  /\ ram[w].offset = meta.offset /\ Len(ram[w].digest) = meta.lines
  /\ ram[w].offset <= MaxBytes
  /\ ram[w].digest = meta.prefix
  /\ meta.lines > 0 => /\ snapshot # NoReport
                       /\ snapshot.evidence = ram[w].session

(* Fault: the high-water mark restarts with the process.                   *)
ForgetfulRecoverRow(w) ==
  /\ pc[w] = "recover" /\ RowReplays(w)
  /\ ram' = [ram EXCEPT ![w] = [Absorb(ram[w], journal[Len(ram[w].digest) + 1].raw)
                                EXCEPT !.latest = NoTime]]
  /\ UNCHANGED <<file, owner, checkpoint, pc, job, store, bounds>>

RecoverRow(w) ==
  /\ pc[w] = "recover" /\ RowReplays(w)
  /\ ram' = [ram EXCEPT ![w] = Absorb(ram[w], journal[Len(ram[w].digest) + 1].raw)]
  /\ UNCHANGED <<file, owner, checkpoint, pc, job, store, bounds>>

FinishRecovery(w) ==
  /\ pc[w] = "recover" /\ ReplayComplete(w)
  /\ pc' = [pc EXCEPT ![w] = "outbox"]
  /\ UNCHANGED <<file, owner, checkpoint, ram, job, store, bounds>>

(* The process ends: its memory and open transaction are gone and the lock *)
(* is released.                                                            *)
Ends(w) ==
  /\ pc' = [pc EXCEPT ![w] = "down"]
  /\ owner' = None
  /\ ram' = [ram EXCEPT ![w] = FreshMemory]
  /\ job' = [job EXCEPT ![w] = NoJob]
  /\ UNCHANGED <<file, checkpoint, store>>

(* Recovery stops the constructor; the journal is left as it is.           *)
RefuseJournal(w) ==
  /\ pc[w] = "recover" /\ ~ RowReplays(w) /\ ~ ReplayComplete(w)
  /\ Ends(w)
  /\ UNCHANGED bounds

-----------------------------------------------------------------------------
(* Delivery: _publish, called by the constructor and at both ends of poll. *)

ReadOutbox(w) ==
  /\ pc[w] = "outbox"
  /\ IF snapshot = NoReport
     THEN /\ pc' = [pc EXCEPT ![w] = job[w].cont]
          /\ UNCHANGED job
     ELSE /\ pc' = [pc EXCEPT ![w] = "deliver"]
          /\ job' = [job EXCEPT ![w].outbox = snapshot]
  /\ UNCHANGED <<file, owner, checkpoint, ram, store, bounds>>

(* The rows a report's alerts and incidents upsert; none is ever deleted.  *)
EvidenceOf(report) == {report.evidence[i] : i \in DOMAIN report.evidence}

(* A worker between deliveries and polls: locals no longer in use hold     *)
(* their initial value, here and after EndRead.                            *)
Idle(w) == [NoJob EXCEPT !.contract = job[w].contract, !.cont = job[w].cont,
                         !.state = job[w].state]

(* Fault: the run is saved before its findings.                            *)
RunFirstDeliver(w) ==
  /\ pc[w] = "deliver"
  /\ run' = job[w].outbox
  /\ pc' = [pc EXCEPT ![w] = "save"]
  /\ UNCHANGED <<file, owner, checkpoint, ram, job, evidence, bounds>>

(* project_analysis_run writes evidence and run in one transaction; the    *)
(* fallback for other repositories, import_records then save_analysis_run, *)
(* is two.                                                                 *)
Deliver(w) ==
  /\ pc[w] = "deliver"
  /\ evidence' = evidence \cup EvidenceOf(job[w].outbox)
  /\ IF AtomicProjection
     THEN /\ run' = job[w].outbox
          /\ pc' = [pc EXCEPT ![w] = job[w].cont]
          /\ job' = [job EXCEPT ![w] = Idle(w)]
     ELSE /\ pc' = [pc EXCEPT ![w] = "save"]
          /\ UNCHANGED <<run, job>>
  /\ UNCHANGED <<file, owner, checkpoint, ram, bounds>>

SaveRun(w) ==
  /\ pc[w] = "save"
  /\ run' = job[w].outbox
  /\ pc' = [pc EXCEPT ![w] = job[w].cont]
  /\ job' = [job EXCEPT ![w] = Idle(w)]
  /\ UNCHANGED <<file, owner, checkpoint, ram, evidence, bounds>>

-----------------------------------------------------------------------------
(* poll.                                                                   *)

(* Only a worker that is neither closed nor failed polls; the outbox of    *)
(* the last poll goes first.                                               *)
BeginPoll(w) ==
  /\ pc[w] = "ready"
  /\ pc' = [pc EXCEPT ![w] = "outbox"]
  /\ job' = [job EXCEPT ![w].cont = "verify"]
  /\ UNCHANGED <<file, owner, checkpoint, ram, store, bounds>>

(* Fault: the prefix is checked at start-up only.                          *)
TrustingVerify(w) ==
  /\ pc[w] = "verify"
  /\ pc' = [pc EXCEPT ![w] = "read"]
  /\ job' = [job EXCEPT ![w].room = MaxBytes - ram[w].offset,
                        ![w].horizon = Len(source), ![w].fragment = tail]
  /\ UNCHANGED <<file, owner, checkpoint, ram, store, bounds>>

(* The committed prefix is checked, and the file's size is taken: what is  *)
(* written after this moment is left for the next poll.                    *)
Verify(w) ==
  /\ pc[w] = "verify" /\ SourceMatches(ram[w].digest)
  /\ pc' = [pc EXCEPT ![w] = "read"]
  /\ job' = [job EXCEPT ![w].room = MaxBytes - ram[w].offset,
                        ![w].horizon = Len(source), ![w].fragment = tail]
  /\ UNCHANGED <<file, owner, checkpoint, ram, store, bounds>>

(* Where the next line read stands in the file.                            *)
Position(w) == Len(ram[w].digest) + Len(job[w].queue) + 1

(* Fault: a batch may run past the journal's record limit.                 *)
BatchQuota(w) == BatchRecords

Quota(w) == LET left == MaxRecords - Len(ram[w].digest)
            IN  IF left < BatchRecords THEN left ELSE BatchRecords

(* The loop of poll goes on, with bytes pending.                           *)
Reading(w) ==
  /\ pc[w] = "read" /\ Len(job[w].queue) < Quota(w)
  /\ Position(w) <= job[w].horizon \/ job[w].fragment

(* Fault: off by one at the end of the file.                               *)
EarlyLineReady(w) == Position(w) < job[w].horizon /\ Position(w) <= Len(source)

(* A complete line is there to read.                                       *)
LineReady(w) == Position(w) <= job[w].horizon /\ Position(w) <= Len(source)

TooLong(w)   == LineReady(w) /\ source[Position(w)].size > MaxLineBytes
OverBudget(w) == LineReady(w) /\ source[Position(w)].size > job[w].room

ReadLine(w) ==
  /\ Reading(w) /\ LineReady(w) /\ ~ TooLong(w) /\ ~ OverBudget(w)
  /\ LET line == source[Position(w)]
     IN  job' = [job EXCEPT ![w].queue = Append(@, line),
                            ![w].room = @ - line.size]
  /\ UNCHANGED <<file, owner, checkpoint, pc, ram, store, bounds>>

(* Fault: a status no reader of the report knows.                          *)
UnknownBatchStatus(w) == IF Reading(w) THEN "reading" ELSE "following"

(* The status the batch is reported with.                                  *)
BatchStatus(w) ==
  LET pending == Position(w) <= job[w].horizon \/ job[w].fragment
  IN  IF pending /\ Position(w) > MaxRecords THEN "capacity_reached"
      ELSE IF ~ Reading(w) THEN "following"
      ELSE IF LineReady(w) THEN "capacity_reached"
      ELSE "awaiting_partial_line"

EndRead(w) ==
  /\ pc[w] = "read"
  /\ Reading(w) => ~ LineReady(w) \/ (OverBudget(w) /\ ~ TooLong(w))
  /\ pc' = [pc EXCEPT ![w] = "consume"]
  /\ job' = [job EXCEPT ![w] = [Idle(w) EXCEPT !.queue = job[w].queue,
                                              !.state = BatchStatus(w)]]
  /\ UNCHANGED <<file, owner, checkpoint, ram, store, bounds>>

(* No journal row starts where this one would: start_offset is the key.    *)
RowFree(w) == Len(journal) + Len(job[w].tx) = Len(ram[w].digest)

(* One line of the batch, inside the open transaction: memory moves on,    *)
(* the row is inserted but not committed.                                  *)
ConsumeLine(w) ==
  /\ pc[w] = "consume" /\ job[w].queue # <<>>
  /\ LET line == Head(job[w].queue)
     IN  /\ ~ SessionRefuses(ram[w], line) /\ RowFree(w)
         /\ job' = [job EXCEPT
              ![w].queue = Tail(@),
              ![w].tx = Append(@, [raw |-> line, outcome |-> Outcome(ram[w], line)])]
         /\ ram' = [ram EXCEPT ![w] = Absorb(ram[w], line)]
  /\ UNCHANGED <<file, owner, checkpoint, pc, store, bounds>>

Larger(a, b) == IF a > b THEN a ELSE b

(* Rows, checkpoint and report become durable together; then deliver.      *)
Commit(w) ==
  /\ pc[w] = "consume" /\ job[w].queue = <<>>
  /\ journal' = journal \o job[w].tx
  /\ meta' = [contract  |-> meta.contract,
              lines     |-> Len(ram[w].digest), offset |-> ram[w].offset,
              prefix    |-> ram[w].digest,
              highwater |-> Larger(meta.highwater, Len(job[w].tx)),
              batches   |-> IF job[w].tx = <<>> THEN meta.batches
                            ELSE meta.batches + 1]
  /\ snapshot' = [lines |-> Len(ram[w].digest), evidence |-> ram[w].session,
                  status |-> job[w].state, contract |-> job[w].contract]
  /\ pc' = [pc EXCEPT ![w] = "outbox"]
  /\ job' = [job EXCEPT ![w] = [Idle(w) EXCEPT !.cont = "ready"]]
  /\ UNCHANGED <<file, owner, ram, store, bounds>>

-----------------------------------------------------------------------------
(* What goes wrong.                                                        *)

(* The rest of a poll cannot go on and raises.                             *)
Blocked(w) ==
  \/ pc[w] = "verify" /\ ~ SourceMatches(ram[w].digest)
  \/ Reading(w) /\ TooLong(w)
  \/ /\ pc[w] = "consume" /\ job[w].queue # <<>>
     /\ SessionRefuses(ram[w], Head(job[w].queue)) \/ ~ RowFree(w)

(* A poll is under way; _publish inside the constructor is not one.        *)
InPoll(w) ==
  \/ pc[w] \in {"verify", "read", "consume"}
  \/ pc[w] \in {"outbox", "deliver", "save"}
     /\ (job[w].cont = "verify" \/ job[w].state # "none")

(* Fault: the handler forgets that memory has moved on.                    *)
ForgivingFails(w) ==
  /\ pc' = [pc EXCEPT ![w] = "ready"]
  /\ job' = [job EXCEPT ![w] = Idle(w)]
  /\ UNCHANGED snapshot
  /\ UNCHANGED <<file, owner, meta, journal, ram, store>>

(* Fault: the failed report starts from scratch.                           *)
BlankFails(w) ==
  /\ pc' = [pc EXCEPT ![w] = "failed"]
  /\ job' = [job EXCEPT ![w] = Idle(w)]
  /\ snapshot' = [NoReport EXCEPT !.status = "failed", !.contract = job[w].contract]
  /\ UNCHANGED <<file, owner, meta, journal, ram, store>>

(* poll's handler: the transaction is rolled back, memory is not; the      *)
(* worker is spent.  The committed report is marked failed, unless storage *)
(* refuses that too.                                                       *)
Fails(w) ==
  /\ pc' = [pc EXCEPT ![w] = "failed"]
  /\ job' = [job EXCEPT ![w] = Idle(w)]
  /\ \/ snapshot # NoReport /\ snapshot' = [snapshot EXCEPT !.status = "failed"]
     \/ UNCHANGED snapshot
  /\ UNCHANGED <<file, owner, meta, journal, ram, store>>

StopPoll(w) == Blocked(w) /\ Fails(w) /\ UNCHANGED bounds

(* Outside what the worker's own steps decide: a delivery or storage error *)
(* or Ctrl+C inside a poll, ...                                            *)
PollFault(w) ==
  /\ InPoll(w) /\ faults < MaxFaults
  /\ faults' = faults + 1
  /\ Fails(w) /\ UNCHANGED <<edits, frozen>>

(* ... and the death of the process at any point, an exception in its      *)
(* constructor or an interrupt between polls included.                     *)
Crash(w) ==
  /\ Running(w) /\ faults < MaxFaults
  /\ faults' = faults + 1
  /\ Ends(w) /\ UNCHANGED <<edits, frozen>>

(* run_continuous leaves its with block: a poll raised, or the report it   *)
(* returned says the journal is full.                                      *)
Close(w) ==
  /\ \/ pc[w] = "failed"
     \/ pc[w] = "ready" /\ job[w].state = "capacity_reached"
  /\ Ends(w) /\ UNCHANGED bounds

-----------------------------------------------------------------------------
(* The world outside the worker.                                           *)

WriteFragment ==
  /\ ~ tail /\ ~ rotated /\ tail' = TRUE
  /\ UNCHANGED <<source, rotated, owner, checkpoint, pc, ram, job, store, bounds>>

(* The producer ends a line, the fragment's or a whole one.                *)
WriteLine ==
  /\ Len(source) < MaxSource /\ ~ rotated
  /\ \E line \in Lines : source' = Append(source, line)
  /\ tail' = FALSE
  /\ UNCHANGED <<rotated, owner, checkpoint, pc, ram, job, store, bounds>>

InFlight == \E w \in Workers : pc[w] \in {"read", "consume"}

Outside == /\ edits < MaxEdits /\ edits' = edits + 1
           /\ UNCHANGED <<owner, pc, ram, job, store, faults>>

(* The file stops being append-only: a line is changed, the end is cut off *)
(* or the path is given to another file.                                   *)
DisturbSource ==
  /\ Outside
  /\ \/ /\ \E n \in 1 .. Len(source), line \in Lines :
             source[n] # line /\ source' = [source EXCEPT ![n] = line]
        /\ UNCHANGED <<tail, rotated>>
     \/ /\ \E n \in 0 .. Len(source) - 1 : source' = SubSeq(source, 1, n)
        /\ tail' = FALSE /\ UNCHANGED rotated
     \/ /\ meta.contract # None /\ ~ rotated /\ rotated' = TRUE
        /\ UNCHANGED <<source, tail>>
  /\ frozen' = meta.lines + (IF InFlight THEN BatchRecords ELSE 0)
  /\ UNCHANGED checkpoint

(* A journal row is changed behind the worker's back.                      *)
EditJournal ==
  /\ Outside
  /\ owner = None \/ LiveEdits
  /\ \E n \in 1 .. Len(journal) :
       \/ \E line \in Lines : /\ journal[n].raw # line
                             /\ journal' = [journal EXCEPT ![n].raw = line]
       \/ \E outcome \in {Accepted, Ignored} :
            /\ journal[n].outcome # outcome
            /\ journal' = [journal EXCEPT ![n].outcome = outcome]
  /\ UNCHANGED <<file, meta, snapshot, frozen>>

-----------------------------------------------------------------------------
(* A worker's own steps, in the order of the code.                         *)
Step(w) ==
  \/ RecoverRow(w) \/ FinishRecovery(w) \/ RefuseJournal(w)
  \/ ReadOutbox(w) \/ Deliver(w) \/ SaveRun(w)
  \/ BeginPoll(w) \/ Verify(w) \/ ReadLine(w) \/ EndRead(w)
  \/ ConsumeLine(w) \/ Commit(w) \/ StopPoll(w) \/ Close(w)

Environment == WriteFragment \/ WriteLine \/ DisturbSource \/ EditJournal

Next ==
  \/ \E w \in Workers : Step(w) \/ PollFault(w) \/ Crash(w)
  \/ \E w \in Workers, c \in Contracts : Start(w, c)
  \/ Environment

Spec == Init /\ [][Next]_vars

(* run_continuous polls for as long as its process lives, and a stopped    *)
(* stream is reopened by its operator ("restart from checkpoint").         *)
Fairness ==
  /\ \A w \in Workers : WF_vars(Step(w))
  /\ WF_vars(\E w \in Workers, c \in Contracts : Start(w, c))

FairSpec == Spec /\ Fairness

-----------------------------------------------------------------------------
(* Properties.                                                             *)

(* Past its recovery a worker trusts the journal.                          *)
Serving(w) == pc[w] \notin {"down", "recover"}

(* The journal is the checkpoint's prefix line by line, each line with the *)
(* verdict the policy gives it.                                            *)
JournalIntact ==
  /\ Len(meta.prefix) = meta.lines /\ Len(journal) = meta.lines
  /\ \A n \in 1 .. meta.lines :
       /\ journal[n].raw = meta.prefix[n]
       /\ journal[n].outcome = Verdict(meta.prefix, n)

(* Two processes never work on one checkpoint: whoever runs holds the      *)
(* lifetime lock (__init__ takes it before anything else, close gives it   *)
(* back after everything else).                                            *)
SingleWriter == \A w \in Workers : Running(w) => owner = w

(* Every committed line keeps the disposition and reasons the strict       *)
(* arrival-order policy gives it from the file alone, through crashes,     *)
(* failed polls and replays; and a worker that got past recovery stands on *)
(* such a journal even if it was edited while no worker ran (_recover).    *)
JournalTrustworthy ==
  edits = 0 \/ (\E w \in Workers : Serving(w)) => JournalIntact

(* Recovery is exact: between polls, windows, baselines, cooldowns, keys   *)
(* and the high-water mark are those of an uninterrupted run over the      *)
(* committed prefix ("reconstructed together").                            *)
MemoryIsReplay ==
  \A w \in Workers :
    pc[w] \in {"outbox", "deliver", "save", "ready", "verify", "read"} =>
      ram[w] = Replay(meta.prefix)

(* A consistent journal never makes the constructor give up: each row      *)
(* replays to its stored outcome and the findings come out as committed.   *)
RecoveryNeverStuck ==
  \A w \in Workers :
    pc[w] = "recover" /\ JournalIntact => RowReplays(w) \/ ReplayComplete(w)

(* The policy of _consume feeds the detectors nothing that                 *)
(* AnalysisSession.process would refuse as out of order, and no row meets  *)
(* the primary key of a row already there.                                 *)
SessionNeverRefuses ==
  \A w \in Workers :
    pc[w] = "consume" /\ job[w].queue # <<>> =>
      RowFree(w) /\ ~ SessionRefuses(ram[w], Head(job[w].queue))

(* Backpressure: the source is not read while a committed report is        *)
(* undelivered, so the analyst store is never more than a batch behind.    *)
OutboxBounded ==
  /\ \A w \in Workers : pc[w] \in {"verify", "read", "consume"} => run = snapshot
  /\ snapshot.lines <= run.lines + BatchRecords

(* The analyst store's run is the report of a committed prefix: its        *)
(* findings come from exactly the accepted lines of that prefix, never     *)
(* from memory that was rolled back.                                       *)
RunIsCommitted ==
  /\ run.lines <= meta.lines
  /\ EvidenceOf(run) = AcceptedLines(meta.prefix) \cap (1 .. run.lines)

(* Findings and run are published together when the repository projects    *)
(* atomically; otherwise the run never names findings that are not there.  *)
StoreAgrees ==
  /\ EvidenceOf(run) \subseteq evidence
  /\ evidence \subseteq AcceptedLines(meta.prefix)
  /\ AtomicProjection => evidence = EvidenceOf(run)

(* One engine, profile, model, policy and set of limits made every finding *)
(* of a checkpoint and its report.                                         *)
SingleContract ==
  /\ \A report \in {snapshot, run} :
       report = NoReport \/ (report.contract = meta.contract
                              /\ meta.contract # None)
  /\ \A w \in Workers : Running(w) => job[w].contract = meta.contract

(* The limits hold for what is durable, and the batch accounting adds up.  *)
WithinLimits ==
  /\ meta.lines <= MaxRecords /\ meta.offset <= MaxBytes
  /\ \A n \in 1 .. meta.lines : meta.prefix[n].size <= MaxLineBytes
  /\ meta.batches <= meta.lines /\ meta.lines <= meta.batches * meta.highwater
  /\ meta.highwater <= BatchRecords

(* Once the file no longer starts with what was committed, or the path     *)
(* names another file, at most the poll already reading adds to the        *)
(* journal; every later poll and every reopening stops.                    *)
SourceFrozen == ~ SourceMatches(meta.prefix) => meta.lines <= frozen

(* Delivery repeats but never goes back: no report replaces one of more    *)
(* lines, and no evidence is withdrawn.                                    *)
ViewNeverRegresses ==
  [][run'.lines >= run.lines /\ evidence \subseteq evidence']_store

(* Line n and all before it are written and within the limits.             *)
Takeable(n) ==
  /\ n <= Len(source) /\ n <= MaxRecords
  /\ \A m \in 1 .. n : source[m].size <= MaxLineBytes
  /\ LET bytes[m \in 0 .. n] == IF m = 0 THEN 0 ELSE bytes[m - 1] + source[m].size
     IN  bytes[n] <= MaxBytes

(* No line that could be read in one batch with line n is over-long.       *)
ClearAhead(n) ==
  \A m \in 1 .. Len(source) :
    m < n + BatchRecords => source[m].size <= MaxLineBytes

(* Every complete line within the limits is eventually committed, judged   *)
(* and reflected in the analyst store, whatever was interrupted on the     *)
(* way, as long as the stream is reopened after each stop and no over-long *)
(* line shares a batch with it.                                            *)
EverythingDelivered ==
  \A n \in 1 .. MaxSource :
    <>[](Takeable(n) /\ ClearAhead(n)) => <>(run.lines >= n)

(* Once a committed row is altered nothing more is committed: "Checkpoint  *)
(* or source tampering, truncation or replacement stops processing."       *)
TamperingStops ==
  [][~ JournalIntact => UNCHANGED meta]_checkpoint

(* What a committed stream promises, without processes and memory; as long *)
(* as nobody edits the file or the checkpoint.                             *)
Log == INSTANCE StreamLog WITH log <- journal, view <- run.lines,
                               shown <- EvidenceOf(run)
LogSpec == Log!Spec
=============================================================================
