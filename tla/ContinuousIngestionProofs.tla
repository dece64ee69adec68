---------------------- MODULE ContinuousIngestionProofs ----------------------
(***************************************************************************)
(* The follower is correct for every number of workers, every set of lines *)
(* and contracts and every limit.                                          *)
(*                                                                         *)
(* The inductive invariant is the conjunction of the named parts below:    *)
(* who runs holds the lock, so only one worker's locals matter at a time;  *)
(* its memory stands for the lines it has read (the first section); those  *)
(* lines are the committed prefix, or the prefix and the open batch; and   *)
(* what the analyst store shows is the report of a shorter prefix.         *)
(***************************************************************************)
EXTENDS ContinuousIngestion, SequenceTheorems, TLAPS

-----------------------------------------------------------------------------
(* The follower's memory and the policy over the file agree: what a worker *)
(* decides from its memory is what the file alone says, line by line, for  *)
(* every set of lines, keys and contents.                                  *)

(* The line numbers the detectors were fed.                                *)
Fed(memory) == {memory.session[i] : i \in 1 .. Len(memory.session)}

(* Memory that stands for the lines it has hashed: the keys registered are *)
(* those of its records, each with its first content; the high-water mark  *)
(* is the newest record's time; the detectors were fed the accepted lines. *)
KeysKnown(r) ==
  \A n \in 1 .. Len(r.digest) :
    IsRecord(r.digest[n]) => r.uids[r.digest[n].key] # None

KeysFirst(r) ==
  \A k \in Keys : r.uids[k] # None =>
    \E n \in 1 .. Len(r.digest) :
      /\ IsRecord(r.digest[n]) /\ r.digest[n].key = k
      /\ r.digest[n].body = r.uids[k]
      /\ ~ KeySeen(r.digest, n)

MarkCovers(r) ==
  \A n \in 1 .. Len(r.digest) :
    IsRecord(r.digest[n]) => r.digest[n].time <= r.latest

MarkReached(r) ==
  r.latest # NoTime =>
    \E n \in 1 .. Len(r.digest) :
      IsRecord(r.digest[n]) /\ r.digest[n].time = r.latest

Faithful(r) ==
  /\ r \in Memory
  /\ KeysKnown(r) /\ KeysFirst(r)
  /\ MarkCovers(r) /\ MarkReached(r)
  /\ Fed(r) = AcceptedLines(r.digest)
  /\ r.clock <= r.latest

-----------------------------------------------------------------------------
(* A line has the fields the policy looks at.                              *)
LEMMA LineFields ==
  ASSUME NEW line \in Lines
  PROVE  /\ line.kind \in Kinds /\ line.key \in Keys /\ line.time \in Nat
         /\ line.body \in Bodies /\ line.body # None /\ line.size \in Nat \ {0}
  BY LinesAssumption, NoneAssumption DEF LineSpace

(* The verdict on line n depends on the lines up to n only.                *)
LEMMA VerdictLocal ==
  ASSUME NEW s, NEW t, NEW n \in Nat \ {0},
         \A m \in 1 .. n : s[m] = t[m]
  PROVE  Verdict(s, n) = Verdict(t, n)
  <1>1. ASSUME NEW m \in 1 .. n PROVE KeySeen(s, m) <=> KeySeen(t, m)
    <2>1. s[m] = t[m] /\ \A j \in 1 .. m - 1 : s[j] = t[j]
      OBVIOUS
    <2> QED BY <2>1 DEF KeySeen
  <1>2. s[n] = t[n] /\ \A m \in 1 .. n - 1 : s[m] = t[m] /\ m \in 1 .. n
    OBVIOUS
  <1>3. KeySeen(s, n) <=> KeySeen(t, n)
    BY <1>1
  <1>4. SameAsFirst(s, n) <=> SameAsFirst(t, n)
    BY <1>1, <1>2 DEF SameAsFirst
  <1>5. Overtaken(s, n) <=> Overtaken(t, n)
    BY <1>2 DEF Overtaken
  <1>6. ReasonsAt(s, n) = ReasonsAt(t, n)
    BY <1>2, <1>3, <1>4, <1>5 DEF ReasonsAt
  <1> QED
    BY <1>2, <1>6 DEF Verdict

(* A fresh memory stands for no lines.                                     *)
LEMMA FreshFaithful == Faithful(FreshMemory)
  <1> DEFINE r == FreshMemory
  <1>1. r \in Memory
    BY DEF FreshMemory, Memory, NoTime
  <1>2. r.digest = <<>> /\ r.session = <<>> /\ r.latest = NoTime /\ r.clock = NoTime
        /\ \A k \in Keys : r.uids[k] = None
    BY DEF FreshMemory
  <1>3. KeysKnown(r) /\ KeysFirst(r) /\ MarkCovers(r) /\ MarkReached(r)
    BY <1>2 DEF KeysKnown, KeysFirst, MarkCovers, MarkReached
  <1>4. Fed(r) = AcceptedLines(r.digest)
    BY <1>2 DEF Fed, AcceptedLines
  <1>5. r.clock <= r.latest
    BY <1>2 DEF NoTime
  <1> QED BY <1>1, <1>3, <1>4, <1>5 DEF Faithful

(* What is known of the next line from memory is what the file says of it. *)
LEMMA HeldBackIsReasons ==
  ASSUME NEW r, Faithful(r), NEW line \in Lines, IsRecord(line),
         NEW s, s = Append(r.digest, line), NEW n, n = Len(r.digest) + 1
  PROVE  HeldBack(r, line) = ReasonsAt(s, n)
  <1>1. r.digest \in Seq(Lines) /\ r.latest \in Nat \cup {NoTime}
        /\ r.uids \in [Keys -> Bodies \cup {None}]
    BY DEF Faithful, Memory
  <1>2. /\ n \in Nat \ {0} /\ s[n] = line
        /\ \A m \in 1 .. n - 1 : m \in 1 .. Len(r.digest) /\ s[m] = r.digest[m] /\ r.digest[m] \in Lines
    BY <1>1
  <1>3. line.key \in Keys /\ line.time \in Nat /\ line.body # None
    BY LineFields
  <1>4. KeySeen(s, n) <=> r.uids[line.key] # None
    <2>1. ASSUME KeySeen(s, n) PROVE r.uids[line.key] # None
      BY <2>1, <1>2 DEF KeySeen, Faithful, KeysKnown
    <2>2. ASSUME r.uids[line.key] # None PROVE KeySeen(s, n)
      <3>1. PICK m \in 1 .. Len(r.digest) :
              IsRecord(r.digest[m]) /\ r.digest[m].key = line.key
        BY <2>2, <1>3 DEF Faithful, KeysFirst
      <3>2. m \in 1 .. n - 1
        BY <1>1
      <3> QED BY <3>1, <3>2, <1>2 DEF KeySeen
    <2> QED BY <2>1, <2>2
  <1>5. ASSUME r.uids[line.key] # None
        PROVE  SameAsFirst(s, n) <=> r.uids[line.key] = line.body
    <2>1. PICK m \in 1 .. Len(r.digest) :
            /\ IsRecord(r.digest[m]) /\ r.digest[m].key = line.key
            /\ r.digest[m].body = r.uids[line.key]
            /\ ~ KeySeen(r.digest, m)
      BY <1>5, <1>3 DEF Faithful, KeysFirst
    <2>2. m \in 1 .. n - 1
      BY <1>1
    <2>3. ASSUME NEW j \in 1 .. n - 1
          PROVE  KeySeen(s, j) <=> KeySeen(r.digest, j)
      <3>1. j \in 1 .. n - 1 /\ s[j] = r.digest[j]
        BY <1>2
      <3>2. \A i \in 1 .. j - 1 : i \in 1 .. n - 1
        BY <1>2
      <3>3. \A i \in 1 .. j - 1 : s[i] = r.digest[i]
        BY <1>2, <3>2, Zenon
      <3> QED BY <3>1, <3>3, Zenon DEF KeySeen
    <2>4. \A j \in 1 .. n - 1 :
            IsRecord(s[j]) /\ s[j].key = line.key /\ ~ KeySeen(s, j) => j = m
      <3>1. SUFFICES ASSUME NEW j \in 1 .. n - 1, IsRecord(s[j]),
                            s[j].key = line.key, ~ KeySeen(s, j), j # m
                     PROVE  FALSE
        OBVIOUS
      <3>2. CASE j < m
        <4>1. j \in 1 .. m - 1 /\ IsRecord(r.digest[j]) /\ r.digest[j].key = r.digest[m].key
          BY <3>1, <3>2, <2>1, <1>2
        <4> QED BY <4>1, <2>1 DEF KeySeen
      <3>3. CASE m < j
        <4>1. m \in 1 .. j - 1 /\ IsRecord(s[m]) /\ s[m].key = s[j].key
          BY <3>1, <3>3, <2>1, <2>2, <1>2
        <4> QED BY <4>1, <3>1 DEF KeySeen
      <3> QED BY <3>1, <3>2, <3>3
    <2>5. ASSUME SameAsFirst(s, n) PROVE r.uids[line.key] = line.body
      BY <2>5, <2>4, <2>1, <2>2, <1>2 DEF SameAsFirst
    <2>6. ASSUME r.uids[line.key] = line.body PROVE SameAsFirst(s, n)
      BY <2>6, <2>1, <2>2, <2>3, <1>2 DEF SameAsFirst
    <2> QED BY <2>5, <2>6
  <1>6. Overtaken(s, n) <=> line.time < r.latest
    <2>1. ASSUME Overtaken(s, n) PROVE line.time < r.latest
      <3>1. PICK m \in 1 .. n - 1 : IsRecord(s[m]) /\ s[m].time > line.time
        BY <2>1, <1>2 DEF Overtaken
      <3>2. r.digest[m].time <= r.latest /\ r.digest[m].time > line.time
        BY <3>1, <1>2 DEF Faithful, MarkCovers
      <3>3. r.digest[m].time \in Nat
        BY <1>2, LineFields
      <3> QED BY <3>2, <3>3, <1>1, <1>3 DEF NoTime
    <2>2. ASSUME line.time < r.latest PROVE Overtaken(s, n)
      <3>1. r.latest # NoTime
        BY <2>2, <1>3 DEF NoTime
      <3>2. PICK m \in 1 .. Len(r.digest) :
              IsRecord(r.digest[m]) /\ r.digest[m].time = r.latest
        BY <3>1 DEF Faithful, MarkReached
      <3>3. m \in 1 .. n - 1 /\ s[m].time > s[n].time
        BY <3>2, <2>2, <1>1, <1>2, <1>3 DEF NoTime
      <3> QED BY <3>2, <3>3, <1>2 DEF Overtaken
    <2> QED BY <2>1, <2>2
  <1>7. CASE r.uids[line.key] = None
    BY <1>4, <1>6, <1>7, <1>2 DEF HeldBack, ReasonsAt
  <1>8. CASE r.uids[line.key] # None
    BY <1>4, <1>5, <1>6, <1>8, <1>2 DEF HeldBack, ReasonsAt
  <1> QED BY <1>7, <1>8

(* Consuming a line gives it the verdict the file gives it.                *)
LEMMA OutcomeIsVerdict ==
  ASSUME NEW r, Faithful(r), NEW line \in Lines
  PROVE  Outcome(r, line) = Verdict(Append(r.digest, line), Len(r.digest) + 1)
  <1> DEFINE s == Append(r.digest, line)
             n == Len(r.digest) + 1
  <1>1. s[n] = line
    BY DEF Faithful, Memory
  <1>2. line.kind \in Kinds
    BY LineFields
  <1>3. CASE IsRecord(line)
    <2>1. HeldBack(r, line) = ReasonsAt(s, n)
      BY <1>3, HeldBackIsReasons
    <2> QED BY <1>1, <1>3, <2>1 DEF Outcome, Verdict, IsRecord
  <1>4. CASE ~ IsRecord(line)
    BY <1>1, <1>2, <1>4 DEF Outcome, Verdict, IsRecord, Kinds
  <1> QED BY <1>3, <1>4

(* A record that is accepted is new and not late; nothing else is accepted.*)
LEMMA AcceptedMeans ==
  ASSUME NEW r, NEW line \in Lines, IsAccepted(r, line)
  PROVE  IsRecord(line) /\ ~ (line.time < r.latest) /\ r.uids[line.key] = None
  <1>1. Ignored # Accepted
    BY DEF Ignored, Accepted
  <1>2. \A R : Quarantined(R) # Accepted
    BY DEF Quarantined, Accepted
  <1>3. IsRecord(line) /\ HeldBack(r, line) = {}
    BY <1>1, <1>2, LineFields DEF IsAccepted, Outcome, IsRecord, Kinds
  <1> QED BY <1>3 DEF HeldBack

(* The detectors never refuse a line the policy accepts.                   *)
LEMMA NeverRefused ==
  ASSUME NEW r, Faithful(r), NEW line \in Lines
  PROVE  ~ SessionRefuses(r, line)
  <1>1. SUFFICES ASSUME IsAccepted(r, line), line.time < r.clock PROVE FALSE
    BY DEF SessionRefuses
  <1>2. ~ (line.time < r.latest)
    BY <1>1, AcceptedMeans
  <1>3. line.time \in Int /\ r.clock \in Int /\ r.latest \in Int /\ r.clock <= r.latest
    BY LineFields DEF Faithful, Memory, NoTime
  <1> QED BY <1>1, <1>2, <1>3

LEMMA OutcomeType ==
  ASSUME NEW r, NEW line \in Lines
  PROVE  Outcome(r, line) \in Outcomes
  <1>1. HeldBack(r, line) \in SUBSET Reasons /\ {"malformed"} \in SUBSET Reasons
    BY DEF HeldBack, Reasons
  <1> QED BY <1>1 DEF Outcome, Outcomes

LEMMA AbsorbType ==
  ASSUME NEW r \in Memory, NEW line \in Lines
  PROVE  Absorb(r, line) \in Memory
  <1>1. /\ r.digest \in Seq(Lines) /\ r.offset \in Nat
        /\ r.uids \in [Keys -> Bodies \cup {None}] /\ r.latest \in Nat \cup {NoTime}
        /\ r.session \in Seq(Nat) /\ r.clock \in Nat \cup {NoTime}
    BY DEF Memory
  <1>2. /\ line.key \in Keys /\ line.time \in Nat /\ line.body \in Bodies
        /\ line.size \in Nat
    BY LineFields
  <1>3. Append(r.digest, line) \in Seq(Lines) /\ Len(r.digest) + 1 \in Nat
    BY <1>1
  <1>4. Append(r.session, Len(r.digest) + 1) \in Seq(Nat)
    BY <1>1, <1>3
  <1>5. [r.uids EXCEPT ![line.key] = line.body] \in [Keys -> Bodies \cup {None}]
    BY <1>1, <1>2
  <1>6. r.offset + line.size \in Nat
    BY <1>1, <1>2
  <1> QED BY <1>1, <1>2, <1>3, <1>4, <1>5, <1>6 DEF Absorb, Memory

(* Consuming a line keeps memory faithful: crashes apart, what a worker    *)
(* remembers is always the file it has read.                               *)
LEMMA AbsorbFaithful ==
  ASSUME NEW r, Faithful(r), NEW line \in Lines
  PROVE  Faithful(Absorb(r, line))
  <1> DEFINE a == Absorb(r, line)
             s == Append(r.digest, line)
             n == Len(r.digest) + 1
  <1> USE DEF IsRecord
  <1>1. /\ r.digest \in Seq(Lines) /\ r.session \in Seq(Nat)
        /\ r.latest \in Nat \cup {NoTime} /\ r.clock \in Nat \cup {NoTime}
        /\ r.uids \in [Keys -> Bodies \cup {None}]
    BY DEF Faithful, Memory
  <1>2. /\ line.key \in Keys /\ line.time \in Nat /\ line.body # None
    BY LineFields
  <1>3. /\ n \in Nat \ {0} /\ Len(s) = n /\ s[n] = line
        /\ \A m \in 1 .. n : m = n \/ (m \in 1 .. Len(r.digest))
        /\ \A m \in 1 .. Len(r.digest) : s[m] = r.digest[m] /\ r.digest[m] \in Lines /\ m \in 1 .. n
    BY <1>1
  <1>4. /\ a.digest = s
        /\ a.uids = IF line.kind = "record" /\ r.uids[line.key] = None
                    THEN [r.uids EXCEPT ![line.key] = line.body] ELSE r.uids
        /\ a.latest = IF line.kind = "record" /\ line.time > r.latest
                      THEN line.time ELSE r.latest
        /\ a.session = IF IsAccepted(r, line) THEN Append(r.session, n)
                       ELSE r.session
        /\ a.clock = IF IsAccepted(r, line) THEN line.time ELSE r.clock
    BY DEF Absorb
  <1> HIDE DEF a, s, n
  <1>5. a \in Memory
    BY AbsorbType DEF Faithful, a
  <1>6. KeysKnown(a)
    <2>1. \A k \in Keys : r.uids[k] # None => a.uids[k] # None
      BY <1>1, <1>2, <1>4
    <2>2. line.kind = "record" => a.uids[line.key] # None
      BY <1>1, <1>2, <1>4
    <2>3. \A m \in 1 .. Len(r.digest) : r.digest[m].key \in Keys
      BY <1>3, LineFields
    <2> QED BY <2>1, <2>2, <2>3, <1>3, <1>4 DEF KeysKnown, Faithful
  <1>7. KeysFirst(a)
    <2>1. ASSUME NEW m \in 1 .. Len(r.digest)
          PROVE  KeySeen(s, m) <=> KeySeen(r.digest, m)
      <3>1. m \in Nat \ {0} /\ \A j \in 1 .. m : j \in 1 .. Len(r.digest)
        BY <1>1
      <3>2. \A j \in 1 .. m : s[j] = r.digest[j]
        BY <1>3, <3>1
      <3>3. m \in 1 .. m /\ \A j \in 1 .. m - 1 : j \in 1 .. m
        BY <3>1
      <3>4. s[m] = r.digest[m] /\ \A j \in 1 .. m - 1 : s[j] = r.digest[j]
        BY <3>2, <3>3
      <3> QED BY <3>4 DEF KeySeen
    <2>2. SUFFICES ASSUME NEW k \in Keys, a.uids[k] # None
                   PROVE  \E m \in 1 .. Len(s) :
                            /\ s[m].kind = "record" /\ s[m].key = k
                            /\ s[m].body = a.uids[k] /\ ~ KeySeen(s, m)
      BY <1>4 DEF KeysFirst
    <2>3. CASE r.uids[k] # None
      <3>1. a.uids[k] = r.uids[k]
        BY <2>3, <1>1, <1>2, <1>4
      <3>2. PICK m \in 1 .. Len(r.digest) :
              /\ r.digest[m].kind = "record" /\ r.digest[m].key = k
              /\ r.digest[m].body = r.uids[k] /\ ~ KeySeen(r.digest, m)
        BY <2>3 DEF Faithful, KeysFirst
      <3> QED BY <3>1, <3>2, <2>1, <1>3
    <2>4. CASE r.uids[k] = None
      <3>1. line.kind = "record" /\ line.key = k /\ a.uids[k] = line.body
        BY <2>2, <2>4, <1>1, <1>2, <1>4
      <3>2. ~ KeySeen(s, n)
        BY <3>1, <2>4, <1>1, <1>3 DEF KeySeen, Faithful, KeysKnown
      <3> QED BY <3>1, <3>2, <1>3
    <2> QED BY <2>3, <2>4
  <1>8. MarkCovers(a)
    <2>1. /\ a.latest \in Int /\ r.latest \in Int /\ r.latest <= a.latest
          /\ line.kind = "record" => line.time <= a.latest
      BY <1>1, <1>2, <1>4 DEF NoTime
    <2>2. \A m \in 1 .. Len(r.digest) : r.digest[m].time \in Nat
      BY <1>3, LineFields
    <2>3. \A m \in 1 .. Len(r.digest) :
            r.digest[m].kind = "record" => r.digest[m].time <= r.latest
      BY DEF Faithful, MarkCovers
    <2> QED BY <2>1, <2>2, <2>3, <1>3, <1>4 DEF MarkCovers
  <1>9. MarkReached(a)
    <2>1. CASE a.latest = r.latest
      BY <2>1, <1>3, <1>4 DEF MarkReached, Faithful
    <2>2. CASE a.latest # r.latest
      BY <2>2, <1>3, <1>4 DEF MarkReached
    <2> QED BY <2>1, <2>2
  <1>10. Fed(a) = AcceptedLines(a.digest)
    <2>1. \A m \in 1 .. Len(r.digest) : Verdict(s, m) = Verdict(r.digest, m)
      <3>1. SUFFICES ASSUME NEW m \in 1 .. Len(r.digest)
                     PROVE  Verdict(s, m) = Verdict(r.digest, m)
        OBVIOUS
      <3>2. m \in Nat \ {0} /\ \A j \in 1 .. m : s[j] = r.digest[j]
        BY <1>1, <1>3
      <3> QED BY <3>2, VerdictLocal
    <2>2. (Verdict(s, n) = Accepted) <=> IsAccepted(r, line)
      BY OutcomeIsVerdict DEF IsAccepted, s, n
    <2>3. AcceptedLines(s) = AcceptedLines(r.digest)
                             \cup (IF IsAccepted(r, line) THEN {n} ELSE {})
      BY <2>1, <2>2, <1>3 DEF AcceptedLines
    <2>4. Fed(a) = Fed(r) \cup (IF IsAccepted(r, line) THEN {n} ELSE {})
      <3>1. CASE IsAccepted(r, line)
        <4>1. /\ a.session = Append(r.session, n)
              /\ Len(a.session) = Len(r.session) + 1
              /\ \A i \in 1 .. Len(r.session) : a.session[i] = r.session[i]
              /\ a.session[Len(r.session) + 1] = n
              /\ 1 .. Len(r.session) + 1 = (1 .. Len(r.session)) \cup {Len(r.session) + 1}
          BY <3>1, <1>1, <1>3, <1>4
        <4> QED BY <3>1, <4>1 DEF Fed
      <3>2. CASE ~ IsAccepted(r, line)
        BY <3>2, <1>4 DEF Fed
      <3> QED BY <3>1, <3>2
    <2> QED BY <2>3, <2>4, <1>4 DEF Faithful
  <1>11. a.clock <= a.latest
    <2>1. r.clock <= r.latest /\ r.clock \in Int /\ r.latest \in Int
      BY <1>1 DEF Faithful, NoTime
    <2>2. CASE IsAccepted(r, line)
      BY <2>1, <2>2, <1>2, <1>4, AcceptedMeans
    <2>3. CASE ~ IsAccepted(r, line)
      BY <2>1, <2>3, <1>2, <1>4
    <2> QED BY <2>2, <2>3
  <1> QED BY <1>5, <1>6, <1>7, <1>8, <1>9, <1>10, <1>11 DEF Faithful, a

-----------------------------------------------------------------------------
(* The parts of the invariant.                                             *)

MemorySound == \A w \in Workers : Faithful(ram[w])

(* Rows wait in a transaction only while a batch is consumed; what is read *)
(* but not committed fits one batch.                                       *)
BatchSound ==
  \A w \in Workers :
    /\ pc[w] # "consume" => job[w].tx = <<>>
    /\ pc[w] \notin {"read", "consume"} => job[w].queue = <<>>
    /\ Len(job[w].tx) + Len(job[w].queue) <= BatchRecords

(* The first worker pins the contract, and those that follow share it.     *)
ContractPinned ==
  /\ meta.contract = None => meta.lines = 0
  /\ \A w \in Workers :
       Running(w) => meta.contract # None /\ job[w].contract = meta.contract

(* Journal, checkpoint and the worker's memory speak of the same lines.    *)
PositionsAgree ==
  /\ Len(meta.prefix) = meta.lines /\ Len(journal) = meta.lines
  /\ \A w \in Workers :
       /\ pc[w] = "recover" => Len(ram[w].digest) <= meta.lines
       /\ pc[w] \notin {"down", "recover", "consume", "failed"} =>
            ram[w].digest = meta.prefix
       /\ pc[w] = "consume" =>
            /\ Len(ram[w].digest) = meta.lines + Len(job[w].tx)
            /\ \A n \in 1 .. meta.lines : ram[w].digest[n] = meta.prefix[n]

Core == /\ TypeOK /\ SingleWriter /\ MemorySound /\ BatchSound
        /\ ContractPinned /\ PositionsAgree

(* Each row is its line with its verdict: those recovery has replayed,     *)
(* those of the open batch, and, once a worker serves, the whole journal.  *)
JournalSound ==
  /\ edits = 0 => JournalIntact
  /\ \A w \in Workers :
       /\ Serving(w) => JournalIntact
       /\ pc[w] = "recover" =>
            \A n \in 1 .. Len(ram[w].digest) :
              /\ journal[n].raw = ram[w].digest[n]
              /\ journal[n].outcome = Verdict(ram[w].digest, n)
       /\ pc[w] = "consume" =>
            \A i \in 1 .. Len(job[w].tx) :
              /\ job[w].tx[i].raw = ram[w].digest[meta.lines + i]
              /\ job[w].tx[i].outcome = Verdict(ram[w].digest, meta.lines + i)

(* The saved report is that of the committed prefix.                       *)
ReportSound ==
  /\ snapshot.lines = meta.lines
  /\ EvidenceOf(snapshot) = AcceptedLines(meta.prefix)
  /\ snapshot = NoReport
       \/ (snapshot.contract = meta.contract /\ meta.contract # None)

(* The analyst store shows a report of an earlier prefix, or the saved one;*)
(* a delivery under way carries the saved one.                             *)
ViewSound ==
  /\ run.lines <= meta.lines /\ meta.lines <= run.lines + BatchRecords
  /\ EvidenceOf(run) = AcceptedLines(meta.prefix) \cap (1 .. run.lines)
  /\ run = NoReport
       \/ (run.contract = meta.contract /\ snapshot # NoReport)
  /\ EvidenceOf(run) \subseteq evidence
  /\ evidence \subseteq AcceptedLines(meta.prefix)
  /\ AtomicProjection => evidence = EvidenceOf(run)
  /\ \A w \in Workers :
       /\ pc[w] \in {"deliver", "save"} => job[w].outbox = snapshot
       /\ pc[w] = "save" => EvidenceOf(snapshot) \subseteq evidence
                            /\ ~ AtomicProjection
       /\ pc[w] \in {"verify", "read", "consume"} => run = snapshot

-----------------------------------------------------------------------------
(* Types.                                                                  *)

LEMMA ConstantTypes ==
  /\ NoReport \in Report /\ NoMeta \in Meta /\ NoJob \in Job
  /\ FreshMemory \in Memory
  /\ MaxBytes \in Nat /\ MaxRecords \in Nat /\ BatchRecords \in Nat
  BY LimitsAssumption
     DEF NoReport, Report, NoMeta, Meta, NoJob, Job, FreshMemory, Memory,
         Statuses, Continuations, NoTime

(* The fields of a worker's memory and locals.                             *)
LEMMA FieldTypes ==
  ASSUME TypeOK, NEW w \in Workers
  PROVE  /\ ram[w] \in Memory /\ job[w] \in Job
         /\ ram[w].digest \in Seq(Lines) /\ ram[w].offset \in Nat
         /\ ram[w].session \in Seq(Nat)
         /\ job[w].queue \in Seq(Lines) /\ job[w].tx \in Seq(Entry)
         /\ job[w].contract \in Contracts \cup {None}
         /\ job[w].cont \in Continuations /\ job[w].outbox \in Report
         /\ job[w].state \in Statuses
         /\ job[w].room \in Int /\ job[w].horizon \in Nat
         /\ Len(ram[w].digest) \in Nat /\ Len(job[w].queue) \in Nat
         /\ Len(job[w].tx) \in Nat /\ Position(w) \in Nat /\ Position(w) >= 1
  <1>1. ram[w] \in Memory /\ job[w] \in Job
    BY DEF TypeOK
  <1>2. /\ ram[w].digest \in Seq(Lines) /\ job[w].queue \in Seq(Lines)
        /\ job[w].tx \in Seq(Entry)
    BY <1>1 DEF Memory, Job
  <1>3. /\ Len(ram[w].digest) \in Nat /\ Len(job[w].queue) \in Nat
        /\ Len(job[w].tx) \in Nat
    BY <1>2
  <1>4. Position(w) \in Nat /\ Position(w) >= 1
    <2>1. \A a, b \in Nat : a + b + 1 \in Nat /\ a + b + 1 >= 1
      OBVIOUS
    <2> QED BY <1>3, <2>1, Zenon DEF Position
  <1>5. /\ ram[w].offset \in Nat /\ ram[w].session \in Seq(Nat)
        /\ job[w].contract \in Contracts \cup {None}
        /\ job[w].cont \in Continuations /\ job[w].outbox \in Report
        /\ job[w].state \in Statuses
        /\ job[w].room \in Int /\ job[w].horizon \in Nat
    BY <1>1 DEF Memory, Job
  <1> QED BY <1>1, <1>2, <1>3, <1>4, <1>5

LEMMA EmptyLength == \A s : s = <<>> => Len(s) = 0
  <1>1. Len(<<>>) = 0
    OBVIOUS
  <1> QED BY <1>1, Zenon

(* Sizes of batches add up.                                                *)
LEMMA MovedLength ==
  ASSUME NEW S, NEW T, NEW s \in Seq(S), NEW t \in Seq(T), NEW e \in S, t # <<>>
  PROVE  Len(Append(s, e)) + Len(Tail(t)) = Len(s) + Len(t)
  OBVIOUS

(* Recovery reads a line.                                                  *)
LEMMA NextRow ==
  ASSUME TypeOK, NEW w \in Workers, RowReplays(w)
  PROVE  /\ Len(ram[w].digest) + 1 \in 1 .. Len(journal)
         /\ journal[Len(ram[w].digest) + 1] \in Entry
         /\ journal[Len(ram[w].digest) + 1].raw \in Lines
  <1>1. Len(ram[w].digest) + 1 \in 1 .. Len(journal)
    BY FieldTypes DEF RowReplays, TypeOK
  <1>2. journal[Len(ram[w].digest) + 1] \in Entry
    BY <1>1 DEF TypeOK
  <1> QED BY <1>1, <1>2 DEF Entry

(* A worker between deliveries has no batch.                               *)
LEMMA IdleFields ==
  ASSUME TypeOK, NEW w \in Workers
  PROVE  /\ Idle(w).tx = <<>> /\ Idle(w).queue = <<>>
         /\ Idle(w).contract = job[w].contract /\ Idle(w).cont = job[w].cont
         /\ Idle(w).outbox = NoReport /\ Idle(w).state = job[w].state
  BY DEF Idle, NoJob

LEMMA TypeInit == Init => TypeOK
  <1> SUFFICES ASSUME Init PROVE TypeOK
    OBVIOUS
  <1>1. source \in Seq(Lines) /\ journal \in Seq(Entry)
    BY DEF Init
  <1>2. /\ pc \in [Workers -> Phases] /\ ram \in [Workers -> Memory]
        /\ job \in [Workers -> Job]
    BY ConstantTypes DEF Init, Phases
  <1>3. faults \in 0 .. MaxFaults /\ edits \in 0 .. MaxEdits
    BY BoundsAssumption DEF Init
  <1>4. meta \in Meta /\ snapshot \in Report /\ run \in Report
    BY ConstantTypes DEF Init
  <1> QED BY <1>1, <1>2, <1>3, <1>4 DEF Init, TypeOK

LEMMA IdleType ==
  ASSUME TypeOK, NEW w \in Workers
  PROVE  Idle(w) \in Job
  BY ConstantTypes DEF TypeOK, Idle, Job, NoJob

LEMMA EndsType ==
  ASSUME TypeOK, NEW w \in Workers, Ends(w),
         faults' \in 0 .. MaxFaults, UNCHANGED <<edits, frozen>>
  PROVE  TypeOK'
  BY ConstantTypes DEF Ends, TypeOK, Phases, file, checkpoint, store

LEMMA FailsType ==
  ASSUME TypeOK, NEW w \in Workers, Fails(w),
         faults' \in 0 .. MaxFaults, UNCHANGED <<edits, frozen>>
  PROVE  TypeOK'
  <1>1. snapshot' \in Report
    BY DEF Fails, TypeOK, Report, Statuses
  <1>2. pc' \in [Workers -> Phases] /\ job' \in [Workers -> Job]
    BY IdleType DEF Fails, TypeOK, Phases
  <1> QED BY <1>1, <1>2 DEF Fails, TypeOK, file, store

LEMMA TypeStep == TypeOK /\ [Next]_vars => TypeOK'
  <1> SUFFICES ASSUME TypeOK, [Next]_vars PROVE TypeOK'
    OBVIOUS
  <1> USE DEF file, checkpoint, store, bounds
  <1>1. CASE UNCHANGED vars
    BY <1>1 DEF vars, TypeOK
  <1>2. ASSUME NEW w \in Workers, NEW c \in Contracts, Start(w, c) PROVE TypeOK'
    <2>1. [NoJob EXCEPT !.contract = c] \in Job /\ [NoMeta EXCEPT !.contract = c] \in Meta
      BY ConstantTypes DEF Job, NoJob, Meta, NoMeta
    <2> QED BY <1>2, <2>1, ConstantTypes DEF Start, TypeOK, Phases
  <1>3. ASSUME NEW w \in Workers, RecoverRow(w) PROVE TypeOK'
    <2>1. journal[Len(ram[w].digest) + 1].raw \in Lines
      BY <1>3, NextRow DEF RecoverRow
    <2>2. Absorb(ram[w], journal[Len(ram[w].digest) + 1].raw) \in Memory
      BY <2>1, AbsorbType DEF TypeOK
    <2> QED BY <1>3, <2>2 DEF RecoverRow, TypeOK
  <1>4. ASSUME NEW w \in Workers, FinishRecovery(w) PROVE TypeOK'
    BY <1>4 DEF FinishRecovery, TypeOK, Phases
  <1>5. ASSUME NEW w \in Workers, RefuseJournal(w) PROVE TypeOK'
    BY <1>5, EndsType DEF RefuseJournal, TypeOK
  <1>6. ASSUME NEW w \in Workers, ReadOutbox(w) PROVE TypeOK'
    <2>1. job[w].cont \in Phases
      BY DEF TypeOK, Job, Continuations, Phases
    <2>2. [job[w] EXCEPT !.outbox = snapshot] \in Job
      BY DEF TypeOK, Job
    <2>3. job' \in [Workers -> Job] /\ pc' \in [Workers -> Phases]
      BY <1>6, <2>1, <2>2 DEF ReadOutbox, TypeOK, Phases
    <2> QED BY <1>6, <2>3 DEF ReadOutbox, TypeOK
  <1>7. ASSUME NEW w \in Workers, Deliver(w) PROVE TypeOK'
    <2>1. job[w].cont \in Phases /\ job[w].outbox \in Report
      BY DEF TypeOK, Job, Continuations, Phases
    <2>2. EvidenceOf(job[w].outbox) \in SUBSET Nat
      BY <2>1 DEF EvidenceOf, Report
    <2>3. /\ run' \in Report /\ job' \in [Workers -> Job]
          /\ pc' \in [Workers -> Phases] /\ evidence' \in SUBSET Nat
      BY <1>7, <2>1, <2>2, IdleType DEF Deliver, TypeOK, Phases
    <2> QED BY <1>7, <2>3 DEF Deliver, TypeOK
  <1>8. ASSUME NEW w \in Workers, SaveRun(w) PROVE TypeOK'
    <2>1. job[w].cont \in Phases /\ job[w].outbox \in Report
      BY DEF TypeOK, Job, Continuations, Phases
    <2> QED BY <1>8, <2>1, IdleType DEF SaveRun, TypeOK
  <1>9. ASSUME NEW w \in Workers, BeginPoll(w) PROVE TypeOK'
    <2>1. [job[w] EXCEPT !.cont = "verify"] \in Job
      BY DEF TypeOK, Job, Continuations
    <2> QED BY <1>9, <2>1 DEF BeginPoll, TypeOK, Phases
  <1>10. ASSUME NEW w \in Workers, Verify(w) PROVE TypeOK'
    <2>1. [job[w] EXCEPT !.room = MaxBytes - ram[w].offset,
                         !.horizon = Len(source), !.fragment = tail] \in Job
      <3>1. MaxBytes - ram[w].offset \in Int /\ Len(source) \in Nat /\ tail \in BOOLEAN
        BY ConstantTypes, FieldTypes DEF TypeOK
      <3> QED BY <3>1, FieldTypes DEF Job
    <2> QED BY <1>10, <2>1 DEF Verify, TypeOK, Phases
  <1>11. ASSUME NEW w \in Workers, ReadLine(w) PROVE TypeOK'
    <2>1. source[Position(w)] \in Lines
      <3>1. Position(w) \in 1 .. Len(source)
        BY <1>11, FieldTypes DEF ReadLine, LineReady
      <3> QED BY <3>1 DEF TypeOK
    <2>2. [job[w] EXCEPT !.queue = Append(@, source[Position(w)]),
                         !.room = @ - source[Position(w)].size] \in Job
      <3>1. /\ Append(job[w].queue, source[Position(w)]) \in Seq(Lines)
            /\ job[w].room - source[Position(w)].size \in Int
        BY <2>1, FieldTypes, LineFields
      <3> QED BY <3>1, FieldTypes DEF Job
    <2> QED BY <1>11, <2>2 DEF ReadLine, TypeOK
  <1>12. ASSUME NEW w \in Workers, EndRead(w) PROVE TypeOK'
    <2>1. BatchStatus(w) \in Statuses
      BY DEF BatchStatus, Statuses
    <2>2. [Idle(w) EXCEPT !.queue = job[w].queue, !.state = BatchStatus(w)] \in Job
      BY <2>1, IdleType, FieldTypes DEF Job
    <2> QED BY <1>12, <2>2 DEF EndRead, TypeOK, Phases
  <1>13. ASSUME NEW w \in Workers, ConsumeLine(w) PROVE TypeOK'
    <2> DEFINE line == Head(job[w].queue)
    <2>1. line \in Lines /\ Tail(job[w].queue) \in Seq(Lines)
      BY <1>13 DEF ConsumeLine, TypeOK, Job
    <2>2. [raw |-> line, outcome |-> Outcome(ram[w], line)] \in Entry
      BY <2>1, OutcomeType DEF Entry
    <2>3. [job[w] EXCEPT !.queue = Tail(@),
             !.tx = Append(@, [raw |-> line, outcome |-> Outcome(ram[w], line)])] \in Job
      <3>1. ASSUME NEW row \in Entry, NEW rest \in Seq(Lines)
            PROVE  [job[w] EXCEPT !.queue = rest, !.tx = Append(@, row)] \in Job
        <4>1. Append(job[w].tx, row) \in Seq(Entry)
          BY FieldTypes
        <4> QED BY <4>1, FieldTypes DEF Job
      <3> QED BY <2>1, <2>2, <3>1
    <2>4. Absorb(ram[w], line) \in Memory
      BY <2>1, AbsorbType DEF TypeOK
    <2> QED BY <1>13, <2>3, <2>4 DEF ConsumeLine, TypeOK
  <1>14. ASSUME NEW w \in Workers, Commit(w) PROVE TypeOK'
    <2>1. /\ ram[w].digest \in Seq(Lines) /\ ram[w].offset \in Nat
          /\ ram[w].session \in Seq(Nat)
          /\ job[w].tx \in Seq(Entry) /\ job[w].state \in Statuses
          /\ job[w].contract \in Contracts \cup {None}
      BY DEF TypeOK, Memory, Job
    <2>2. meta' \in Meta
      <3>1. /\ Len(job[w].tx) \in Nat /\ Len(ram[w].digest) \in Nat
            /\ meta.highwater \in Nat /\ meta.batches \in Nat
            /\ Larger(meta.highwater, Len(job[w].tx)) \in Nat
        BY <2>1 DEF TypeOK, Meta, Larger
      <3> QED BY <1>14, <2>1, <3>1 DEF Commit, TypeOK, Meta
    <2>3. journal' \in Seq(Entry)
      BY <1>14, <2>1 DEF Commit, TypeOK
    <2>4. snapshot' \in Report
      BY <1>14, <2>1 DEF Commit, Report
    <2>5. [Idle(w) EXCEPT !.cont = "ready"] \in Job
      BY IdleType DEF Job, Continuations
    <2>6. pc' \in [Workers -> Phases] /\ job' \in [Workers -> Job]
      BY <1>14, <2>5 DEF Commit, TypeOK, Phases
    <2> QED BY <1>14, <2>2, <2>3, <2>4, <2>6 DEF Commit, TypeOK
  <1>15. ASSUME NEW w \in Workers, StopPoll(w) PROVE TypeOK'
    BY <1>15, FailsType DEF StopPoll, TypeOK
  <1>16. ASSUME NEW w \in Workers, Close(w) PROVE TypeOK'
    BY <1>16, EndsType DEF Close, TypeOK
  <1>17. ASSUME NEW w \in Workers, PollFault(w) PROVE TypeOK'
    <2>1. faults' \in 0 .. MaxFaults
      BY <1>17, BoundsAssumption DEF PollFault, TypeOK
    <2> QED BY <1>17, <2>1, FailsType DEF PollFault
  <1>18. ASSUME NEW w \in Workers, Crash(w) PROVE TypeOK'
    <2>1. faults' \in 0 .. MaxFaults
      BY <1>18, BoundsAssumption DEF Crash, TypeOK
    <2> QED BY <1>18, <2>1, EndsType DEF Crash
  <1>19. CASE WriteFragment \/ WriteLine
    <2>1. source' \in Seq(Lines)
      <3>1. source \in Seq(Lines)
        BY DEF TypeOK
      <3>2. \A line \in Lines : Append(source, line) \in Seq(Lines)
        BY <3>1
      <3>3. source' = source \/ \E line \in Lines : source' = Append(source, line)
        BY <1>19, Zenon DEF WriteFragment, WriteLine
      <3> QED BY <3>1, <3>2, <3>3, Zenon
    <2>2. tail' \in BOOLEAN
      BY <1>19, Zenon DEF WriteFragment, WriteLine
    <2> QED BY <1>19, <2>1, <2>2 DEF WriteFragment, WriteLine, TypeOK
  <1>20. CASE DisturbSource
    <2>1. edits' \in 0 .. MaxEdits
      BY <1>20, BoundsAssumption DEF DisturbSource, Outside, TypeOK
    <2>2. source' \in Seq(Lines) /\ tail' \in BOOLEAN /\ rotated' \in BOOLEAN
      <3>1. \A n \in 1 .. Len(source), line \in Lines :
              [source EXCEPT ![n] = line] \in Seq(Lines)
        BY DEF TypeOK
      <3>2. \A n \in 0 .. Len(source) - 1 : SubSeq(source, 1, n) \in Seq(Lines)
        BY DEF TypeOK
      <3>3. /\ \/ source' = source
               \/ \E n \in 1 .. Len(source), line \in Lines :
                    source' = [source EXCEPT ![n] = line]
               \/ \E n \in 0 .. Len(source) - 1 : source' = SubSeq(source, 1, n)
            /\ tail' = tail \/ tail' = FALSE
            /\ rotated' = rotated \/ rotated' = TRUE
        BY <1>20, Zenon DEF DisturbSource
      <3>4. source \in Seq(Lines) /\ tail \in BOOLEAN /\ rotated \in BOOLEAN
        BY DEF TypeOK
      <3>5. source' \in Seq(Lines)
        BY <3>1, <3>2, <3>3, <3>4, Zenon
      <3>6. tail' \in BOOLEAN /\ rotated' \in BOOLEAN
        BY <3>3, <3>4, Zenon
      <3> QED BY <3>5, <3>6
    <2>3. frozen' \in Nat
      <3>1. frozen' = meta.lines + (IF InFlight THEN BatchRecords ELSE 0)
        BY <1>20, Zenon DEF DisturbSource
      <3>2. meta.lines \in Nat
        BY DEF TypeOK, Meta
      <3> QED BY <3>1, <3>2, ConstantTypes
    <2> QED BY <1>20, <2>1, <2>2, <2>3 DEF DisturbSource, Outside, TypeOK
  <1>21. CASE EditJournal
    <2>1. edits' \in 0 .. MaxEdits
      BY <1>21, BoundsAssumption DEF EditJournal, Outside, TypeOK
    <2>2. journal' \in Seq(Entry)
      <3>1. PICK n \in 1 .. Len(journal) :
              \/ \E line \in Lines : journal' = [journal EXCEPT ![n].raw = line]
              \/ \E outcome \in {Accepted, Ignored} :
                   journal' = [journal EXCEPT ![n].outcome = outcome]
        BY <1>21 DEF EditJournal
      <3>2. journal[n] \in Entry /\ Accepted \in Outcomes /\ Ignored \in Outcomes
        BY DEF TypeOK, Outcomes
      <3>3. PICK entry \in Entry : journal' = [journal EXCEPT ![n] = entry]
        <4>1. CASE \E line \in Lines : journal' = [journal EXCEPT ![n].raw = line]
          <5>1. PICK line \in Lines : journal' = [journal EXCEPT ![n].raw = line]
            BY <4>1
          <5>2. [journal[n] EXCEPT !.raw = line] \in Entry
            BY <3>2 DEF Entry
          <5> QED BY <5>1, <5>2
        <4>2. CASE \E outcome \in {Accepted, Ignored} :
                     journal' = [journal EXCEPT ![n].outcome = outcome]
          <5>1. PICK outcome \in {Accepted, Ignored} :
                  journal' = [journal EXCEPT ![n].outcome = outcome]
            BY <4>2
          <5>2. [journal[n] EXCEPT !.outcome = outcome] \in Entry
            BY <3>2 DEF Entry
          <5> QED BY <5>1, <5>2
        <4> QED BY <3>1, <4>1, <4>2
      <3> QED BY <3>3 DEF TypeOK
    <2> QED BY <1>21, <2>1, <2>2 DEF EditJournal, Outside, TypeOK
  <1> QED
    BY <1>1, <1>2, <1>3, <1>4, <1>5, <1>6, <1>7, <1>8, <1>9, <1>10, <1>11,
       <1>12, <1>13, <1>14, <1>15, <1>16, <1>17, <1>18, <1>19, <1>20, <1>21
       DEF Next, Step, Environment

(* Every variable keeps its shape.                                         *)
THEOREM TypeCorrect == Spec => []TypeOK
  BY TypeInit, TypeStep, PTL DEF Spec

-----------------------------------------------------------------------------
(* Mutual exclusion.                                                       *)

(* While one worker runs the others are down.                              *)
LEMMA Alone ==
  ASSUME SingleWriter, NEW w \in Workers, Running(w), NEW v \in Workers, v # w
  PROVE  pc[v] = "down"
  BY DEF SingleWriter, Running

(* While the lock is free all are down.                                    *)
LEMMA NobodyRuns ==
  ASSUME SingleWriter, owner = None, NEW v \in Workers
  PROVE  pc[v] = "down"
  BY ModesAssumption DEF SingleWriter, Running

LEMMA InPollRuns ==
  ASSUME NEW w, InPoll(w)
  PROVE  Running(w)
  BY DEF InPoll, Running

LEMMA BlockedRuns ==
  ASSUME NEW w, Blocked(w)
  PROVE  Running(w)
  BY DEF Blocked, Reading, Running

LEMMA LockInit == Init => SingleWriter
  BY DEF Init, SingleWriter, Running

LEMMA LockStep == TypeOK /\ SingleWriter /\ [Next]_vars => SingleWriter'
  <1> SUFFICES ASSUME TypeOK, SingleWriter, [Next]_vars PROVE SingleWriter'
    OBVIOUS
  <1>1. pc \in [Workers -> Phases]
    BY DEF TypeOK
  <1>2. ASSUME NEW w \in Workers, Running(w),
               owner' = owner, \A v \in Workers : v # w => pc'[v] = pc[v]
        PROVE  SingleWriter'
    BY <1>2, Alone DEF SingleWriter, Running
  <1>3. ASSUME NEW w \in Workers, Running(w), Ends(w) PROVE SingleWriter'
    BY <1>1, <1>3, Alone DEF Ends, SingleWriter, Running
  <1>4. ASSUME NEW w \in Workers, Running(w), Fails(w) PROVE SingleWriter'
    BY <1>1, <1>2, <1>4 DEF Fails
  <1>5. ASSUME pc' = pc, owner' = owner PROVE SingleWriter'
    BY <1>5 DEF SingleWriter, Running
  <1>6. CASE UNCHANGED vars
    BY <1>5, <1>6 DEF vars
  <1>7. ASSUME NEW w \in Workers, NEW c \in Contracts, Start(w, c)
        PROVE  SingleWriter'
    BY <1>1, <1>7, NobodyRuns DEF Start, SingleWriter, Running
  <1>8. ASSUME NEW w \in Workers, RecoverRow(w) PROVE SingleWriter'
    BY <1>5, <1>8 DEF RecoverRow
  <1>9. ASSUME NEW w \in Workers, FinishRecovery(w) PROVE SingleWriter'
    BY <1>1, <1>2, <1>9 DEF FinishRecovery, Running
  <1>10. ASSUME NEW w \in Workers, RefuseJournal(w) PROVE SingleWriter'
    BY <1>3, <1>10 DEF RefuseJournal, Running
  <1>11. ASSUME NEW w \in Workers, ReadOutbox(w) PROVE SingleWriter'
    BY <1>1, <1>2, <1>11 DEF ReadOutbox, Running
  <1>12. ASSUME NEW w \in Workers, Deliver(w) PROVE SingleWriter'
    BY <1>1, <1>2, <1>12 DEF Deliver, Running
  <1>13. ASSUME NEW w \in Workers, SaveRun(w) PROVE SingleWriter'
    BY <1>1, <1>2, <1>13 DEF SaveRun, Running
  <1>14. ASSUME NEW w \in Workers, BeginPoll(w) PROVE SingleWriter'
    BY <1>1, <1>2, <1>14 DEF BeginPoll, Running
  <1>15. ASSUME NEW w \in Workers, Verify(w) PROVE SingleWriter'
    BY <1>1, <1>2, <1>15 DEF Verify, Running
  <1>16. ASSUME NEW w \in Workers, ReadLine(w) PROVE SingleWriter'
    BY <1>5, <1>16 DEF ReadLine
  <1>17. ASSUME NEW w \in Workers, EndRead(w) PROVE SingleWriter'
    BY <1>1, <1>2, <1>17 DEF EndRead, Running
  <1>18. ASSUME NEW w \in Workers, ConsumeLine(w) PROVE SingleWriter'
    BY <1>5, <1>18 DEF ConsumeLine
  <1>19. ASSUME NEW w \in Workers, Commit(w) PROVE SingleWriter'
    BY <1>1, <1>2, <1>19 DEF Commit, Running
  <1>20. ASSUME NEW w \in Workers, StopPoll(w) PROVE SingleWriter'
    BY <1>4, <1>20, BlockedRuns DEF StopPoll
  <1>21. ASSUME NEW w \in Workers, Close(w) PROVE SingleWriter'
    BY <1>3, <1>21 DEF Close, Running
  <1>22. ASSUME NEW w \in Workers, PollFault(w) PROVE SingleWriter'
    BY <1>4, <1>22, InPollRuns DEF PollFault
  <1>23. ASSUME NEW w \in Workers, Crash(w) PROVE SingleWriter'
    BY <1>3, <1>23 DEF Crash
  <1>24. CASE Environment
    BY <1>5, <1>24
       DEF Environment, WriteFragment, WriteLine, DisturbSource, EditJournal, Outside
  <1> QED
    BY <1>6, <1>7, <1>8, <1>9, <1>10, <1>11, <1>12, <1>13, <1>14, <1>15, <1>16,
       <1>17, <1>18, <1>19, <1>20, <1>21, <1>22, <1>23, <1>24 DEF Next, Step

(* Two processes never work on one checkpoint.                             *)
THEOREM MutualExclusion == Spec => []SingleWriter
  <1>1. TypeOK /\ SingleWriter /\ [Next]_vars => (TypeOK /\ SingleWriter)'
    BY TypeStep, LockStep
  <1>2. Init => TypeOK /\ SingleWriter
    BY TypeInit, LockInit
  <1> QED BY <1>1, <1>2, PTL DEF Spec

-----------------------------------------------------------------------------
(* Memory is the file: every worker's memory stands for what it has read.  *)

LEMMA MemoryInit == Init => MemorySound
  BY FreshFaithful DEF Init, MemorySound

(* Memory is made anew, or takes one more line.                            *)
Renewed(w) == ram' = [ram EXCEPT ![w] = FreshMemory]
Extended(w, line) == ram' = [ram EXCEPT ![w] = Absorb(ram[w], line)]
Remembers ==
  \/ ram' = ram
  \/ \E w \in Workers : Renewed(w) \/ \E line \in Lines : Extended(w, line)

LEMMA MemoryMoves == TypeOK /\ [Next]_vars => Remembers
  <1> SUFFICES ASSUME TypeOK, [Next]_vars PROVE Remembers
    OBVIOUS
  <1>2. ASSUME ram' = ram PROVE Remembers
    BY <1>2 DEF Remembers
  <1>3. ASSUME NEW w \in Workers, Renewed(w) PROVE Remembers
    BY <1>3 DEF Remembers
  <1>4. ASSUME NEW w \in Workers, NEW line \in Lines, Extended(w, line) PROVE Remembers
    BY <1>4 DEF Remembers
  <1>5. CASE UNCHANGED vars
    BY <1>2, <1>5 DEF vars
  <1>6. ASSUME NEW w \in Workers, NEW c \in Contracts, Start(w, c)
        PROVE  Remembers
    BY <1>3, <1>6 DEF Start, Renewed
  <1>7. ASSUME NEW w \in Workers, RecoverRow(w) PROVE Remembers
    BY <1>4, <1>7, NextRow DEF RecoverRow, Extended
  <1>8. ASSUME NEW w \in Workers, ConsumeLine(w) PROVE Remembers
    <2>1. Head(job[w].queue) \in Lines
      BY <1>8, FieldTypes DEF ConsumeLine
    <2> QED BY <1>4, <1>8, <2>1 DEF ConsumeLine, Extended
  <1>9. ASSUME NEW w \in Workers, Ends(w) PROVE Remembers
    BY <1>3, <1>9 DEF Ends, Renewed
  <1>10. ASSUME NEW w \in Workers, Fails(w) PROVE Remembers
    BY <1>2, <1>10 DEF Fails
  <1>11. ASSUME NEW w \in Workers, RefuseJournal(w) \/ Close(w) \/ Crash(w)
         PROVE  Remembers
    BY <1>9, <1>11 DEF RefuseJournal, Close, Crash
  <1>12. ASSUME NEW w \in Workers, StopPoll(w) \/ PollFault(w)
         PROVE  Remembers
    BY <1>10, <1>12 DEF StopPoll, PollFault
  <1>13. ASSUME NEW w \in Workers,
                \/ FinishRecovery(w) \/ ReadOutbox(w) \/ Deliver(w) \/ SaveRun(w)
                \/ BeginPoll(w) \/ Verify(w) \/ ReadLine(w) \/ EndRead(w)
                \/ Commit(w)
         PROVE  Remembers
    BY <1>2, <1>13
       DEF FinishRecovery, ReadOutbox, Deliver, SaveRun, BeginPoll, Verify,
           ReadLine, EndRead, Commit
  <1>14. CASE Environment
    BY <1>2, <1>14
       DEF Environment, WriteFragment, WriteLine, DisturbSource, EditJournal, Outside
  <1> QED
    BY <1>5, <1>6, <1>7, <1>8, <1>11, <1>12, <1>13, <1>14 DEF Next, Step

LEMMA MemoryStep == TypeOK /\ MemorySound /\ [Next]_vars => MemorySound'
  <1> SUFFICES ASSUME TypeOK, MemorySound, [Next]_vars PROVE MemorySound'
    OBVIOUS
  <1>1. ram \in [Workers -> Memory] /\ Remembers
    BY MemoryMoves DEF TypeOK
  <1>2. CASE ram' = ram
    BY <1>2 DEF MemorySound
  <1>3. ASSUME NEW w \in Workers, Renewed(w) PROVE MemorySound'
    BY <1>1, <1>3, FreshFaithful DEF MemorySound, Renewed
  <1>4. ASSUME NEW w \in Workers, NEW line \in Lines, Extended(w, line) PROVE MemorySound'
    <2>1. Faithful(Absorb(ram[w], line))
      BY AbsorbFaithful DEF MemorySound
    <2> QED BY <1>1, <1>4, <2>1 DEF MemorySound, Extended
  <1> QED BY <1>1, <1>2, <1>3, <1>4 DEF Remembers

-----------------------------------------------------------------------------
(* The batch and the contract.                                             *)

LEMMA BatchInit == Init => BatchSound
  BY ConstantTypes DEF Init, BatchSound, NoJob

LEMMA BatchStep == TypeOK /\ BatchSound /\ [Next]_vars => BatchSound'
  <1> SUFFICES ASSUME TypeOK, BatchSound, [Next]_vars PROVE BatchSound'
    OBVIOUS
  <1>1. pc \in [Workers -> Phases] /\ job \in [Workers -> Job]
    BY DEF TypeOK
  <1>2. ASSUME pc' = pc, job' = job PROVE BatchSound'
    BY <1>2 DEF BatchSound
  (* A step of one worker that leaves it without a batch.                  *)
  <1>3. ASSUME NEW w \in Workers, NEW phase, NEW j,
               pc' = [pc EXCEPT ![w] = phase], job' = [job EXCEPT ![w] = j],
               j.tx = <<>>, j.queue = <<>>
        PROVE  BatchSound'
    <2>1. Len(j.tx) + Len(j.queue) <= BatchRecords
      BY <1>3, EmptyLength, ConstantTypes
    <2>2. pc'[w] = phase /\ job'[w] = j
          /\ \A v \in Workers : v # w => pc'[v] = pc[v] /\ job'[v] = job[v]
      BY <1>1, <1>3
    <2> QED BY <1>3, <2>1, <2>2 DEF BatchSound
  <1>4. CASE UNCHANGED vars
    BY <1>2, <1>4 DEF vars
  <1>5. ASSUME NEW w \in Workers, NEW c \in Contracts, Start(w, c)
        PROVE  BatchSound'
    <2>1. [NoJob EXCEPT !.contract = c].tx = <<>>
          /\ [NoJob EXCEPT !.contract = c].queue = <<>>
      BY DEF NoJob
    <2> QED BY <1>3, <1>5, <2>1 DEF Start
  <1>6. ASSUME NEW w \in Workers, RecoverRow(w) PROVE BatchSound'
    BY <1>2, <1>6 DEF RecoverRow
  <1>7. ASSUME NEW w \in Workers, FinishRecovery(w) PROVE BatchSound'
    BY <1>1, <1>7 DEF FinishRecovery, BatchSound
  <1>8. ASSUME NEW w \in Workers, ReadOutbox(w) PROVE BatchSound'
    <2>1. job[w].tx = <<>> /\ job[w].queue = <<>>
      BY <1>8 DEF ReadOutbox, BatchSound
    <2>2. [job[w] EXCEPT !.outbox = snapshot].tx = <<>>
          /\ [job[w] EXCEPT !.outbox = snapshot].queue = <<>>
      BY <1>1, <2>1 DEF Job
    <2>3. \/ job' = [job EXCEPT ![w] = job[w]]
          \/ job' = [job EXCEPT ![w] = [job[w] EXCEPT !.outbox = snapshot]]
      BY <1>1, <1>8 DEF ReadOutbox
    <2>4. \/ pc' = [pc EXCEPT ![w] = job[w].cont]
          \/ pc' = [pc EXCEPT ![w] = "deliver"]
      BY <1>8 DEF ReadOutbox
    <2> QED BY <1>3, <2>1, <2>2, <2>3, <2>4
  <1>9. ASSUME NEW w \in Workers, Deliver(w) PROVE BatchSound'
    <2>1. job[w].tx = <<>> /\ job[w].queue = <<>>
      BY <1>9 DEF Deliver, BatchSound
    <2>2. \/ /\ job' = [job EXCEPT ![w] = Idle(w)]
             /\ pc' = [pc EXCEPT ![w] = job[w].cont]
          \/ /\ job' = [job EXCEPT ![w] = job[w]]
             /\ pc' = [pc EXCEPT ![w] = "save"]
      BY <1>1, <1>9 DEF Deliver
    <2>3. Idle(w).tx = <<>> /\ Idle(w).queue = <<>>
      BY IdleFields
    <2>4. CASE job' = [job EXCEPT ![w] = Idle(w)] /\ pc' = [pc EXCEPT ![w] = job[w].cont]
      BY <1>3, <2>3, <2>4
    <2>5. CASE job' = [job EXCEPT ![w] = job[w]] /\ pc' = [pc EXCEPT ![w] = "save"]
      BY <1>3, <2>1, <2>5
    <2> QED BY <2>2, <2>4, <2>5
  <1>10. ASSUME NEW w \in Workers, SaveRun(w) PROVE BatchSound'
    BY <1>3, <1>10, IdleFields DEF SaveRun
  <1>11. ASSUME NEW w \in Workers, BeginPoll(w) PROVE BatchSound'
    <2>1. job[w].tx = <<>> /\ job[w].queue = <<>>
      BY <1>11 DEF BeginPoll, BatchSound
    <2>2. [job[w] EXCEPT !.cont = "verify"].tx = <<>>
          /\ [job[w] EXCEPT !.cont = "verify"].queue = <<>>
      BY <1>1, <2>1 DEF Job
    <2> QED BY <1>3, <1>11, <2>2 DEF BeginPoll
  <1>12. ASSUME NEW w \in Workers, Verify(w) PROVE BatchSound'
    <2> DEFINE j == [job[w] EXCEPT !.room = MaxBytes - ram[w].offset,
                                   !.horizon = Len(source), !.fragment = tail]
    <2>1. job[w].tx = <<>> /\ job[w].queue = <<>>
      BY <1>12 DEF Verify, BatchSound
    <2>2. j.tx = <<>> /\ j.queue = <<>>
      BY <1>1, <2>1 DEF Job
    <2> QED BY <1>3, <1>12, <2>2 DEF Verify
  <1>13. ASSUME NEW w \in Workers, ReadLine(w) PROVE BatchSound'
    <2>1. pc[w] = "read" /\ Len(job[w].queue) < BatchRecords
      BY <1>13, ConstantTypes, FieldTypes DEF ReadLine, Reading, Quota
    <2>2. /\ job'[w].tx = job[w].tx /\ Len(job'[w].queue) = Len(job[w].queue) + 1
          /\ pc' = pc /\ \A v \in Workers : v # w => job'[v] = job[v]
      BY <1>1, <1>13, FieldTypes DEF ReadLine, Job
    <2>3. job[w].tx = <<>> /\ Len(job[w].tx) = 0
      BY <2>1, EmptyLength DEF BatchSound
    <2>4. Len(job'[w].tx) + Len(job'[w].queue) <= BatchRecords
      BY <2>1, <2>2, <2>3, ConstantTypes, FieldTypes
    <2> QED BY <2>1, <2>2, <2>3, <2>4 DEF BatchSound
  <1>14. ASSUME NEW w \in Workers, EndRead(w) PROVE BatchSound'
    <2>1. [Idle(w) EXCEPT !.queue = job[w].queue, !.state = BatchStatus(w)].tx = <<>>
          /\ [Idle(w) EXCEPT !.queue = job[w].queue, !.state = BatchStatus(w)].queue
               = job[w].queue
      BY IdleType, IdleFields DEF Job
    <2>2. job'[w].tx = <<>> /\ job'[w].queue = job[w].queue /\ pc'[w] = "consume"
      BY <1>1, <1>14, <2>1 DEF EndRead
    <2>3. \A v \in Workers : v # w => job'[v] = job[v] /\ pc'[v] = pc[v]
      BY <1>1, <1>14 DEF EndRead
    <2>4. job[w].tx = <<>>
      BY <1>14 DEF EndRead, BatchSound
    <2> QED BY <2>2, <2>3, <2>4 DEF BatchSound
  <1>15. ASSUME NEW w \in Workers, ConsumeLine(w) PROVE BatchSound'
    <2> DEFINE row == [raw |-> Head(job[w].queue),
                       outcome |-> Outcome(ram[w], Head(job[w].queue))]
    <2>1. job' = [job EXCEPT ![w] = [job[w] EXCEPT !.queue = Tail(job[w].queue),
                                                  !.tx = Append(job[w].tx, row)]]
      BY <1>15 DEF ConsumeLine
    <2> HIDE DEF row
    <2>2. job'[w].tx = Append(job[w].tx, row) /\ job'[w].queue = Tail(job[w].queue)
      BY <1>1, <2>1 DEF Job
    <2>3. Len(job'[w].tx) + Len(job'[w].queue) = Len(job[w].tx) + Len(job[w].queue)
      <3>1. row \in Entry /\ job[w].queue # <<>>
        <4>1. Head(job[w].queue) \in Lines /\ job[w].queue # <<>>
          BY <1>15, FieldTypes DEF ConsumeLine
        <4> QED BY <4>1, OutcomeType DEF Entry, row
      <3>2. job[w].tx \in Seq(Entry) /\ job[w].queue \in Seq(Lines)
        BY FieldTypes
      <3>3. Len(Append(job[w].tx, row)) + Len(Tail(job[w].queue))
              = Len(job[w].tx) + Len(job[w].queue)
        BY <3>1, <3>2, MovedLength
      <3> QED BY <2>2, <3>3
    <2>4. pc' = pc /\ pc[w] = "consume" /\ \A v \in Workers : v # w => job'[v] = job[v]
      BY <1>1, <1>15 DEF ConsumeLine
    <2> QED BY <2>3, <2>4 DEF BatchSound
  <1>16. ASSUME NEW w \in Workers, Commit(w) PROVE BatchSound'
    <2>1. [Idle(w) EXCEPT !.cont = "ready"].tx = <<>>
          /\ [Idle(w) EXCEPT !.cont = "ready"].queue = <<>>
      BY IdleType, IdleFields DEF Job
    <2> QED BY <1>3, <1>16, <2>1 DEF Commit
  <1>17. ASSUME NEW w \in Workers, Ends(w) PROVE BatchSound'
    <2>1. NoJob.tx = <<>> /\ NoJob.queue = <<>>
      BY DEF NoJob
    <2> QED BY <1>3, <1>17, <2>1 DEF Ends
  <1>18. ASSUME NEW w \in Workers, Fails(w) PROVE BatchSound'
    BY <1>3, <1>18, IdleFields DEF Fails
  <1>19. ASSUME NEW w \in Workers, RefuseJournal(w) \/ Close(w) \/ Crash(w)
         PROVE  BatchSound'
    BY <1>17, <1>19 DEF RefuseJournal, Close, Crash
  <1>20. ASSUME NEW w \in Workers, StopPoll(w) \/ PollFault(w)
         PROVE  BatchSound'
    BY <1>18, <1>20 DEF StopPoll, PollFault
  <1>21. CASE Environment
    BY <1>2, <1>21
       DEF Environment, WriteFragment, WriteLine, DisturbSource, EditJournal, Outside
  <1> QED
    BY <1>4, <1>5, <1>6, <1>7, <1>8, <1>9, <1>10, <1>11, <1>12, <1>13, <1>14,
       <1>15, <1>16, <1>19, <1>20, <1>21 DEF Next, Step

LEMMA ContractInit == Init => ContractPinned
  BY DEF Init, ContractPinned, NoMeta, Running

LEMMA ContractStep ==
  TypeOK /\ SingleWriter /\ ContractPinned /\ [Next]_vars => ContractPinned'
  <1> SUFFICES ASSUME TypeOK, SingleWriter, ContractPinned, [Next]_vars
               PROVE  ContractPinned'
    OBVIOUS
  <1>1. pc \in [Workers -> Phases] /\ job \in [Workers -> Job]
    BY DEF TypeOK
  (* A step of a running worker that keeps its contract.                   *)
  <1>2. ASSUME NEW w \in Workers, Running(w), meta' = meta,
               \A v \in Workers : /\ v # w => pc'[v] = pc[v]
                                  /\ job'[v].contract = job[v].contract
        PROVE  ContractPinned'
    BY <1>2, Alone DEF ContractPinned, Running
  <1>3. ASSUME meta' = meta, pc' = pc, job' = job PROVE ContractPinned'
    BY <1>3 DEF ContractPinned, Running
  <1>4. ASSUME NEW w \in Workers, NEW j \in Job, Running(w), meta' = meta,
               \A v \in Workers : v # w => pc'[v] = pc[v],
               job' = [job EXCEPT ![w] = j], j.contract = job[w].contract
        PROVE  ContractPinned'
    BY <1>1, <1>2, <1>4
  <1>5. ASSUME NEW w \in Workers, Ends(w) PROVE ContractPinned'
    <2>1. meta' = meta /\ pc'[w] = "down"
          /\ \A v \in Workers : v # w => pc'[v] = pc[v] /\ job'[v] = job[v]
      BY <1>1, <1>5 DEF Ends, checkpoint
    <2> QED BY <2>1 DEF ContractPinned, Running
  <1>6. ASSUME NEW w \in Workers, Running(w), Fails(w) PROVE ContractPinned'
    BY <1>1, <1>4, <1>6, IdleType, IdleFields DEF Fails
  <1>7. CASE UNCHANGED vars
    BY <1>3, <1>7 DEF vars
  <1>8. ASSUME NEW w \in Workers, NEW c \in Contracts, Start(w, c)
        PROVE  ContractPinned'
    <2>1. \A v \in Workers : v # w => pc'[v] = "down"
      BY <1>1, <1>8, NobodyRuns DEF Start
    <2>2. job'[w].contract = c /\ c # None
      BY <1>1, <1>8, ModesAssumption DEF Start, NoJob
    <2>3. meta'.contract = c
      BY <1>8 DEF Start, NoMeta
    <2> QED BY <2>1, <2>2, <2>3 DEF ContractPinned, Running
  <1>9. ASSUME NEW w \in Workers, RecoverRow(w) PROVE ContractPinned'
    BY <1>3, <1>9 DEF RecoverRow, checkpoint
  <1>10. ASSUME NEW w \in Workers, FinishRecovery(w) PROVE ContractPinned'
    BY <1>1, <1>2, <1>10 DEF FinishRecovery, checkpoint, Running
  <1>11. ASSUME NEW w \in Workers, ReadOutbox(w) PROVE ContractPinned'
    <2>1. [job[w] EXCEPT !.outbox = snapshot].contract = job[w].contract
      BY <1>1 DEF Job
    <2>2. job' = job \/ job' = [job EXCEPT ![w] = [job[w] EXCEPT !.outbox = snapshot]]
      BY <1>1, <1>11 DEF ReadOutbox
    <2>3. \A v \in Workers : job'[v].contract = job[v].contract
      BY <1>1, <2>1, <2>2
    <2>4. Running(w) /\ meta' = meta /\ \A v \in Workers : v # w => pc'[v] = pc[v]
      BY <1>1, <1>11 DEF ReadOutbox, checkpoint, Running
    <2> QED BY <1>2, <2>3, <2>4
  <1>12. ASSUME NEW w \in Workers, Deliver(w) PROVE ContractPinned'
    BY <1>1, <1>2, <1>12, IdleFields DEF Deliver, checkpoint, Running
  <1>13. ASSUME NEW w \in Workers, SaveRun(w) PROVE ContractPinned'
    BY <1>1, <1>2, <1>13, IdleFields DEF SaveRun, checkpoint, Running
  <1>14. ASSUME NEW w \in Workers, BeginPoll(w) PROVE ContractPinned'
    BY <1>1, <1>2, <1>14 DEF BeginPoll, checkpoint, Running, Job
  <1>15. ASSUME NEW w \in Workers, Verify(w) PROVE ContractPinned'
    BY <1>1, <1>2, <1>15 DEF Verify, checkpoint, Running, Job
  <1>16. ASSUME NEW w \in Workers, ReadLine(w) PROVE ContractPinned'
    BY <1>1, <1>2, <1>16 DEF ReadLine, Reading, checkpoint, Running, Job
  <1>17. ASSUME NEW w \in Workers, EndRead(w) PROVE ContractPinned'
    <2>1. [Idle(w) EXCEPT !.queue = job[w].queue, !.state = BatchStatus(w)].contract
            = job[w].contract
      BY IdleType, IdleFields DEF Job
    <2> QED BY <1>1, <1>2, <1>17, <2>1 DEF EndRead, checkpoint, Running
  <1>18. ASSUME NEW w \in Workers, ConsumeLine(w) PROVE ContractPinned'
    BY <1>1, <1>2, <1>18 DEF ConsumeLine, checkpoint, Running, Job
  <1>19. ASSUME NEW w \in Workers, Commit(w) PROVE ContractPinned'
    <2>1. [Idle(w) EXCEPT !.cont = "ready"].contract = job[w].contract
      BY IdleType, IdleFields DEF Job
    <2>2. job'[w].contract = job[w].contract /\ meta'.contract = meta.contract
          /\ pc[w] = "consume"
      BY <1>1, <1>19, <2>1 DEF Commit
    <2>3. \A v \in Workers : v # w => pc'[v] = "down"
      BY <1>1, <1>19, Alone DEF Commit, Running
    <2> QED BY <2>2, <2>3 DEF ContractPinned, Running
  <1>20. ASSUME NEW w \in Workers, StopPoll(w) \/ PollFault(w)
         PROVE  ContractPinned'
    BY <1>6, <1>20, BlockedRuns, InPollRuns DEF StopPoll, PollFault
  <1>21. ASSUME NEW w \in Workers, RefuseJournal(w) \/ Close(w) \/ Crash(w)
         PROVE  ContractPinned'
    BY <1>5, <1>21 DEF RefuseJournal, Close, Crash
  <1>22. CASE Environment
    BY <1>3, <1>22
       DEF Environment, WriteFragment, WriteLine, DisturbSource, EditJournal,
           Outside, checkpoint
  <1> QED
    BY <1>7, <1>8, <1>9, <1>10, <1>11, <1>12, <1>13, <1>14, <1>15, <1>16,
       <1>17, <1>18, <1>19, <1>20, <1>21, <1>22 DEF Next, Step

-----------------------------------------------------------------------------
(* Journal, checkpoint and memory.                                         *)

LEMMA PositionsInit == Init => PositionsAgree
  BY EmptyLength DEF Init, PositionsAgree, NoMeta

(* An edit changes a row, never the number of rows.                        *)
LEMMA EditKeepsLength ==
  ASSUME TypeOK, EditJournal
  PROVE  Len(journal') = Len(journal)
  BY DEF EditJournal, TypeOK

LEMMA PositionsStep ==
  /\ TypeOK /\ SingleWriter /\ BatchSound /\ ContractPinned
  /\ PositionsAgree /\ [Next]_vars
  => PositionsAgree'
  <1> SUFFICES ASSUME TypeOK, SingleWriter, BatchSound, ContractPinned,
                      PositionsAgree, [Next]_vars
               PROVE  PositionsAgree'
    OBVIOUS
  <1>1. /\ pc \in [Workers -> Phases] /\ job \in [Workers -> Job]
        /\ ram \in [Workers -> Memory] /\ journal \in Seq(Entry)
        /\ meta \in Meta
    BY DEF TypeOK
  <1>2. ASSUME pc' = pc, ram' = ram, job' = job, meta' = meta,
               Len(journal') = Len(journal)
        PROVE  PositionsAgree'
    BY <1>2 DEF PositionsAgree
  (* A step of w to a phase in which its memory is the committed prefix.   *)
  <1>3. ASSUME NEW w \in Workers, Running(w),
               \A v \in Workers : v # w => pc'[v] = pc[v],
               pc'[w] \notin {"recover", "consume"},
               ram[w].digest = meta.prefix \/ pc'[w] \in {"down", "failed"},
               ram' = ram \/ pc'[w] = "down",
               meta' = meta, journal' = journal
        PROVE  PositionsAgree'
    BY <1>3, Alone DEF PositionsAgree
  <1>4. ASSUME NEW w \in Workers, Running(w), Ends(w) PROVE PositionsAgree'
    BY <1>1, <1>3, <1>4 DEF Ends, checkpoint
  <1>5. ASSUME NEW w \in Workers, Running(w), Fails(w) PROVE PositionsAgree'
    BY <1>1, <1>3, <1>5 DEF Fails
  <1>6. CASE UNCHANGED vars
    BY <1>2, <1>6 DEF vars
  <1>7. ASSUME NEW w \in Workers, NEW c \in Contracts, Start(w, c)
        PROVE  PositionsAgree'
    <2>1. \A v \in Workers : v # w => pc'[v] = "down"
      BY <1>1, <1>7, NobodyRuns DEF Start
    <2>2. ram'[w].digest = <<>> /\ Len(ram'[w].digest) = 0 /\ journal' = journal
      BY <1>1, <1>7, EmptyLength DEF Start, FreshMemory, checkpoint
    <2>3. CASE meta.contract = None /\ meta' = [NoMeta EXCEPT !.contract = c]
               /\ pc'[w] = "outbox"
      <3>1. meta'.lines = 0 /\ meta'.prefix = <<>> /\ Len(meta'.prefix) = 0
        BY <2>3, EmptyLength DEF NoMeta
      <3>2. Len(journal) = 0
        BY <2>3 DEF PositionsAgree, ContractPinned
      <3> QED BY <2>1, <2>2, <2>3, <3>1, <3>2 DEF PositionsAgree
    <2>4. CASE meta' = meta /\ pc'[w] = "recover"
      <3>1. 0 <= meta.lines
        BY <1>1 DEF Meta
      <3> QED BY <2>1, <2>2, <2>4, <3>1 DEF PositionsAgree
    <2> QED BY <1>1, <1>7, <2>3, <2>4 DEF Start
  <1>8. ASSUME NEW w \in Workers, RecoverRow(w) PROVE PositionsAgree'
    <2>1. Len(ram'[w].digest) = Len(ram[w].digest) + 1
      BY <1>1, <1>8, FieldTypes DEF RecoverRow, Absorb
    <2>2. Len(ram[w].digest) + 1 \in 1 .. Len(journal)
      BY <1>8, NextRow DEF RecoverRow
    <2>3. pc' = pc /\ meta' = meta /\ journal' = journal /\ pc[w] = "recover"
      BY <1>8 DEF RecoverRow, checkpoint
    <2>4. Running(w)
      BY <2>3 DEF Running
    <2> QED BY <2>1, <2>2, <2>3, <2>4, Alone DEF PositionsAgree
  <1>9. ASSUME NEW w \in Workers, FinishRecovery(w) PROVE PositionsAgree'
    BY <1>1, <1>3, <1>9
       DEF FinishRecovery, ReplayComplete, checkpoint, Running
  <1>10. ASSUME NEW w \in Workers,
                \/ ReadOutbox(w) \/ Deliver(w) \/ SaveRun(w) \/ BeginPoll(w)
                \/ Verify(w) \/ ReadLine(w)
         PROVE  PositionsAgree'
    <2>1. /\ pc[w] \in {"outbox", "deliver", "save", "ready", "verify", "read"}
          /\ meta' = meta /\ journal' = journal /\ ram' = ram
          /\ \A v \in Workers : v # w => pc'[v] = pc[v]
      BY <1>1, <1>10
         DEF ReadOutbox, Deliver, SaveRun, BeginPoll, Verify, ReadLine, Reading,
             checkpoint
    <2>2. pc'[w] \in {"deliver", "save", "outbox", "read", "verify", "ready"}
      <3>1. job[w].cont \in {"verify", "ready"}
        BY FieldTypes DEF Continuations
      <3> QED BY <1>1, <1>10, <3>1
              DEF ReadOutbox, Deliver, SaveRun, BeginPoll, Verify, ReadLine, Reading
    <2>3. ram[w].digest = meta.prefix /\ Running(w)
      BY <2>1 DEF PositionsAgree, Running
    <2> QED BY <1>3, <2>1, <2>2, <2>3
  <1>11. ASSUME NEW w \in Workers, EndRead(w) PROVE PositionsAgree'
    <2>1. /\ pc[w] = "read" /\ pc'[w] = "consume" /\ meta' = meta
          /\ journal' = journal /\ ram' = ram
          /\ \A v \in Workers : v # w => pc'[v] = pc[v]
      BY <1>1, <1>11 DEF EndRead, checkpoint
    <2>2. [Idle(w) EXCEPT !.queue = job[w].queue, !.state = BatchStatus(w)].tx = <<>>
      BY IdleType, IdleFields DEF Job
    <2>3. Len(job'[w].tx) = 0
      BY <1>1, <1>11, <2>2, EmptyLength DEF EndRead
    <2>4. ram[w].digest = meta.prefix /\ Running(w)
      BY <2>1 DEF PositionsAgree, Running
    <2>5. Len(ram'[w].digest) = meta'.lines + Len(job'[w].tx)
      BY <1>1, <2>1, <2>3, <2>4 DEF PositionsAgree, Meta
    <2> QED BY <2>1, <2>4, <2>5, Alone DEF PositionsAgree
  <1>12. ASSUME NEW w \in Workers, ConsumeLine(w) PROVE PositionsAgree'
    <2> DEFINE row == [raw |-> Head(job[w].queue),
                       outcome |-> Outcome(ram[w], Head(job[w].queue))]
    <2>1. /\ pc[w] = "consume" /\ pc' = pc /\ meta' = meta /\ journal' = journal
          /\ ram'[w].digest = Append(ram[w].digest, Head(job[w].queue))
      BY <1>1, <1>12 DEF ConsumeLine, Absorb, checkpoint
    <2>2. job'[w].tx = Append(job[w].tx, row)
      BY <1>1, <1>12 DEF ConsumeLine, Job
    <2> HIDE DEF row
    <2>3. /\ Len(ram'[w].digest) = Len(ram[w].digest) + 1
          /\ Len(job'[w].tx) = Len(job[w].tx) + 1
          /\ \A n \in 1 .. Len(ram[w].digest) : ram'[w].digest[n] = ram[w].digest[n]
      BY <2>1, <2>2, FieldTypes
    <2>4. Len(ram[w].digest) = meta.lines + Len(job[w].tx)
          /\ \A n \in 1 .. meta.lines : ram[w].digest[n] = meta.prefix[n]
      BY <2>1 DEF PositionsAgree
    <2>5. Running(w) /\ meta.lines \in Nat /\ Len(job[w].tx) \in Nat
      BY <1>1, <2>1, FieldTypes DEF Running, Meta
    <2>6. Len(ram'[w].digest) = meta.lines + Len(job'[w].tx)
      <3>1. \A a, b, c \in Nat : c + (b + 1) = (c + b) + 1
        OBVIOUS
      <3> QED BY <2>3, <2>4, <2>5, <3>1
    <2>7. 1 .. meta.lines \subseteq 1 .. Len(ram[w].digest)
      BY <2>4, <2>5
    <2>8. \A n \in 1 .. meta.lines : ram'[w].digest[n] = meta.prefix[n]
      BY <2>3, <2>4, <2>7
    <2> QED BY <2>1, <2>5, <2>6, <2>8, Alone DEF PositionsAgree
  <1>13. ASSUME NEW w \in Workers, Commit(w) PROVE PositionsAgree'
    <2>1. /\ pc[w] = "consume" /\ pc'[w] = "outbox" /\ ram' = ram
          /\ meta'.lines = Len(ram[w].digest) /\ meta'.prefix = ram[w].digest
          /\ journal' = journal \o job[w].tx
          /\ \A v \in Workers : v # w => pc'[v] = pc[v]
      BY <1>1, <1>13 DEF Commit
    <2>2. Len(journal') = Len(journal) + Len(job[w].tx)
      BY <1>1, <2>1, FieldTypes
    <2>3. Len(journal') = meta'.lines /\ Running(w)
      BY <2>1, <2>2 DEF PositionsAgree, Running
    <2> QED BY <2>1, <2>3, Alone DEF PositionsAgree
  <1>14. ASSUME NEW w \in Workers, StopPoll(w) \/ PollFault(w)
         PROVE  PositionsAgree'
    BY <1>5, <1>14, BlockedRuns, InPollRuns DEF StopPoll, PollFault
  <1>15. ASSUME NEW w \in Workers, RefuseJournal(w) \/ Close(w) \/ Crash(w)
         PROVE  PositionsAgree'
    BY <1>4, <1>15 DEF RefuseJournal, Close, Crash, Running
  <1>16. CASE Environment
    BY <1>2, <1>16, EditKeepsLength
       DEF Environment, WriteFragment, WriteLine, DisturbSource, EditJournal,
           Outside, checkpoint
  <1> QED
    BY <1>6, <1>7, <1>8, <1>9, <1>10, <1>11, <1>12, <1>13, <1>14, <1>15, <1>16
       DEF Next, Step

LEMMA CoreInvariant == Spec => []Core
  <1>1. Init => Core
    BY TypeInit, LockInit, MemoryInit, BatchInit, ContractInit, PositionsInit
       DEF Core
  <1>2. Core /\ [Next]_vars => Core'
    BY TypeStep, LockStep, MemoryStep, BatchStep, ContractStep, PositionsStep
       DEF Core
  <1> QED BY <1>1, <1>2, PTL DEF Spec

(* The line consumed next is never out of order for the detectors and its  *)
(* row never meets the primary key of a row already there.                 *)
THEOREM DetectorsNeverRefuse == Spec => []SessionNeverRefuses
  <1>1. Core => SessionNeverRefuses
    <2>1. SUFFICES ASSUME Core, NEW w \in Workers, pc[w] = "consume",
                          job[w].queue # <<>>
                   PROVE  RowFree(w) /\ ~ SessionRefuses(ram[w], Head(job[w].queue))
      BY DEF SessionNeverRefuses
    <2>2. RowFree(w)
      BY <2>1 DEF Core, PositionsAgree, RowFree
    <2>3. Head(job[w].queue) \in Lines
      BY <2>1, FieldTypes DEF Core
    <2>4. ~ SessionRefuses(ram[w], Head(job[w].queue))
      BY <2>1, <2>3, NeverRefused DEF Core, MemorySound
    <2> QED BY <2>2, <2>4
  <1> QED BY <1>1, CoreInvariant, PTL

-----------------------------------------------------------------------------
(* Recovery is exact: memory is the fold of what it has read, a failed     *)
(* worker's and one in the middle of a batch included.                     *)

ReplayStep(context, memory, line) == Absorb(memory, line)
Anything(context, memory) == TRUE
Replaying == INSTANCE FoldProofs WITH Op <- ReplayStep, Holds <- Anything
ReplaySound == \A w \in Workers : ram[w] = Replay(ram[w].digest)

LEMMA ReplayIsResult == \A s : Replay(s) = Replaying!Result(None, FreshMemory, s)
  BY DEF Replaying!Result, Replaying!Folded, Replay, Folded, ReplayStep

LEMMA ReplayFresh == FreshMemory = Replay(FreshMemory.digest)
  <1>1. FreshMemory.digest = <<>>
    BY DEF FreshMemory
  <1>2. Replaying!Result(None, FreshMemory, <<>>) = FreshMemory
    BY Replaying!FoldEmpty
  <1> QED BY <1>1, <1>2, ReplayIsResult

LEMMA ReplayAbsorb ==
  ASSUME NEW memory \in Memory, memory = Replay(memory.digest), NEW line \in Lines
  PROVE  Absorb(memory, line) = Replay(Absorb(memory, line).digest)
  <1>1. memory.digest \in Seq(Lines)
    BY DEF Memory
  <1>2. Replaying!Result(None, FreshMemory, Append(memory.digest, line))
          = ReplayStep(None, Replaying!Result(None, FreshMemory, memory.digest), line)
    BY <1>1, Replaying!FoldAppend
  <1>3. Absorb(memory, line).digest = Append(memory.digest, line)
    BY DEF Absorb
  <1> QED BY <1>2, <1>3, ReplayIsResult DEF ReplayStep

LEMMA ReplayInvariant == Spec => []ReplaySound
  <1>1. Init => ReplaySound
    BY ReplayFresh DEF Init, ReplaySound
  <1>2. TypeOK /\ ReplaySound /\ [Next]_vars => ReplaySound'
    <2> SUFFICES ASSUME TypeOK, ReplaySound, [Next]_vars PROVE ReplaySound'
      OBVIOUS
    <2>1. ram \in [Workers -> Memory] /\ Remembers
      BY MemoryMoves DEF TypeOK
    <2>2. CASE ram' = ram
      BY <2>2 DEF ReplaySound
    <2>3. ASSUME NEW w \in Workers, Renewed(w) PROVE ReplaySound'
      BY <2>1, <2>3, ReplayFresh DEF ReplaySound, Renewed
    <2>4. ASSUME NEW w \in Workers, NEW line \in Lines, Extended(w, line) PROVE ReplaySound'
      <3>1. Absorb(ram[w], line) = Replay(Absorb(ram[w], line).digest)
        BY <2>1, ReplayAbsorb DEF ReplaySound
      <3> QED BY <2>1, <2>4, <3>1 DEF ReplaySound, Extended
    <2> QED BY <2>1, <2>2, <2>3, <2>4 DEF Remembers
  <1> QED BY <1>1, <1>2, TypeCorrect, PTL DEF Spec

(* Between polls a worker's memory is what an uninterrupted run over the   *)
(* committed lines would have (_recover replays the journal).              *)
THEOREM RecoveryExact == Spec => []MemoryIsReplay
  <1>1. Core /\ ReplaySound => MemoryIsReplay
    BY DEF Core, PositionsAgree, ReplaySound, MemoryIsReplay
  <1> QED BY <1>1, CoreInvariant, ReplayInvariant, PTL

-----------------------------------------------------------------------------
(* The journal.                                                            *)

LEMMA JournalInit == Init => JournalSound
  BY EmptyLength
     DEF Init, JournalSound, JournalIntact, NoMeta, Serving

LEMMA JournalStep ==
  ASSUME ~ LiveEdits \/ MaxEdits = 0
  PROVE  Core /\ JournalSound /\ [Next]_vars => JournalSound'
  <1> SUFFICES ASSUME Core, JournalSound, [Next]_vars PROVE JournalSound'
    OBVIOUS
  <1>0. TypeOK /\ SingleWriter /\ BatchSound /\ PositionsAgree /\ MemorySound
        /\ ContractPinned
    BY DEF Core
  <1>1. /\ pc \in [Workers -> Phases] /\ job \in [Workers -> Job]
        /\ ram \in [Workers -> Memory] /\ journal \in Seq(Entry)
        /\ meta \in Meta
    BY <1>0 DEF TypeOK
  <1>2. ASSUME pc' = pc, ram' = ram, job' = job, meta' = meta,
               journal' = journal, edits' # 0 \/ edits' = edits
        PROVE  JournalSound'
    BY <1>2 DEF JournalSound, JournalIntact, Serving
  (* A step of w that leaves the journal alone and w not in the middle of  *)
  (* anything; w served before, if it serves after.                        *)
  <1>3. ASSUME NEW w \in Workers, Running(w),
               \A v \in Workers : v # w => pc'[v] = pc[v],
               pc'[w] \notin {"recover", "consume"},
               pc'[w] # "down" => JournalIntact,
               meta' = meta, journal' = journal, edits' = edits
        PROVE  JournalSound'
    <2>1. JournalIntact' <=> JournalIntact
      BY <1>3 DEF JournalIntact
    <2>2. \A v \in Workers : v # w => pc'[v] = "down"
      BY <1>0, <1>3, Alone
    <2> QED BY <1>3, <2>1, <2>2 DEF JournalSound, Serving
  <1>4. ASSUME NEW w \in Workers, Running(w), Ends(w), edits' = edits
        PROVE  JournalSound'
    BY <1>1, <1>3, <1>4 DEF Ends, checkpoint
  <1>5. ASSUME NEW w \in Workers, Serving(w), Fails(w), edits' = edits
        PROVE  JournalSound'
    BY <1>1, <1>3, <1>5 DEF Fails, JournalSound, Serving, Running
  <1>6. CASE UNCHANGED vars
    BY <1>2, <1>6 DEF vars
  <1>7. ASSUME NEW w \in Workers, NEW c \in Contracts, Start(w, c)
        PROVE  JournalSound'
    <2>1. /\ \A v \in Workers : v # w => pc'[v] = "down"
          /\ journal' = journal /\ edits' = edits
      BY <1>0, <1>1, <1>7, NobodyRuns DEF Start, checkpoint, bounds
    <2>2. CASE meta.contract = None /\ meta' = [NoMeta EXCEPT !.contract = c]
               /\ pc'[w] = "outbox"
      <3>1. meta'.lines = 0 /\ meta'.prefix = <<>> /\ Len(meta'.prefix) = 0
        BY <2>2, EmptyLength DEF NoMeta
      <3>2. Len(journal) = 0
        BY <1>0, <2>2 DEF PositionsAgree, ContractPinned
      <3>3. JournalIntact'
        BY <2>1, <3>1, <3>2 DEF JournalIntact
      <3> QED BY <2>1, <2>2, <3>3 DEF JournalSound, Serving
    <2>3. CASE meta' = meta /\ pc'[w] = "recover"
      <3>1. Len(ram'[w].digest) = 0
        BY <1>1, <1>7, EmptyLength DEF Start, FreshMemory
      <3>2. JournalIntact' <=> JournalIntact
        BY <2>1, <2>3 DEF JournalIntact
      <3> QED BY <2>1, <2>3, <3>1, <3>2 DEF JournalSound, Serving
    <2> QED BY <1>1, <1>7, <2>2, <2>3 DEF Start
  <1>8. ASSUME NEW w \in Workers, RecoverRow(w) PROVE JournalSound'
    <2> DEFINE n == Len(ram[w].digest) + 1
               line == journal[n].raw
               s == Append(ram[w].digest, line)
    <2>1. n \in 1 .. Len(journal) /\ line \in Lines
      BY <1>0, <1>8, NextRow DEF RecoverRow
    <2>2. /\ ram'[w].digest = s /\ pc' = pc /\ meta' = meta /\ journal' = journal
          /\ edits' = edits /\ pc[w] = "recover" /\ job' = job
      BY <1>1, <1>8 DEF RecoverRow, Absorb, checkpoint, bounds
    <2>3. /\ Len(s) = n /\ n \in Nat \ {0} /\ s[n] = line
          /\ \A m \in 1 .. n : m = n \/ m \in 1 .. Len(ram[w].digest)
          /\ \A m \in 1 .. Len(ram[w].digest) :
               m \in Nat \ {0} /\ \A j \in 1 .. m : s[j] = ram[w].digest[j]
      BY <1>0, <2>1, FieldTypes
    <2>4. journal[n].outcome = Verdict(s, n)
      <3>1. Outcome(ram[w], line) = Verdict(s, n)
        BY <1>0, <2>1, OutcomeIsVerdict DEF MemorySound
      <3> QED BY <1>8, <3>1 DEF RecoverRow, RowReplays
    <2>5. \A m \in 1 .. Len(ram[w].digest) :
            Verdict(s, m) = Verdict(ram[w].digest, m)
      BY <2>3, VerdictLocal
    <2>6. \A m \in 1 .. Len(ram[w].digest) :
            /\ journal[m].raw = ram[w].digest[m]
            /\ journal[m].outcome = Verdict(ram[w].digest, m)
      BY <2>2 DEF JournalSound
    <2> HIDE DEF n, s, line
    <2>7. \A m \in 1 .. n : journal[m].raw = s[m] /\ journal[m].outcome = Verdict(s, m)
      <3>1. \A m \in 1 .. Len(ram[w].digest) : s[m] = ram[w].digest[m]
        BY <2>3
      <3> QED BY <2>3, <2>4, <2>5, <2>6, <3>1 DEF line
    <2>8. \A v \in Workers : v # w => pc'[v] = "down"
      BY <1>0, <2>2, Alone DEF Running
    <2>9. (edits = 0 => JournalIntact') /\ ~ Serving(w)'
      BY <2>2 DEF JournalSound, JournalIntact, Serving
    <2> QED BY <2>2, <2>3, <2>7, <2>8, <2>9 DEF JournalSound, Serving
  <1>9. ASSUME NEW w \in Workers, FinishRecovery(w) PROVE JournalSound'
    <2>1. /\ pc[w] = "recover" /\ ram[w].digest = meta.prefix
          /\ Len(meta.prefix) = meta.lines /\ Len(journal) = meta.lines
      BY <1>0, <1>9 DEF FinishRecovery, ReplayComplete, PositionsAgree
    <2>2. JournalIntact
      BY <2>1 DEF JournalIntact, JournalSound
    <2> QED BY <1>1, <1>3, <1>9, <2>1, <2>2
            DEF FinishRecovery, checkpoint, bounds, Running
  <1>10. ASSUME NEW w \in Workers,
                \/ ReadOutbox(w) \/ Deliver(w) \/ SaveRun(w) \/ BeginPoll(w)
                \/ Verify(w) \/ ReadLine(w)
         PROVE  JournalSound'
    <2>1. /\ pc[w] \in {"outbox", "deliver", "save", "ready", "verify", "read"}
          /\ meta' = meta /\ journal' = journal /\ edits' = edits
          /\ \A v \in Workers : v # w => pc'[v] = pc[v]
      BY <1>1, <1>10
         DEF ReadOutbox, Deliver, SaveRun, BeginPoll, Verify, ReadLine, Reading,
             checkpoint, bounds
    <2>2. pc'[w] \in {"deliver", "save", "outbox", "read", "verify", "ready"}
      <3>1. job[w].cont \in {"verify", "ready"}
        BY <1>0, FieldTypes DEF Continuations
      <3> QED BY <1>1, <1>10, <3>1
              DEF ReadOutbox, Deliver, SaveRun, BeginPoll, Verify, ReadLine, Reading
    <2>3. JournalIntact /\ Running(w)
      BY <2>1 DEF JournalSound, Serving, Running
    <2> QED BY <1>3, <2>1, <2>2, <2>3
  <1>11. ASSUME NEW w \in Workers, EndRead(w) PROVE JournalSound'
    <2>1. /\ pc[w] = "read" /\ pc'[w] = "consume" /\ meta' = meta
          /\ journal' = journal /\ edits' = edits
          /\ \A v \in Workers : v # w => pc'[v] = pc[v]
      BY <1>1, <1>11 DEF EndRead, checkpoint, bounds
    <2>2. [Idle(w) EXCEPT !.queue = job[w].queue, !.state = BatchStatus(w)].tx = <<>>
      BY <1>0, IdleType, IdleFields DEF Job
    <2>3. Len(job'[w].tx) = 0
      BY <1>1, <1>11, <2>2, EmptyLength DEF EndRead
    <2>4. JournalIntact /\ JournalIntact'
      BY <2>1 DEF JournalSound, JournalIntact, Serving
    <2>5. \A v \in Workers : v # w => pc'[v] = "down"
      BY <1>0, <2>1, Alone DEF Running
    <2> QED BY <2>1, <2>3, <2>4, <2>5 DEF JournalSound
  <1>12. ASSUME NEW w \in Workers, ConsumeLine(w) PROVE JournalSound'
    <2> DEFINE line == Head(job[w].queue)
               row == [raw |-> line, outcome |-> Outcome(ram[w], line)]
               d == ram[w].digest
               s == Append(d, line)
               t == job[w].tx
    <2>1. /\ pc[w] = "consume" /\ pc' = pc /\ meta' = meta /\ journal' = journal
          /\ edits' = edits /\ ram'[w].digest = s /\ job'[w].tx = Append(t, row)
      BY <1>1, <1>12 DEF ConsumeLine, Absorb, checkpoint, bounds, Job
    <2>2. line \in Lines /\ d \in Seq(Lines) /\ t \in Seq(Entry)
      BY <1>0, <1>12, FieldTypes DEF ConsumeLine
    <2>3. row \in Entry
      BY <2>2, OutcomeType DEF Entry
    <2>4. row.raw = line /\ row.outcome = Verdict(s, Len(d) + 1)
      BY <1>0, <2>2, OutcomeIsVerdict DEF MemorySound
    <2>5. Len(d) = meta.lines + Len(t) /\ meta.lines \in Nat /\ Len(t) \in Nat
      BY <1>0, <1>1, <2>1, FieldTypes DEF PositionsAgree, Meta
    <2>6. \A i \in 1 .. Len(t) : /\ t[i].raw = d[meta.lines + i]
                                /\ t[i].outcome = Verdict(d, meta.lines + i)
      BY <2>1 DEF JournalSound
    <2> HIDE DEF line, row, d, t
    <2>7. /\ s[Len(d) + 1] = line
          /\ \A m \in 1 .. Len(d) : s[m] = d[m]
          /\ Append(t, row)[Len(t) + 1] = row
          /\ Len(Append(t, row)) = Len(t) + 1
          /\ \A i \in 1 .. Len(t) : Append(t, row)[i] = t[i]
      <3>1. /\ s[Len(d) + 1] = line
            /\ \A m \in 1 .. Len(d) : s[m] = d[m]
        BY <2>2
      <3>2. /\ Append(t, row)[Len(t) + 1] = row
            /\ Len(Append(t, row)) = Len(t) + 1
            /\ \A i \in 1 .. Len(t) : Append(t, row)[i] = t[i]
        BY <2>2, <2>3
      <3> QED BY <3>1, <3>2
    <2> HIDE DEF s
    <2>8. \A i \in 1 .. Len(t) :
            /\ meta.lines + i \in Nat \ {0} /\ meta.lines + i \in 1 .. Len(d)
            /\ \A m \in 1 .. meta.lines + i : m \in 1 .. Len(d)
      BY <2>5
    <2>9. \A i \in 1 .. Len(t) : Verdict(s, meta.lines + i) = Verdict(d, meta.lines + i)
      <3>1. \A i \in 1 .. Len(t) : \A m \in 1 .. meta.lines + i : s[m] = d[m]
        BY <2>7, <2>8, Zenon
      <3> QED BY <3>1, <2>8, VerdictLocal
    <2>10. \A i \in 1 .. Len(t) + 1 :
             /\ Append(t, row)[i].raw = s[meta.lines + i]
             /\ Append(t, row)[i].outcome = Verdict(s, meta.lines + i)
      <3>1. ASSUME NEW i \in 1 .. Len(t)
            PROVE  /\ Append(t, row)[i].raw = s[meta.lines + i]
                   /\ Append(t, row)[i].outcome = Verdict(s, meta.lines + i)
        BY <2>6, <2>7, <2>8, <2>9
      <3>2. Len(d) + 1 = meta.lines + (Len(t) + 1)
        BY <2>5
      <3>3. /\ Append(t, row)[Len(t) + 1].raw = s[meta.lines + (Len(t) + 1)]
            /\ Append(t, row)[Len(t) + 1].outcome = Verdict(s, meta.lines + (Len(t) + 1))
        BY <2>4, <2>7, <3>2
      <3>4. \A i \in 1 .. Len(t) + 1 : i \in 1 .. Len(t) \/ i = Len(t) + 1
        BY <2>5
      <3> QED BY <3>1, <3>3, <3>4, Zenon
    <2>11. JournalIntact /\ JournalIntact'
      BY <2>1 DEF JournalSound, JournalIntact, Serving
    <2>12. \A v \in Workers : v # w => pc'[v] = "down"
      BY <1>0, <2>1, Alone DEF Running
    <2>13. \A i \in 1 .. Len(job'[w].tx) :
             /\ job'[w].tx[i].raw = ram'[w].digest[meta'.lines + i]
             /\ job'[w].tx[i].outcome = Verdict(ram'[w].digest, meta'.lines + i)
      BY <2>1, <2>7, <2>10
    <2>14. pc'[w] = "consume"
      BY <2>1
    <2> QED BY <2>11, <2>12, <2>13, <2>14 DEF JournalSound
  <1>13. ASSUME NEW w \in Workers, Commit(w) PROVE JournalSound'
    <2> DEFINE d == ram[w].digest
               t == job[w].tx
    <2>1. /\ pc[w] = "consume" /\ pc'[w] = "outbox" /\ edits' = edits
          /\ meta'.lines = Len(d) /\ meta'.prefix = d /\ journal' = journal \o t
          /\ \A v \in Workers : v # w => pc'[v] = pc[v]
      BY <1>1, <1>13 DEF Commit, bounds
    <2>2. d \in Seq(Lines) /\ t \in Seq(Entry)
      BY <1>0, FieldTypes
    <2>3. /\ Len(d) = meta.lines + Len(t) /\ Len(journal) = meta.lines
          /\ meta.lines \in Nat /\ Len(t) \in Nat
          /\ \A n \in 1 .. meta.lines : d[n] = meta.prefix[n]
      BY <1>0, <1>1, <2>1, FieldTypes DEF PositionsAgree, Meta
    <2>4. /\ \A n \in 1 .. meta.lines : journal'[n] = journal[n]
          /\ \A n \in 1 .. Len(d) : n \notin 1 .. meta.lines =>
               /\ n - meta.lines \in 1 .. Len(t)
               /\ journal'[n] = t[n - meta.lines]
               /\ meta.lines + (n - meta.lines) = n
          /\ Len(journal') = Len(d)
      <3> HIDE DEF d, t
      <3>1. journal \in Seq(Entry)
        BY <1>1
      <3>2. /\ Len(journal') = Len(journal) + Len(t)
            /\ \A n \in 1 .. Len(journal) + Len(t) :
                 journal'[n] = IF n <= Len(journal) THEN journal[n] ELSE t[n - Len(journal)]
        BY <2>1, <2>2, <3>1, ConcatProperties
      <3>3. Len(journal') = Len(d)
        BY <2>3, <3>2
      <3>4. \A n \in 1 .. meta.lines : n \in 1 .. Len(journal) + Len(t) /\ n <= Len(journal)
        BY <2>3
      <3>5. \A n \in 1 .. Len(d) : n \notin 1 .. meta.lines =>
               /\ n - meta.lines \in 1 .. Len(t) /\ meta.lines + (n - meta.lines) = n
               /\ n \in 1 .. Len(journal) + Len(t) /\ ~(n <= Len(journal))
        BY <2>3
      <3>6. \A n \in 1 .. meta.lines : journal'[n] = journal[n]
        BY <3>2, <3>4
      <3>7. \A n \in 1 .. Len(d) : n \notin 1 .. meta.lines => journal'[n] = t[n - meta.lines]
        BY <2>3, <3>2, <3>5
      <3> QED BY <3>3, <3>5, <3>6, <3>7
    <2>5. JournalIntact
      BY <2>1 DEF JournalSound, Serving
    <2>6. \A i \in 1 .. Len(t) : /\ t[i].raw = d[meta.lines + i]
                                /\ t[i].outcome = Verdict(d, meta.lines + i)
      BY <2>1 DEF JournalSound
    <2> HIDE DEF d, t
    <2>7. \A n \in 1 .. meta.lines : Verdict(meta.prefix, n) = Verdict(d, n)
      <3>1. \A n \in 1 .. meta.lines :
              n \in Nat \ {0} /\ \A m \in 1 .. n : m \in 1 .. meta.lines
        BY <2>3
      <3> QED BY <2>3, <3>1, VerdictLocal
    <2>8. ASSUME NEW n \in 1 .. Len(d)
          PROVE  journal'[n].raw = d[n] /\ journal'[n].outcome = Verdict(d, n)
      <3>1. CASE n \in 1 .. meta.lines
        BY <2>3, <2>4, <2>5, <2>7, <3>1 DEF JournalIntact
      <3>2. CASE n \notin 1 .. meta.lines
        BY <2>4, <2>6, <3>2
      <3> QED BY <3>1, <3>2
    <2>9. JournalIntact'
      BY <2>1, <2>4, <2>8 DEF JournalIntact
    <2>10. \A v \in Workers : v # w => pc'[v] = "down"
      BY <1>0, <2>1, Alone DEF Running
    <2> QED BY <2>1, <2>9, <2>10 DEF JournalSound
  <1>14. ASSUME NEW w \in Workers, StopPoll(w) PROVE JournalSound'
    BY <1>5, <1>14 DEF StopPoll, Blocked, Reading, Serving, bounds
  <1>15. ASSUME NEW w \in Workers, PollFault(w) PROVE JournalSound'
    BY <1>5, <1>15 DEF PollFault, InPoll, Serving
  <1>16. ASSUME NEW w \in Workers, RefuseJournal(w) \/ Close(w) \/ Crash(w)
         PROVE  JournalSound'
    BY <1>4, <1>16 DEF RefuseJournal, Close, Crash, Running, bounds
  <1>17. CASE WriteFragment \/ WriteLine
    BY <1>2, <1>17 DEF WriteFragment, WriteLine, checkpoint, bounds
  <1>18. CASE DisturbSource
    <2>1. edits' # 0
      BY <1>0, <1>18, BoundsAssumption DEF DisturbSource, Outside, TypeOK
    <2> QED BY <1>2, <1>18, <2>1 DEF DisturbSource, Outside, checkpoint
  <1>19. CASE EditJournal
    <2>1. edits' # 0
      BY <1>0, <1>19, BoundsAssumption DEF EditJournal, Outside, TypeOK
    <2>2. owner = None /\ pc' = pc
      BY <1>0, <1>19 DEF EditJournal, Outside, TypeOK
    <2>3. \A v \in Workers : pc'[v] = "down"
      BY <1>0, <2>2, NobodyRuns
    <2> QED BY <2>1, <2>3 DEF JournalSound, Serving
  <1> QED
    BY <1>6, <1>7, <1>8, <1>9, <1>10, <1>11, <1>12, <1>13, <1>14, <1>15, <1>16,
       <1>17, <1>18, <1>19 DEF Next, Step, Environment

LEMMA JournalInvariant ==
  ASSUME ~ LiveEdits \/ MaxEdits = 0
  PROVE  Spec => []JournalSound
  <1>1. Core /\ JournalSound /\ [Next]_vars => (JournalSound)'
    BY JournalStep
  <1>2. Init => JournalSound
    BY JournalInit
  <1> QED BY <1>1, <1>2, CoreInvariant, PTL DEF Spec

(* Unless somebody writes to the journal of a live worker, every committed *)
(* line carries the verdict of the policy, and no worker serves on a       *)
(* journal that was changed while it was down.                             *)
THEOREM JournalTrusted ==
  ASSUME ~ LiveEdits \/ MaxEdits = 0
  PROVE  Spec => []JournalTrustworthy
  <1>1. JournalSound => JournalTrustworthy
    BY DEF JournalSound, JournalTrustworthy
  <1> QED BY <1>1, JournalInvariant, PTL

-----------------------------------------------------------------------------
(* Reports and the analyst store.                                          *)

LEMMA FedIsEvidence ==
  ASSUME NEW r \in Memory, NEW report, report.evidence = r.session
  PROVE  EvidenceOf(report) = Fed(r)
  <1>1. DOMAIN r.session = 1 .. Len(r.session)
    BY DEF Memory
  <1> QED BY <1>1 DEF EvidenceOf, Fed

LEMMA NoEvidence == EvidenceOf(NoReport) = {} /\ AcceptedLines(<<>>) = {}
  <1>1. EvidenceOf(NoReport) = {}
    BY DEF EvidenceOf, NoReport
  <1>2. AcceptedLines(<<>>) = {}
    BY EmptyLength DEF AcceptedLines
  <1> QED BY <1>1, <1>2

(* A longer prefix accepts the same lines of a shorter one.                *)
LEMMA AcceptedGrows ==
  ASSUME NEW s \in Seq(Lines), NEW t \in Seq(Lines), Len(s) <= Len(t),
         \A n \in 1 .. Len(s) : s[n] = t[n]
  PROVE  /\ AcceptedLines(s) = AcceptedLines(t) \cap (1 .. Len(s))
         /\ AcceptedLines(s) \subseteq AcceptedLines(t)
  <1>1. Len(s) \in Nat /\ Len(t) \in Nat
    OBVIOUS
  <1>2. \A n \in 1 .. Len(s) :
          n \in Nat \ {0} /\ n \in 1 .. Len(t) /\ \A m \in 1 .. n : m \in 1 .. Len(s)
    BY <1>1
  <1>3. \A n \in 1 .. Len(s) : Verdict(s, n) = Verdict(t, n)
    BY <1>2, VerdictLocal
  <1> QED BY <1>2, <1>3 DEF AcceptedLines

LEMMA ReportsInit == Init => ReportSound /\ ViewSound
  <1> SUFFICES ASSUME Init PROVE ReportSound /\ ViewSound
    OBVIOUS
  <1>1. /\ meta.lines = 0 /\ meta.prefix = <<>> /\ snapshot = NoReport
        /\ run = NoReport /\ NoReport.lines = 0 /\ evidence = {}
        /\ \A w \in Workers : pc[w] = "down"
    BY DEF Init, NoMeta, NoReport
  <1> QED BY <1>1, NoEvidence, ConstantTypes DEF ReportSound, ViewSound

LEMMA ReportStep ==
  Core /\ ReportSound /\ [Next]_vars => ReportSound'
  <1> SUFFICES ASSUME Core, ReportSound, [Next]_vars PROVE ReportSound'
    OBVIOUS
  <1>0. TypeOK /\ SingleWriter /\ PositionsAgree /\ MemorySound /\ ContractPinned
    BY DEF Core
  <1>1. ASSUME meta' = meta, snapshot' = snapshot PROVE ReportSound'
    BY <1>1 DEF ReportSound, EvidenceOf, NoReport
  <1>2. ASSUME NEW w \in Workers, Fails(w) PROVE ReportSound'
    <2>1. CASE snapshot' = snapshot
      BY <1>1, <1>2, <2>1 DEF Fails
    <2>2. CASE snapshot # NoReport /\ snapshot' = [snapshot EXCEPT !.status = "failed"]
      <3>1. /\ snapshot'.lines = snapshot.lines
            /\ snapshot'.evidence = snapshot.evidence
            /\ snapshot'.contract = snapshot.contract
        BY <1>0, <2>2 DEF TypeOK, Report
      <3>2. EvidenceOf(snapshot') = EvidenceOf(snapshot)
        BY <3>1 DEF EvidenceOf
      <3> QED BY <1>2, <2>2, <3>1, <3>2 DEF Fails, ReportSound
    <2> QED BY <1>2, <2>1, <2>2 DEF Fails
  <1>3. ASSUME NEW w \in Workers, NEW c \in Contracts, Start(w, c)
        PROVE  ReportSound'
    <2>1. CASE meta' = meta
      BY <1>1, <1>3, <2>1 DEF Start
    <2>2. CASE meta.contract = None /\ meta' = [NoMeta EXCEPT !.contract = c]
      <3>1. meta'.lines = 0 /\ meta'.prefix = <<>> /\ snapshot' = snapshot
        BY <1>3, <2>2 DEF Start, NoMeta
      <3>2. snapshot = NoReport
        BY <2>2 DEF ReportSound
      <3> QED BY <3>1, <3>2, NoEvidence DEF ReportSound, NoReport
    <2> QED BY <1>3, <2>1, <2>2 DEF Start
  <1>4. ASSUME NEW w \in Workers, Commit(w) PROVE ReportSound'
    <2>1. /\ snapshot'.lines = meta'.lines /\ snapshot'.evidence = ram[w].session
          /\ meta'.prefix = ram[w].digest /\ meta'.contract = meta.contract
          /\ snapshot'.contract = job[w].contract /\ pc[w] = "consume"
      BY <1>4 DEF Commit
    <2>2. EvidenceOf(snapshot') = Fed(ram[w])
      BY <1>0, <2>1, FedIsEvidence, FieldTypes
    <2>3. Fed(ram[w]) = AcceptedLines(ram[w].digest)
      BY <1>0 DEF MemorySound, Faithful
    <2>4. job[w].contract = meta.contract /\ meta.contract # None
      BY <1>0, <2>1 DEF ContractPinned, Running
    <2> QED BY <2>1, <2>2, <2>3, <2>4 DEF ReportSound
  <1>5. CASE UNCHANGED vars
    BY <1>1, <1>5 DEF vars
  <1>6. ASSUME NEW w \in Workers, Ends(w) PROVE ReportSound'
    BY <1>1, <1>6 DEF Ends, checkpoint
  <1>7. ASSUME NEW w \in Workers,
               \/ RecoverRow(w) \/ FinishRecovery(w) \/ ReadOutbox(w)
               \/ Deliver(w) \/ SaveRun(w) \/ BeginPoll(w) \/ Verify(w)
               \/ ReadLine(w) \/ EndRead(w) \/ ConsumeLine(w)
        PROVE  ReportSound'
    BY <1>1, <1>7
       DEF RecoverRow, FinishRecovery, ReadOutbox, Deliver, SaveRun, BeginPoll,
           Verify, ReadLine, EndRead, ConsumeLine, checkpoint
  <1>8. ASSUME NEW w \in Workers,
               RefuseJournal(w) \/ Close(w) \/ Crash(w) \/ StopPoll(w) \/ PollFault(w)
        PROVE  ReportSound'
    BY <1>2, <1>6, <1>8 DEF RefuseJournal, Close, Crash, StopPoll, PollFault
  <1>9. CASE Environment
    BY <1>1, <1>9
       DEF Environment, WriteFragment, WriteLine, DisturbSource, EditJournal,
           checkpoint
  <1> QED
    BY <1>3, <1>4, <1>5, <1>7, <1>8, <1>9 DEF Next, Step

(* The step of w that saves the report to deliver next.                    *)
LEMMA ViewCommit ==
  ASSUME Core, ReportSound, ViewSound, NEW w \in Workers, Commit(w)
  PROVE  ViewSound'
  <1> DEFINE d == ram[w].digest
             p == meta.prefix
  <1>0. TypeOK /\ SingleWriter /\ PositionsAgree /\ BatchSound /\ ContractPinned
    BY DEF Core
  <1>1. /\ pc[w] = "consume" /\ pc'[w] = "outbox"
        /\ meta'.lines = Len(d) /\ meta'.prefix = d /\ meta'.contract = meta.contract
        /\ run' = run /\ evidence' = evidence
        /\ snapshot'.contract = job[w].contract
        /\ \A v \in Workers : v # w => pc'[v] = pc[v]
    BY <1>0 DEF Commit, TypeOK, store
  <1>2. /\ Len(d) = meta.lines + Len(job[w].tx) /\ Len(p) = meta.lines
        /\ \A n \in 1 .. Len(p) : p[n] = d[n]
        /\ d \in Seq(Lines) /\ p \in Seq(Lines)
        /\ meta.lines \in Nat /\ Len(job[w].tx) \in Nat /\ run.lines \in Nat
    BY <1>0, <1>1, FieldTypes DEF PositionsAgree, TypeOK, Meta, Report
  <1>3. Len(job[w].tx) <= BatchRecords
    <2>1. job[w].queue = <<>>
      BY DEF Commit
    <2>2. Len(job[w].queue) = 0
      BY <2>1, EmptyLength
    <2>3. Len(job[w].tx) + Len(job[w].queue) <= BatchRecords
      BY <1>0 DEF BatchSound
    <2> QED BY <1>2, <2>2, <2>3, ConstantTypes
  <1>4. run.lines = meta.lines
    BY <1>1 DEF ViewSound, ReportSound
  <1> HIDE DEF d, p
  <1>5. /\ AcceptedLines(p) = AcceptedLines(d) \cap (1 .. Len(p))
        /\ AcceptedLines(p) \subseteq AcceptedLines(d)
    BY <1>2, AcceptedGrows
  <1>6. EvidenceOf(run') = AcceptedLines(d) \cap (1 .. run.lines)
    BY <1>1, <1>2, <1>4, <1>5 DEF ViewSound, p
  <1>7. run'.lines <= meta'.lines /\ meta'.lines <= run'.lines + BatchRecords
    BY <1>1, <1>2, <1>3, <1>4, ConstantTypes
  <1>8. snapshot' # NoReport
    BY <1>0, <1>1 DEF ContractPinned, Running, NoReport
  <1>9. \A v \in Workers : v # w => pc'[v] = "down"
    BY <1>0, <1>1, Alone DEF Running
  <1>10. run' = NoReport \/ run'.contract = meta'.contract
    BY <1>1 DEF ViewSound
  <1>11. /\ EvidenceOf(run') \subseteq evidence' /\ evidence' \subseteq AcceptedLines(d)
         /\ AtomicProjection => evidence' = EvidenceOf(run')
    BY <1>1, <1>5 DEF ViewSound, p
  <1> QED BY <1>1, <1>6, <1>7, <1>8, <1>9, <1>10, <1>11 DEF ViewSound

(* The steps of w that publish.                                            *)
LEMMA ViewDelivery ==
  ASSUME Core, ReportSound, ViewSound, NEW w \in Workers, Deliver(w) \/ SaveRun(w)
  PROVE  ViewSound'
  <1>0. TypeOK /\ SingleWriter /\ ContractPinned
    BY DEF Core
  <1>1. /\ pc[w] \in {"deliver", "save"} /\ meta' = meta /\ snapshot' = snapshot
        /\ job[w].outbox = snapshot /\ Running(w)
        /\ \A v \in Workers : v # w => pc'[v] = pc[v]
    BY <1>0 DEF Deliver, SaveRun, ViewSound, Running, checkpoint, TypeOK
  <1>2. \A v \in Workers : v # w => pc'[v] = "down"
    BY <1>0, <1>1, Alone
  <1>3. /\ meta.lines \in Nat /\ snapshot.lines = meta.lines
        /\ EvidenceOf(snapshot) = AcceptedLines(meta.prefix)
        /\ AcceptedLines(meta.prefix) \cap (1 .. meta.lines) = AcceptedLines(meta.prefix)
    <2>1. Len(meta.prefix) = meta.lines
      BY DEF Core, PositionsAgree
    <2> QED BY <1>0, <2>1 DEF ReportSound, AcceptedLines, TypeOK, Meta
  <1>4. snapshot = NoReport \/ (snapshot.contract = meta.contract /\ snapshot # NoReport)
    BY DEF ReportSound
  <1>5. job[w].cont \in {"verify", "ready"}
    BY <1>0, FieldTypes DEF Continuations
  <1>6. ASSUME run' = snapshot, pc'[w] = job[w].cont,
               evidence' = AcceptedLines(meta.prefix)
        PROVE  ViewSound'
    <2>1. EvidenceOf(run') = AcceptedLines(meta'.prefix) /\ run'.lines = meta'.lines
      BY <1>1, <1>3, <1>6
    <2>2. run' = NoReport \/ (run'.contract = meta'.contract /\ snapshot' # NoReport)
      BY <1>1, <1>4, <1>6
    <2>3. run'.lines <= meta'.lines /\ meta'.lines <= run'.lines + BatchRecords
      BY <1>1, <1>3, <2>1, ConstantTypes
    <2> QED BY <1>1, <1>2, <1>3, <1>5, <1>6, <2>1, <2>2, <2>3 DEF ViewSound
  <1>7. CASE Deliver(w) /\ AtomicProjection
    <2>1. evidence' = evidence \cup EvidenceOf(snapshot) /\ run' = snapshot
          /\ pc'[w] = job[w].cont
      BY <1>0, <1>1, <1>7 DEF Deliver, TypeOK
    <2>2. evidence' = AcceptedLines(meta.prefix)
      BY <1>3, <2>1 DEF ViewSound
    <2> QED BY <1>6, <2>1, <2>2
  <1>8. CASE Deliver(w) /\ ~ AtomicProjection
    <2>1. /\ evidence' = evidence \cup EvidenceOf(snapshot) /\ run' = run
          /\ pc'[w] = "save" /\ job'[w].outbox = snapshot'
      BY <1>0, <1>1, <1>8 DEF Deliver, TypeOK
    <2>2. evidence' = AcceptedLines(meta.prefix) /\ EvidenceOf(run') = EvidenceOf(run)
          /\ EvidenceOf(snapshot') = EvidenceOf(snapshot)
      BY <1>1, <1>3, <2>1 DEF ViewSound
    <2>3. EvidenceOf(run) \subseteq evidence'
      BY <2>1 DEF ViewSound
    <2> QED BY <1>1, <1>2, <1>3, <1>8, <2>1, <2>2, <2>3 DEF ViewSound
  <1>9. CASE SaveRun(w)
    <2>1. evidence' = evidence /\ run' = snapshot /\ pc'[w] = job[w].cont
          /\ pc[w] = "save"
      BY <1>0, <1>1, <1>9 DEF SaveRun, TypeOK
    <2>2. evidence' = AcceptedLines(meta.prefix)
      BY <1>3, <2>1 DEF ViewSound
    <2> QED BY <1>6, <2>1, <2>2
  <1> QED BY <1>7, <1>8, <1>9

LEMMA ViewStep ==
  Core /\ ReportSound /\ ViewSound /\ [Next]_vars => ViewSound'
  <1> SUFFICES ASSUME Core, ReportSound, ViewSound, [Next]_vars PROVE ViewSound'
    OBVIOUS
  <1>0. TypeOK /\ SingleWriter /\ ContractPinned /\ PositionsAgree
    BY DEF Core
  <1>1. pc \in [Workers -> Phases] /\ job \in [Workers -> Job] /\ snapshot \in Report
    BY <1>0 DEF TypeOK
  (* Nothing durable changes, nor the delivery of a worker still running.  *)
  <1>2. ASSUME meta' = meta, snapshot' = snapshot, store' = store,
               \A v \in Workers :
                 \/ pc'[v] \in {"down", "recover", "outbox", "ready", "failed"}
                 \/ pc'[v] = pc[v] /\ job'[v].outbox = job[v].outbox
                 \/ pc'[v] \in {"read", "consume"} /\ pc[v] \in {"verify", "read"}
        PROVE  ViewSound'
    <2>1. evidence' = evidence /\ run' = run
      BY <1>2 DEF store
    <2> QED BY <1>2, <2>1 DEF ViewSound, EvidenceOf, NoReport
  <1>3. ASSUME NEW w \in Workers, Ends(w) PROVE ViewSound'
    BY <1>1, <1>2, <1>3 DEF Ends, checkpoint
  <1>4. ASSUME NEW w \in Workers, Running(w), Fails(w) PROVE ViewSound'
    <2>1. /\ meta' = meta /\ run' = run /\ evidence' = evidence
          /\ pc'[w] = "failed"
          /\ \A v \in Workers : v # w => pc'[v] = "down"
      BY <1>0, <1>1, <1>4, Alone DEF Fails, store
    <2>2. snapshot # NoReport => snapshot' # NoReport
      <3>1. [snapshot EXCEPT !.status = "failed"] # NoReport
        BY <1>1 DEF NoReport, Report
      <3> QED BY <1>4, <3>1 DEF Fails
    <2> QED BY <2>1, <2>2 DEF ViewSound, EvidenceOf, NoReport
  <1>5. CASE UNCHANGED vars
    BY <1>2, <1>5 DEF vars, store
  <1>6. ASSUME NEW w \in Workers, NEW c \in Contracts, Start(w, c) PROVE ViewSound'
    <2>1. \A v \in Workers : v # w => pc'[v] = "down"
      BY <1>0, <1>1, <1>6, NobodyRuns DEF Start
    <2>2. pc'[w] \in {"outbox", "recover"} /\ snapshot' = snapshot
          /\ run' = run /\ evidence' = evidence
      BY <1>1, <1>6 DEF Start, store
    <2>3. CASE meta' = meta
      BY <1>2, <2>1, <2>2, <2>3 DEF store
    <2>4. CASE meta.contract = None /\ meta' = [NoMeta EXCEPT !.contract = c]
      <3>1. meta.lines = 0 /\ meta.prefix = <<>>
        <4>1. meta.lines = 0 /\ Len(meta.prefix) = 0 /\ meta.prefix \in Seq(Lines)
          BY <1>0, <2>4 DEF ContractPinned, PositionsAgree, TypeOK, Meta
        <4> QED BY <4>1
      <3>2. meta'.lines = 0 /\ meta'.prefix = <<>>
        BY <2>4 DEF NoMeta
      <3>3. snapshot = NoReport /\ run = NoReport
        BY <2>4 DEF ReportSound, ViewSound
      <3> QED BY <2>1, <2>2, <3>1, <3>2, <3>3 DEF ViewSound
    <2> QED BY <1>6, <2>3, <2>4 DEF Start
  <1>7. ASSUME NEW w \in Workers,
               \/ RecoverRow(w) \/ FinishRecovery(w) \/ BeginPoll(w)
               \/ Verify(w) \/ EndRead(w)
        PROVE  ViewSound'
    BY <1>1, <1>2, <1>7
       DEF RecoverRow, FinishRecovery, BeginPoll, Verify, EndRead, checkpoint, store
  <1>8. ASSUME NEW w \in Workers, ReadLine(w) \/ ConsumeLine(w) PROVE ViewSound'
    <2>1. CASE ReadLine(w)
      <3>1. \A v \in Workers : job'[v].outbox = job[v].outbox
        BY <1>1, <2>1 DEF ReadLine, Job
      <3> QED BY <1>2, <2>1, <3>1 DEF ReadLine, checkpoint, store
    <2>2. CASE ConsumeLine(w)
      <3>1. \A v \in Workers : job'[v].outbox = job[v].outbox
        BY <1>1, <2>2 DEF ConsumeLine, Job
      <3> QED BY <1>2, <2>2, <3>1 DEF ConsumeLine, checkpoint, store
    <2> QED BY <1>8, <2>1, <2>2
  <1>9. ASSUME NEW w \in Workers, ReadOutbox(w) PROVE ViewSound'
    <2>1. /\ pc[w] = "outbox" /\ meta' = meta /\ snapshot' = snapshot
          /\ run' = run /\ evidence' = evidence
          /\ \A v \in Workers : v # w => pc'[v] = pc[v]
      BY <1>1, <1>9 DEF ReadOutbox, checkpoint, store
    <2>2. \A v \in Workers : v # w => pc'[v] = "down"
      BY <1>0, <2>1, Alone DEF Running
    <2>3. job[w].cont \in {"verify", "ready"}
      BY <1>0, FieldTypes DEF Continuations
    <2>4. CASE snapshot = NoReport
      <3>1. pc'[w] \in {"verify", "ready"}
        BY <1>1, <1>9, <2>3, <2>4 DEF ReadOutbox
      <3>2. run = snapshot
        BY <2>4 DEF ViewSound
      <3> QED BY <2>1, <2>2, <3>1, <3>2 DEF ViewSound, EvidenceOf
    <2>5. CASE snapshot # NoReport
      <3>1. pc'[w] = "deliver" /\ job'[w].outbox = snapshot
        BY <1>1, <1>9, <2>5 DEF ReadOutbox, Job
      <3> QED BY <2>1, <2>2, <3>1 DEF ViewSound, EvidenceOf
    <2> QED BY <2>4, <2>5
  <1>10. ASSUME NEW w \in Workers, Deliver(w) \/ SaveRun(w) PROVE ViewSound'
    BY <1>10, ViewDelivery
  <1>11. ASSUME NEW w \in Workers, Commit(w) PROVE ViewSound'
    BY <1>11, ViewCommit
  <1>12. ASSUME NEW w \in Workers, RefuseJournal(w) \/ Close(w) \/ Crash(w)
         PROVE  ViewSound'
    BY <1>3, <1>12 DEF RefuseJournal, Close, Crash
  <1>13. ASSUME NEW w \in Workers, StopPoll(w) \/ PollFault(w) PROVE ViewSound'
    BY <1>4, <1>13, BlockedRuns, InPollRuns DEF StopPoll, PollFault
  <1>14. CASE Environment
    BY <1>2, <1>14
       DEF Environment, WriteFragment, WriteLine, DisturbSource, EditJournal,
           Outside, checkpoint
  <1> QED
    BY <1>5, <1>6, <1>7, <1>8, <1>9, <1>10, <1>11, <1>12, <1>13, <1>14
       DEF Next, Step

LEMMA ReportsInvariant == Spec => [](Core /\ ReportSound /\ ViewSound)
  <1>1. Init => ReportSound /\ ViewSound
    BY ReportsInit
  <1>2. Core /\ ReportSound /\ ViewSound /\ [Next]_vars => (ReportSound /\ ViewSound)'
    BY ReportStep, ViewStep
  <1> QED BY <1>1, <1>2, CoreInvariant, PTL DEF Spec

(* What the analyst store's run shows is exactly what a committed prefix   *)
(* supports, never memory that was rolled back.                            *)
THEOREM RunCommitted == Spec => []RunIsCommitted
  <1>1. ViewSound => RunIsCommitted
    BY DEF ViewSound, RunIsCommitted
  <1> QED BY <1>1, ReportsInvariant, PTL

(* Findings and run are published together, or findings first.             *)
THEOREM StoreAgreement == Spec => []StoreAgrees
  <1>1. ViewSound => StoreAgrees
    BY DEF ViewSound, StoreAgrees
  <1> QED BY <1>1, ReportsInvariant, PTL

(* The analyst store lags the journal by one batch at most.                *)
THEOREM Backpressure == Spec => []OutboxBounded
  <1>1. ReportSound /\ ViewSound => OutboxBounded
    BY DEF ReportSound, ViewSound, OutboxBounded
  <1> QED BY <1>1, ReportsInvariant, PTL

(* One contract made every report of a checkpoint.                         *)
THEOREM ContractUnique == Spec => []SingleContract
  <1>1. Core /\ ReportSound /\ ViewSound => SingleContract
    BY DEF Core, ContractPinned, ReportSound, ViewSound, SingleContract
  <1> QED BY <1>1, ReportsInvariant, PTL

(* A step of the worker, a crash or an edit never takes back what the      *)
(* analyst store shows.                                                    *)
THEOREM ViewMonotone == Spec => ViewNeverRegresses
  <1>1. Core /\ ReportSound /\ ViewSound /\ [Next]_vars
        => [run'.lines >= run.lines /\ evidence \subseteq evidence']_store
    <2> SUFFICES ASSUME Core, ReportSound, ViewSound, [Next]_vars, store' # store
                 PROVE  run'.lines >= run.lines /\ evidence \subseteq evidence'
      OBVIOUS
    <2>1. PICK w \in Workers : Deliver(w) \/ SaveRun(w)
      BY DEF Next, Step, Environment, vars, store, Start, RecoverRow,
             FinishRecovery, RefuseJournal, ReadOutbox, BeginPoll, Verify,
             ReadLine, EndRead, ConsumeLine, Commit, StopPoll, Close, PollFault,
             Crash, Ends, Fails, WriteFragment, WriteLine, DisturbSource,
             EditJournal, Outside
    <2>2. evidence \subseteq evidence'
      BY <2>1 DEF Deliver, SaveRun
    <2>3. run' = run \/ run' = snapshot
      BY <2>1 DEF Deliver, SaveRun, ViewSound
    <2>4. run.lines \in Nat /\ snapshot.lines \in Nat /\ run.lines <= snapshot.lines
      BY DEF Core, TypeOK, Report, ReportSound, ViewSound
    <2> QED BY <2>2, <2>3, <2>4
  <1> QED BY <1>1, ReportsInvariant, PTL DEF Spec, ViewNeverRegresses

-----------------------------------------------------------------------------
(***************************************************************************)
(* The follower implements StreamLog, keeps within its limits, and takes   *)
(* no further batch from a file that is no longer the one it committed.    *)
(*                                                                         *)
(* To what ContinuousIngestionProofs knows of journal, reports and memory, *)
(* two invariants are added: what the file still says of the lines that    *)
(* were committed or read (FrozenSound), and what a batch may still take   *)
(* (LimitsSound).                                                          *)
(***************************************************************************)
(* The parts of the invariant.                                             *)

(* The pinned file starts with the lines of s.                             *)
Follows(s) ==
  ~ rotated /\ Len(s) <= Len(source) /\ \A n \in 1 .. Len(s) : s[n] = source[n]

(* What a batch has read but not consumed comes next in the file.          *)
ReadAhead(w) ==
  /\ Follows(ram[w].digest)
  /\ Len(ram[w].digest) + Len(job[w].queue) <= Len(source)
  /\ \A i \in 1 .. Len(job[w].queue) :
       job[w].queue[i] = source[Len(ram[w].digest) + i]

(* The file starts with what was committed, or it was disturbed when there *)
(* were so many lines; and the batch under way is one of the file, or was  *)
(* under way when it was disturbed.                                        *)
Batching(w) == pc[w] \in {"read", "consume"}
FrozenSound ==
  /\ edits = 0 => frozen = -1
  /\ Follows(meta.prefix) \/ meta.lines <= frozen
  /\ \A w \in Workers :
       Batching(w) => ReadAhead(w) \/ meta.lines + BatchRecords <= frozen

(* The sizes of a batch's lines, added to what was consumed before, stay   *)
(* within the byte limit.  The sums are given, not computed.               *)
Spent(w) ==
  \E sum \in [0 .. Len(job[w].queue) -> Nat] :
    /\ sum[0] = ram[w].offset /\ sum[Len(job[w].queue)] <= MaxBytes
    /\ \A i \in 1 .. Len(job[w].queue) :
         sum[i] = sum[i - 1] + job[w].queue[i].size
    /\ pc[w] = "read" => job[w].room = MaxBytes - sum[Len(job[w].queue)]
Fits(line) == line.size <= MaxLineBytes
LimitsSound ==
  /\ WithinLimits
  /\ \A w \in Workers :
       /\ pc[w] \notin {"down", "recover", "consume", "failed"} =>
            ram[w].offset = meta.offset
       /\ Batching(w) =>
            /\ Len(ram[w].digest) + Len(job[w].queue) <= MaxRecords
            /\ \A n \in 1 .. Len(ram[w].digest) : Fits(ram[w].digest[n])
            /\ \A n \in 1 .. Len(job[w].queue) : Fits(job[w].queue[n])
            /\ Spent(w)

-----------------------------------------------------------------------------
(* The file.                                                               *)

LEMMA MatchesFollows ==
  ASSUME TypeOK, NEW s \in Seq(Lines)
  PROVE  SourceMatches(s) <=> Follows(s)
  <1> USE DEF TypeOK
  <1>1. CASE Len(s) <= Len(source)
    <2> DEFINE t == SubSeq(source, 1, Len(s))
    <2>1. t \in Seq(Lines) /\ Len(t) = Len(s) /\ \A n \in 1 .. Len(s) : t[n] = source[n]
      BY <1>1
    <2>2. t = s <=> \A n \in 1 .. Len(s) : t[n] = s[n]
      <3> HIDE DEF t
      <3> QED BY <2>1, SeqEqual
    <2> QED BY <1>1, <2>1, <2>2 DEF SourceMatches, Follows
  <1>2. CASE ~ (Len(s) <= Len(source))
    BY <1>2 DEF SourceMatches, Follows
  <1> QED BY <1>1, <1>2

(* The producer only adds to it.                                           *)
LEMMA WriteKeeps ==
  ASSUME TypeOK, WriteLine
  PROVE  /\ \A s \in Seq(Lines) : Follows(s) => Follows(s)'
         /\ Len(source') = Len(source) + 1
         /\ \A n \in 1 .. Len(source) : source'[n] = source[n]
  <1>1. PICK line \in Lines : source' = Append(source, line)
    BY DEF WriteLine
  <1>2. /\ Len(source') = Len(source) + 1
        /\ \A n \in 1 .. Len(source) : source'[n] = source[n]
    BY <1>1 DEF TypeOK
  <1>3. rotated' = rotated
    BY DEF WriteLine
  <1> QED BY <1>2, <1>3 DEF Follows, TypeOK

(* Steps after which no batch is under way and nothing was committed.      *)
QuietStep(w) ==
  \/ RecoverRow(w) \/ FinishRecovery(w) \/ RefuseJournal(w)
  \/ ReadOutbox(w) \/ Deliver(w) \/ SaveRun(w) \/ BeginPoll(w)
  \/ StopPoll(w) \/ Close(w) \/ PollFault(w) \/ Crash(w)
LEMMA QuietFacts ==
  ASSUME Core, NEW w \in Workers, QuietStep(w)
  PROVE  /\ pc[w] # "down" /\ ~ Batching(w)'
         /\ \A v \in Workers : v # w => pc'[v] = "down"
         /\ meta' = meta /\ UNCHANGED <<source, rotated, edits, frozen>>
  <1>0. TypeOK /\ SingleWriter
    BY DEF Core
  <1>1. pc \in [Workers -> Phases]
    BY <1>0 DEF TypeOK
  <1>2. Running(w)
    <2>1. CASE StopPoll(w)
      BY <2>1, BlockedRuns DEF StopPoll
    <2>2. CASE PollFault(w)
      BY <2>2, InPollRuns DEF PollFault
    <2>3. CASE Crash(w)
      BY <2>3 DEF Crash
    <2> QED BY <2>1, <2>2, <2>3
            DEF QuietStep, RecoverRow, FinishRecovery, RefuseJournal, ReadOutbox,
                Deliver, SaveRun, BeginPoll, Close, Running
  <1>3. job[w].cont \in {"verify", "ready"}
    BY <1>0, FieldTypes DEF Continuations
  <1>4. /\ meta' = meta /\ UNCHANGED <<source, rotated, edits, frozen>>
        /\ \A v \in Workers : v # w => pc'[v] = pc[v]
    BY <1>1 DEF QuietStep, RecoverRow, FinishRecovery, RefuseJournal, ReadOutbox,
        Deliver, SaveRun, BeginPoll, StopPoll, Close, PollFault, Crash, Ends,
        Fails, file, checkpoint, bounds
  <1>5. pc'[w] \notin {"read", "consume"}
    BY <1>1, <1>3
       DEF QuietStep, RecoverRow, FinishRecovery, RefuseJournal, ReadOutbox,
           Deliver, SaveRun, BeginPoll, StopPoll, Close, PollFault, Crash, Ends, Fails
  <1> QED BY <1>0, <1>2, <1>4, <1>5, Alone DEF Batching, Running

-----------------------------------------------------------------------------
(* A disturbed file is left alone.                                         *)

LEMMA FrozenInit == Init => FrozenSound
  BY EmptyLength DEF Init, FrozenSound, Follows, Batching, NoMeta

LEMMA FrozenStep == Core /\ Core' /\ FrozenSound /\ [Next]_vars => FrozenSound'
  <1> SUFFICES ASSUME Core, Core', FrozenSound, [Next]_vars PROVE FrozenSound'
    OBVIOUS
  <1>0. /\ TypeOK /\ SingleWriter /\ BatchSound /\ PositionsAgree
        /\ TypeOK' /\ PositionsAgree'
    BY DEF Core
  <1>1. /\ pc \in [Workers -> Phases] /\ job \in [Workers -> Job]
        /\ ram \in [Workers -> Memory] /\ source \in Seq(Lines)
        /\ meta \in Meta /\ meta.prefix \in Seq(Lines) /\ meta.lines \in Nat
        /\ frozen \in Int /\ BatchRecords \in Nat \ {0}
    <2>1. /\ pc \in [Workers -> Phases] /\ job \in [Workers -> Job]
          /\ ram \in [Workers -> Memory] /\ source \in Seq(Lines) /\ meta \in Meta
          /\ frozen \in Nat \cup {-1}
      BY <1>0 DEF TypeOK
    <2>2. meta.prefix \in Seq(Lines) /\ meta.lines \in Nat
      BY <2>1 DEF Meta
    <2>3. frozen \in Int /\ BatchRecords \in Nat \ {0}
      BY <2>1, LimitsAssumption
    <2> QED BY <2>1, <2>2, <2>3
  (* A step of w that leaves the file alone.                               *)
  <1>2. ASSUME NEW w \in Workers, pc[w] # "down",
               \A v \in Workers : v # w => pc'[v] = "down" \/ pc'[v] = pc[v],
               UNCHANGED <<source, rotated, edits, frozen>>,
               Follows(meta'.prefix) \/ meta'.lines <= frozen,
               Batching(w)' => ReadAhead(w)' \/ meta'.lines + BatchRecords <= frozen
        PROVE  FrozenSound'
    <2>1. \A v \in Workers : v # w => ~ Batching(v)'
      BY <1>0, <1>2, Alone DEF Batching, Running
    <2>2. Follows(meta.prefix)' <=> Follows(meta'.prefix)
      BY <1>2 DEF Follows
    <2> QED BY <1>2, <2>1, <2>2 DEF FrozenSound
  (* ... and the checkpoint.                                               *)
  <1>3. ASSUME NEW w \in Workers, pc[w] # "down", meta' = meta,
               \A v \in Workers : v # w => pc'[v] = "down" \/ pc'[v] = pc[v],
               UNCHANGED <<source, rotated, edits, frozen>>,
               Batching(w)' => ReadAhead(w)' \/ meta.lines + BatchRecords <= frozen
        PROVE  FrozenSound'
    BY <1>2, <1>3 DEF FrozenSound
  <1>4. CASE UNCHANGED vars
    BY <1>4 DEF vars, FrozenSound, Follows, ReadAhead, Batching
  <1>5. ASSUME NEW w \in Workers, NEW c \in Contracts, Start(w, c)
        PROVE  FrozenSound'
    <2>1. \A v \in Workers : ~ Batching(v)'
      BY <1>0, <1>1, <1>5, NobodyRuns DEF Start, Batching
    <2>2. UNCHANGED <<source, rotated, edits, frozen>>
      BY <1>5 DEF Start, file, bounds
    <2>3. meta' = meta \/ Follows(meta'.prefix)
      <3>1. CASE meta' = [NoMeta EXCEPT !.contract = c] /\ ~ rotated
        <4>1. meta'.prefix = <<>> /\ Len(meta'.prefix) = 0 /\ Len(source) \in Nat
          BY <1>1, <3>1, EmptyLength DEF NoMeta
        <4> QED BY <3>1, <4>1 DEF Follows
      <3> QED BY <1>5, <3>1 DEF Start
    <2>4. Follows(meta.prefix)' <=> Follows(meta'.prefix)
      BY <2>2 DEF Follows
    <2> QED BY <2>1, <2>2, <2>3, <2>4 DEF FrozenSound
  <1>6. ASSUME NEW w \in Workers, QuietStep(w) PROVE FrozenSound'
    BY <1>3, <1>6, QuietFacts
  <1>7. ASSUME NEW w \in Workers, Verify(w) PROVE FrozenSound'
    <2>1. /\ pc[w] = "verify" /\ SourceMatches(ram[w].digest) /\ meta' = meta
          /\ ram' = ram /\ job'[w].queue = job[w].queue
          /\ \A v \in Workers : v # w => pc'[v] = pc[v]
          /\ UNCHANGED <<source, rotated, edits, frozen>>
      BY <1>1, <1>7 DEF Verify, file, checkpoint, bounds, Job
    <2>2. Follows(ram[w].digest)
      BY <1>0, <2>1, FieldTypes, MatchesFollows
    <2>3. Len(job'[w].queue) = 0 /\ Len(ram[w].digest) \in Nat
      BY <1>0, <2>1, EmptyLength, FieldTypes DEF BatchSound
    <2>4. ReadAhead(w)'
      BY <2>1, <2>2, <2>3 DEF ReadAhead, Follows
    <2> QED BY <1>3, <2>1, <2>4
  <1>8. ASSUME NEW w \in Workers, ReadLine(w) PROVE FrozenSound'
    <2> DEFINE q == job[w].queue
               d == ram[w].digest
               line == source[Position(w)]
    <2>1. /\ pc[w] = "read" /\ pc' = pc /\ meta' = meta /\ ram' = ram
          /\ job'[w].queue = Append(q, line) /\ Position(w) <= Len(source)
          /\ UNCHANGED <<source, rotated, edits, frozen>>
      BY <1>1, <1>8 DEF ReadLine, Reading, LineReady, file, checkpoint, bounds, Job
    <2>2. d \in Seq(Lines) /\ q \in Seq(Lines) /\ Position(w) = Len(d) + (Len(q) + 1)
      <3>1. \A a, b \in Nat : a + b + 1 = a + (b + 1)
        OBVIOUS
      <3>2. Len(d) \in Nat /\ Len(q) \in Nat /\ d \in Seq(Lines) /\ q \in Seq(Lines)
        BY <1>0, FieldTypes
      <3> QED BY <3>1, <3>2, Zenon DEF Position
    <2>3. line \in Lines
      BY <1>0, <1>1, <2>1, FieldTypes
    <2>4. ASSUME ReadAhead(w) PROVE ReadAhead(w)'
      <3>1. /\ Len(job'[w].queue) = Len(q) + 1 /\ job'[w].queue[Len(q) + 1] = line
            /\ \A i \in 1 .. Len(q) : job'[w].queue[i] = q[i]
            /\ \A i \in 1 .. Len(q) + 1 : i \in 1 .. Len(q) \/ i = Len(q) + 1
        <4> HIDE DEF q, line
        <4> QED BY <2>1, <2>2, <2>3
      <3>2. \A i \in 1 .. Len(q) + 1 : job'[w].queue[i] = source[Len(d) + i]
        BY <2>2, <2>4, <3>1 DEF ReadAhead
      <3>3. Len(d) + (Len(q) + 1) <= Len(source)
        BY <2>1, <2>2
      <3> QED BY <2>1, <2>4, <3>1, <3>2, <3>3 DEF ReadAhead, Follows
    <2> QED BY <1>3, <2>1, <2>4 DEF FrozenSound, Batching
  <1>9. ASSUME NEW w \in Workers, EndRead(w) PROVE FrozenSound'
    <2>1. /\ pc[w] = "read" /\ pc'[w] = "consume" /\ meta' = meta /\ ram' = ram
          /\ job' = [job EXCEPT ![w] = [Idle(w) EXCEPT !.queue = job[w].queue,
                                                        !.state = BatchStatus(w)]]
          /\ \A v \in Workers : v # w => pc'[v] = pc[v]
          /\ UNCHANGED <<source, rotated, edits, frozen>>
      BY <1>1, <1>9 DEF EndRead, file, checkpoint, bounds
    <2>2. [Idle(w) EXCEPT !.queue = job[w].queue, !.state = BatchStatus(w)].queue
            = job[w].queue
      BY <1>0, IdleType DEF Job
    <2>3. job'[w].queue = job[w].queue
      BY <1>1, <2>1, <2>2
    <2>4. ReadAhead(w)' <=> ReadAhead(w)
      BY <2>1, <2>3 DEF ReadAhead, Follows
    <2> QED BY <1>3, <2>1, <2>4 DEF FrozenSound, Batching
  <1>10. ASSUME NEW w \in Workers, ConsumeLine(w) PROVE FrozenSound'
    <2> DEFINE q == job[w].queue
               d == ram[w].digest
    <2>1. /\ pc[w] = "consume" /\ pc' = pc /\ meta' = meta /\ q # <<>>
          /\ ram'[w].digest = Append(d, Head(q)) /\ job'[w].queue = Tail(q)
          /\ UNCHANGED <<source, rotated, edits, frozen>>
      BY <1>1, <1>10 DEF ConsumeLine, Absorb, file, checkpoint, bounds, Job
    <2>2. d \in Seq(Lines) /\ q \in Seq(Lines) /\ Head(q) \in Lines
      BY <1>0, <2>1, FieldTypes
    <2>3. ASSUME ReadAhead(w) PROVE ReadAhead(w)'
      <3>1. /\ Len(Append(d, Head(q))) = Len(d) + 1 /\ Append(d, Head(q))[Len(d) + 1] = q[1]
            /\ \A n \in 1 .. Len(d) : Append(d, Head(q))[n] = d[n]
            /\ \A n \in 1 .. Len(d) + 1 : n \in 1 .. Len(d) \/ n = Len(d) + 1
            /\ Len(Tail(q)) = Len(q) - 1 /\ 1 \in 1 .. Len(q)
            /\ \A i \in 1 .. Len(q) - 1 : Tail(q)[i] = q[i + 1] /\ i + 1 \in 1 .. Len(q)
            /\ Len(d) \in Nat /\ Len(q) \in Nat
        <4> HIDE DEF q, d
        <4> QED BY <2>1, <2>2
      <3>2. \A n \in 1 .. Len(d) + 1 : Append(d, Head(q))[n] = source[n]
        BY <2>3, <3>1 DEF ReadAhead, Follows
      <3>3. \A i \in 1 .. Len(q) - 1 : Tail(q)[i] = source[Len(d) + 1 + i]
        <4>1. \A a \in Nat : \A i \in 1 .. Len(q) - 1 : a + (i + 1) = a + 1 + i
          BY <3>1
        <4>2. \A i \in 1 .. Len(q) - 1 : Len(d) + (i + 1) = Len(d) + 1 + i
          BY <3>1, <4>1
        <4>3. \A i \in 1 .. Len(q) - 1 : q[i + 1] = source[Len(d) + (i + 1)]
          BY <2>3, <3>1 DEF ReadAhead
        <4> QED BY <3>1, <4>2, <4>3
      <3>4. Len(d) + 1 <= Len(source) /\ Len(d) + 1 + (Len(q) - 1) <= Len(source)
        <4>1. \A a, b, c \in Nat : a + b <= c /\ 1 <= b =>
                a + 1 <= c /\ a + 1 + (b - 1) <= c
          OBVIOUS
        <4>2. Len(source) \in Nat /\ 1 <= Len(q)
          BY <1>1, <3>1
        <4>3. Len(d) + Len(q) <= Len(source)
          BY <2>3, Zenon DEF ReadAhead
        <4> QED BY <3>1, <4>1, <4>2, <4>3
      <3>5. Follows(Append(d, Head(q)))
        BY <2>3, <3>1, <3>2, <3>4 DEF ReadAhead, Follows
      <3>6. Follows(ram[w].digest)'
        BY <2>1, <3>5 DEF Follows
      <3>7. /\ Len(ram'[w].digest) = Len(d) + 1 /\ Len(job'[w].queue) = Len(q) - 1
            /\ \A i \in 1 .. Len(q) - 1 : job'[w].queue[i] = source[Len(d) + 1 + i]
        BY <2>1, <3>1, <3>3
      <3> QED BY <2>1, <3>4, <3>6, <3>7 DEF ReadAhead
    <2> QED BY <1>3, <2>1, <2>3 DEF FrozenSound, Batching
  <1>11. ASSUME NEW w \in Workers, Commit(w) PROVE FrozenSound'
    <2>1. /\ pc[w] = "consume" /\ pc'[w] = "outbox"
          /\ meta'.lines = Len(ram[w].digest) /\ meta'.prefix = ram[w].digest
          /\ \A v \in Workers : v # w => pc'[v] = pc[v]
          /\ UNCHANGED <<source, rotated, edits, frozen>>
      BY <1>1, <1>11 DEF Commit, file, bounds
    <2>2. /\ Len(ram[w].digest) = meta.lines + Len(job[w].tx)
          /\ Len(job[w].tx) + Len(job[w].queue) <= BatchRecords
          /\ Len(job[w].tx) \in Nat /\ Len(job[w].queue) \in Nat
      BY <1>0, <2>1, FieldTypes DEF PositionsAgree, BatchSound
    <2>3. CASE ReadAhead(w)
      BY <1>2, <2>1, <2>3 DEF ReadAhead, Batching
    <2>4. CASE meta.lines + BatchRecords <= frozen
      <3>1. meta'.lines <= frozen
        <4>1. ASSUME NEW l \in Nat, NEW t \in Nat, NEW q \in Nat, NEW b \in Nat,
                     NEW f \in Int, l + b <= f, t + q <= b
              PROVE  l + t <= f
          BY <4>1
        <4>2. BatchRecords \in Nat /\ meta.lines \in Nat /\ frozen \in Int
          BY <1>1
        <4>3. meta.lines + Len(job[w].tx) <= frozen
          <5>1. /\ meta.lines + BatchRecords <= frozen
                /\ Len(job[w].tx) + Len(job[w].queue) <= BatchRecords
            BY <2>2, <2>4
          <5> DEFINE lines == meta.lines
                     taken == Len(job[w].tx)
                     left  == Len(job[w].queue)
          <5>2. lines \in Nat /\ taken \in Nat /\ left \in Nat
                /\ lines + BatchRecords <= frozen /\ taken + left <= BatchRecords
            BY <2>2, <4>2, <5>1
          <5>3. lines + taken <= frozen
            <6> HIDE DEF lines, taken, left
            <6> QED BY <4>1, <4>2, <5>2
          <5> QED BY <5>3
        <4> QED BY <2>1, <2>2, <4>3, Zenon
      <3> QED BY <1>2, <2>1, <3>1 DEF Batching
    <2> QED BY <2>1, <2>3, <2>4 DEF FrozenSound, Batching
  <1>12. CASE WriteFragment
    BY <1>12 DEF WriteFragment, checkpoint, bounds, FrozenSound, Follows, ReadAhead, Batching
  <1>13. CASE WriteLine
    <2>1. UNCHANGED <<meta, pc, ram, job, edits, frozen>> /\ rotated' = rotated
      BY <1>13 DEF WriteLine, checkpoint, bounds
    <2>2. Follows(meta.prefix) => Follows(meta.prefix)'
      BY <1>0, <1>1, <1>13, <2>1, WriteKeeps DEF Follows
    <2>3. ASSUME NEW w \in Workers, ReadAhead(w) PROVE ReadAhead(w)'
      <3>1. /\ ram[w].digest \in Seq(Lines)
            /\ Len(ram[w].digest) \in Nat /\ Len(job[w].queue) \in Nat
        BY <1>0, FieldTypes
      <3>2. Follows(ram[w].digest)'
        BY <1>0, <1>13, <2>1, <2>3, <3>1, WriteKeeps DEF ReadAhead, Follows
      <3>3. \A i \in 1 .. Len(job[w].queue) : Len(ram[w].digest) + i \in 1 .. Len(source)
        <4>1. \A a, b, c \in Nat : a + b <= c => \A i \in 1 .. b : a + i \in 1 .. c
          OBVIOUS
        <4>2. Len(source) \in Nat
          BY <1>1
        <4>3. Len(ram[w].digest) + Len(job[w].queue) <= Len(source)
          BY <2>3, Zenon DEF ReadAhead
        <4> QED BY <3>1, <4>1, <4>2, <4>3
      <3>4. \A i \in 1 .. Len(job[w].queue) :
              job[w].queue[i] = source'[Len(ram[w].digest) + i]
        BY <1>0, <1>13, <2>3, <3>3, WriteKeeps DEF ReadAhead
      <3>5. Len(ram[w].digest) + Len(job[w].queue) <= Len(source')
        <4>1. \A a, b, c \in Nat : a + b <= c => a + b <= c + 1
          OBVIOUS
        <4>2. Len(source) \in Nat /\ Len(source') = Len(source) + 1
          BY <1>0, <1>1, <1>13, WriteKeeps
        <4>3. Len(ram[w].digest) + Len(job[w].queue) <= Len(source)
          BY <2>3, Zenon DEF ReadAhead
        <4> QED BY <3>1, <4>1, <4>2, <4>3
      <3> QED BY <2>1, <3>2, <3>4, <3>5 DEF ReadAhead
    <2> QED BY <2>1, <2>2, <2>3 DEF FrozenSound, Batching
  <1>14. CASE DisturbSource
    <2>1. /\ UNCHANGED <<meta, pc>>
          /\ frozen' = meta.lines + (IF InFlight THEN BatchRecords ELSE 0)
      BY <1>14 DEF DisturbSource, Outside, checkpoint
    <2>2. edits' # 0
      BY <1>0, <1>14, BoundsAssumption DEF DisturbSource, Outside, TypeOK
    <2>3. (\E w \in Workers : Batching(w)') => frozen' = meta.lines + BatchRecords
      BY <2>1 DEF InFlight, Batching
    <2>4. meta.lines <= frozen' /\ meta.lines + BatchRecords <= meta.lines + BatchRecords
      BY <1>1, <2>1
    <2> QED BY <2>1, <2>2, <2>3, <2>4 DEF FrozenSound
  <1>15. CASE EditJournal
    <2>1. UNCHANGED <<meta, pc, ram, job, source, rotated, frozen>>
      BY <1>15 DEF EditJournal, Outside, file
    <2>2. edits' # 0
      BY <1>0, <1>15, BoundsAssumption DEF EditJournal, Outside, TypeOK
    <2> QED BY <2>1, <2>2 DEF FrozenSound, Follows, ReadAhead, Batching
  <1> QED
    BY <1>4, <1>5, <1>6, <1>7, <1>8, <1>9, <1>10, <1>11, <1>12, <1>13, <1>14, <1>15
       DEF Next, Step, Environment, QuietStep

LEMMA FrozenInvariant == Spec => [](Core /\ FrozenSound)
  <1>1. Core /\ Core' /\ FrozenSound /\ [Next]_vars => FrozenSound'
    BY FrozenStep
  <1> QED BY <1>1, FrozenInit, CoreInvariant, PTL DEF Spec

(* Once the pinned file no longer starts with what was committed, at most  *)
(* the batch that was being read then is added to the journal, whichever   *)
(* worker reopens it and however the file changes again (_verify_source).  *)
THEOREM ChangedSourceFrozen == Spec => []SourceFrozen
  <1>1. Core /\ FrozenSound => SourceFrozen
    <2>1. Core => (SourceMatches(meta.prefix) <=> Follows(meta.prefix))
      BY MatchesFollows DEF Core, TypeOK, Meta
    <2> QED BY <2>1 DEF FrozenSound, SourceFrozen
  <1> QED BY <1>1, FrozenInvariant, PTL

-----------------------------------------------------------------------------
(* The limits.                                                             *)

LEMMA LimitsInit == Init => LimitsSound
  BY LimitsAssumption DEF Init, LimitsSound, WithinLimits, Batching, NoMeta

(* One more batch of k lines keeps the accounting.                         *)
LEMMA BatchCounts ==
  ASSUME NEW lines \in Nat, NEW b \in Nat, NEW h \in Nat, NEW k \in Nat \ {0},
         b <= lines, lines <= b * h
  PROVE  b + 1 <= lines + k /\ lines + k <= (b + 1) * Larger(h, k)
  <1> DEFINE g == Larger(h, k)
  <1>1. g \in Nat /\ h <= g /\ k <= g
    BY DEF Larger
  <1>2. b * h <= b * g
    <2> HIDE DEF g
    <2>1. \A x, y, z \in Nat : y <= z => x * y <= x * z
      OBVIOUS
    <2> QED BY <1>1, <2>1
  <1>3. b * h \in Nat /\ b * g \in Nat /\ (b + 1) * g = b * g + g
    <2> HIDE DEF g
    <2> QED BY <1>1
  <1> HIDE DEF g
  <1>4. \A p, q \in Nat : lines <= p /\ p <= q => lines + k <= q + g
    BY <1>1
  <1> QED BY <1>2, <1>3, <1>4 DEF g

LEMMA ReadSpends ==
  ASSUME TypeOK, LimitsSound, NEW w \in Workers, ReadLine(w)
  PROVE  Spent(w)'
  <1> DEFINE q == job[w].queue
             n == Len(q)
             line == source[Position(w)]
  <1>1. /\ pc[w] = "read" /\ pc' = pc /\ ram' = ram /\ line.size <= job[w].room
        /\ job'[w].queue = Append(q, line) /\ job'[w].room = job[w].room - line.size
        /\ Position(w) \in 1 .. Len(source)
    <2>1. Position(w) \in Nat /\ Position(w) >= 1 /\ job[w].room \in Int
      BY FieldTypes
    <2>2. Position(w) \in 1 .. Len(source)
      BY <2>1 DEF ReadLine, LineReady, TypeOK
    <2>3. line \in Lines
      BY <2>2 DEF TypeOK
    <2>4. line.size \in Nat
      BY <2>3, LineFields
    <2> QED BY <2>1, <2>2, <2>4 DEF ReadLine, Reading, OverBudget, TypeOK, Job
  <1>2. line \in Lines /\ line.size \in Nat /\ q \in Seq(Lines) /\ n \in Nat
    BY <1>1, FieldTypes, LineFields DEF TypeOK
  <1>3. Spent(w)
    BY <1>1 DEF LimitsSound, Batching
  <1>4. PICK sum \in [0 .. n -> Nat] :
          /\ sum[0] = ram[w].offset /\ sum[n] <= MaxBytes
          /\ \A i \in 1 .. n : sum[i] = sum[i - 1] + q[i].size
          /\ job[w].room = MaxBytes - sum[n]
    BY <1>1, <1>3 DEF Spent
  <1> DEFINE more == [i \in 0 .. n + 1 |-> IF i = n + 1 THEN sum[n] + line.size ELSE sum[i]]
  <1>5. /\ Len(Append(q, line)) = n + 1 /\ Append(q, line)[n + 1] = line
        /\ \A i \in 1 .. n : Append(q, line)[i] = q[i]
    BY <1>2
  <1> HIDE DEF q, n, line
  <1>6. sum[n] \in Nat /\ sum[n] + line.size \in Nat
    BY <1>2, <1>4
  <1>7. /\ \A i \in 0 .. n + 1 : i = n + 1 \/ (i \in 0 .. n /\ i # n + 1)
        /\ \A i \in 1 .. n + 1 : i = n + 1 \/ (i \in 1 .. n /\ i # n + 1
                                                 /\ i \in 0 .. n + 1)
        /\ \A i \in 1 .. n + 1 : i - 1 \in 0 .. n + 1 /\ i - 1 # n + 1
        /\ n + 1 \in 0 .. n + 1 /\ 0 \in 0 .. n + 1 /\ 0 # n + 1 /\ n + 1 - 1 = n
    BY <1>2
  <1>8. more \in [0 .. n + 1 -> Nat]
    BY <1>4, <1>6, <1>7
  <1>9. more[0] = ram[w].offset /\ more[n + 1] = sum[n] + line.size
    BY <1>4, <1>7
  <1>10. \A i \in 1 .. n + 1 : more[i] = more[i - 1] + Append(q, line)[i].size
    <2>1. ASSUME NEW i \in 1 .. n
          PROVE  more[i] = more[i - 1] + Append(q, line)[i].size
      <3>1. /\ i \in 0 .. n + 1 /\ i # n + 1 /\ i - 1 \in 0 .. n + 1 /\ i - 1 # n + 1
        BY <1>2
      <3>2. more[i] = sum[i] /\ more[i - 1] = sum[i - 1]
        BY <3>1
      <3> QED BY <1>4, <1>5, <3>2
    <2>2. ASSUME NEW i \in 1 .. n + 1, i = n + 1
          PROVE  more[i] = more[i - 1] + Append(q, line)[i].size
      <3>1. n \in 0 .. n + 1 /\ n # n + 1 /\ i - 1 = n
        BY <1>2, <2>2
      <3>2. more[i - 1] = sum[n]
        BY <3>1
      <3>3. more[i] = sum[n] + line.size
        BY <1>9, <2>2
      <3>4. Append(q, line)[i] = line
        BY <1>5, <2>2
      <3> QED BY <3>2, <3>3, <3>4
    <2>3. \A i \in 1 .. n + 1 : i = n + 1 \/ i \in 1 .. n
      BY <1>7
    <2> QED BY <2>1, <2>2, <2>3, Zenon
  <1>11. more[n + 1] <= MaxBytes /\ job'[w].room = MaxBytes - more[n + 1]
    <2>1. \A a, b, c \in Nat : b <= c - a => a + b <= c /\ c - a - b = c - (a + b)
      OBVIOUS
    <2>2. MaxBytes \in Nat
      BY LimitsAssumption
    <2>3. line.size <= MaxBytes - sum[n] /\ job'[w].room = MaxBytes - sum[n] - line.size
      BY <1>1, <1>4 DEF line
    <2> QED BY <1>2, <1>6, <1>9, <2>1, <2>2, <2>3
  <1> HIDE DEF more
  <1>12. Len(job'[w].queue) = n + 1
    BY <1>1, <1>5 DEF q, line
  <1> QED BY <1>1, <1>8, <1>9, <1>10, <1>11, <1>12 DEF Spent, q, line

LEMMA ConsumeSpends ==
  ASSUME TypeOK, LimitsSound, NEW w \in Workers, ConsumeLine(w)
  PROVE  Spent(w)'
  <1> DEFINE q == job[w].queue
             n == Len(q)
  <1>1. /\ pc[w] = "consume" /\ pc' = pc /\ q # <<>>
        /\ job'[w].queue = Tail(q) /\ ram'[w].offset = ram[w].offset + Head(q).size
    BY DEF ConsumeLine, Absorb, TypeOK, Job
  <1>2. /\ q \in Seq(Lines) /\ n \in Nat /\ n >= 1 /\ Head(q) = q[1]
        /\ Len(Tail(q)) = n - 1
        /\ \A i \in 1 .. n - 1 : Tail(q)[i] = q[i + 1]
    <2>1. q \in Seq(Lines)
      BY FieldTypes
    <2> HIDE DEF q
    <2> QED BY <1>1, <2>1
  <1>3. Spent(w)
    BY <1>1 DEF LimitsSound, Batching
  <1>4. PICK sum \in [0 .. n -> Nat] :
          /\ sum[0] = ram[w].offset /\ sum[n] <= MaxBytes
          /\ \A i \in 1 .. n : sum[i] = sum[i - 1] + q[i].size
    BY <1>3 DEF Spent
  <1> DEFINE rest == [i \in 0 .. n - 1 |-> sum[i + 1]]
  <1> HIDE DEF q, n
  <1>5. /\ \A i \in 0 .. n - 1 : i + 1 \in 0 .. n
        /\ \A i \in 1 .. n - 1 : /\ i \in 0 .. n - 1 /\ i - 1 \in 0 .. n - 1
                                 /\ i + 1 \in 1 .. n /\ i - 1 + 1 = i /\ i + 1 - 1 = i
        /\ 0 \in 0 .. n - 1 /\ n - 1 \in 0 .. n - 1 /\ n - 1 + 1 = n
        /\ 1 \in 1 .. n /\ 0 + 1 = 1 /\ 1 - 1 = 0
    BY <1>2
  <1>6. rest \in [0 .. n - 1 -> Nat]
    BY <1>4, <1>5
  <1>7. rest[0] = sum[1] /\ sum[1] = ram[w].offset + q[1].size
    BY <1>4, <1>5
  <1>8. rest[n - 1] = sum[n]
    BY <1>5
  <1>9. ASSUME NEW i \in 1 .. n - 1
        PROVE  rest[i] = rest[i - 1] + Tail(q)[i].size
    <2>1. rest[i] = sum[i + 1] /\ rest[i - 1] = sum[i]
      BY <1>5
    <2>2. sum[i + 1] = sum[i] + q[i + 1].size
      BY <1>4, <1>5
    <2> QED BY <1>2, <2>1, <2>2
  <1> HIDE DEF rest
  <1>10. Len(job'[w].queue) = n - 1 /\ pc'[w] # "read"
    BY <1>1, <1>2 DEF q
  <1> QED BY <1>1, <1>2, <1>4, <1>6, <1>7, <1>8, <1>9, <1>10 DEF Spent, q

LEMMA LimitsStep == Core /\ LimitsSound /\ [Next]_vars => LimitsSound'
  <1> SUFFICES ASSUME Core, LimitsSound, [Next]_vars PROVE LimitsSound'
    OBVIOUS
  <1>0. TypeOK /\ SingleWriter /\ BatchSound /\ PositionsAgree
    BY DEF Core
  <1>1. /\ pc \in [Workers -> Phases] /\ job \in [Workers -> Job]
        /\ ram \in [Workers -> Memory] /\ meta \in Meta
        /\ meta.lines \in Nat /\ meta.offset \in Nat
        /\ meta.highwater \in Nat /\ meta.batches \in Nat
    BY <1>0 DEF TypeOK, Meta
  <1> DEFINE Room(w) ==
               /\ Len(ram[w].digest) + Len(job[w].queue) <= MaxRecords
               /\ \A n \in 1 .. Len(ram[w].digest) : Fits(ram[w].digest[n])
               /\ \A n \in 1 .. Len(job[w].queue) : Fits(job[w].queue[n])
               /\ Spent(w)
             Aligned(w) ==
               pc[w] \notin {"down", "recover", "consume", "failed"} =>
                 ram[w].offset = meta.offset
  <1>2. LimitsSound <=> WithinLimits /\ \A w \in Workers :
                          Aligned(w) /\ (Batching(w) => Room(w))
    BY DEF LimitsSound
  (* A step of w that commits nothing.                                     *)
  <1>3. ASSUME NEW w \in Workers, pc[w] # "down", meta' = meta,
               \A v \in Workers : v # w => pc'[v] = "down" \/ pc'[v] = pc[v],
               Aligned(w)', Batching(w)' => Room(w)'
        PROVE  LimitsSound'
    <2>1. \A v \in Workers : v # w => pc'[v] = "down"
      BY <1>0, <1>3, Alone DEF Running
    <2> QED BY <1>3, <2>1 DEF LimitsSound, WithinLimits, Batching
  <1>4. ASSUME UNCHANGED <<meta, pc, ram, job>> PROVE LimitsSound'
    BY <1>4 DEF LimitsSound, WithinLimits, Batching, Spent
  <1>5. ASSUME NEW w \in Workers, NEW c \in Contracts, Start(w, c)
        PROVE  LimitsSound'
    <2>1. \A v \in Workers : v # w => pc'[v] = "down"
      BY <1>0, <1>1, <1>5, NobodyRuns DEF Start
    <2>2. CASE meta' = [NoMeta EXCEPT !.contract = c] /\ pc'[w] = "outbox"
      <3>1. ram'[w].offset = 0
        BY <1>1, <1>5 DEF Start, FreshMemory
      <3>2. /\ meta'.lines = 0 /\ meta'.offset = 0 /\ meta'.batches = 0
            /\ meta'.highwater = 0
        BY <2>2 DEF NoMeta
      <3>3. WithinLimits'
        BY <3>2, LimitsAssumption DEF WithinLimits
      <3> QED BY <2>1, <2>2, <3>1, <3>2, <3>3 DEF LimitsSound, Batching
    <2>3. CASE meta' = meta /\ pc'[w] = "recover"
      BY <2>1, <2>3 DEF LimitsSound, WithinLimits, Batching
    <2> QED BY <1>1, <1>5, <2>2, <2>3 DEF Start
  <1>6. ASSUME NEW w \in Workers, QuietStep(w) PROVE LimitsSound'
    <2>1. /\ pc[w] # "down" /\ ~ Batching(w)' /\ meta' = meta
          /\ \A v \in Workers : v # w => pc'[v] = "down"
      BY <1>6, QuietFacts
    <2>2. Aligned(w)'
      <3>1. CASE \/ RecoverRow(w) \/ RefuseJournal(w) \/ StopPoll(w) \/ Close(w)
                 \/ PollFault(w) \/ Crash(w)
        BY <1>1, <3>1 DEF RecoverRow, RefuseJournal, StopPoll, Close, PollFault,
                          Crash, Ends, Fails
      <3>2. CASE FinishRecovery(w)
        BY <2>1, <3>2 DEF FinishRecovery, ReplayComplete
      <3>3. CASE ReadOutbox(w) \/ Deliver(w) \/ SaveRun(w) \/ BeginPoll(w)
        BY <2>1, <3>3 DEF ReadOutbox, Deliver, SaveRun, BeginPoll, LimitsSound
      <3> QED BY <1>6, <3>1, <3>2, <3>3 DEF QuietStep
    <2> QED BY <1>3, <2>1, <2>2
  <1>7. ASSUME NEW w \in Workers, Verify(w) PROVE LimitsSound'
    <2>1. /\ pc[w] = "verify" /\ pc'[w] = "read" /\ meta' = meta /\ ram' = ram
          /\ job'[w].queue = job[w].queue /\ job'[w].room = MaxBytes - ram[w].offset
          /\ \A v \in Workers : v # w => pc'[v] = pc[v]
      BY <1>1, <1>7 DEF Verify, checkpoint, Job
    <2>2. /\ Len(job'[w].queue) = 0 /\ ram[w].offset = meta.offset
          /\ ram[w].digest = meta.prefix /\ Len(meta.prefix) = meta.lines
          /\ ram[w].offset \in Nat
      BY <1>0, <2>1, EmptyLength, FieldTypes DEF BatchSound, PositionsAgree, LimitsSound
    <2>3. Spent(w)'
      <3> DEFINE sum == [i \in 0 .. 0 |-> ram[w].offset]
      <3>1. sum \in [0 .. 0 -> Nat] /\ sum[0] = ram[w].offset
        BY <2>2
      <3>2. ram[w].offset <= MaxBytes
        BY <2>2 DEF LimitsSound, WithinLimits
      <3> HIDE DEF sum
      <3> QED BY <2>1, <2>2, <3>1, <3>2 DEF Spent
    <2>4. Room(w)'
      BY <1>1, <2>1, <2>2, <2>3 DEF LimitsSound, WithinLimits, Fits
    <2> QED BY <1>3, <2>1, <2>2, <2>4
  <1>8. ASSUME NEW w \in Workers, ReadLine(w) PROVE LimitsSound'
    <2> DEFINE q == job[w].queue
               d == ram[w].digest
               line == source[Position(w)]
    <2>1. /\ pc[w] = "read" /\ pc' = pc /\ meta' = meta /\ ram' = ram
          /\ job'[w].queue = Append(q, line) /\ Len(q) < Quota(w)
          /\ ~ TooLong(w) /\ LineReady(w)
      BY <1>1, <1>8 DEF ReadLine, Reading, checkpoint, Job
    <2>2. /\ d \in Seq(Lines) /\ q \in Seq(Lines) /\ Len(d) \in Nat /\ Len(q) \in Nat
          /\ Position(w) \in Nat /\ Position(w) >= 1
      BY <1>0, FieldTypes
    <2>3. line \in Lines
      <3>1. Position(w) \in 1 .. Len(source)
        BY <1>0, <2>1, <2>2 DEF LineReady, TypeOK
      <3> QED BY <1>0, <3>1 DEF TypeOK
    <2>4. Fits(line)
      BY <2>1, <2>3, LineFields, LimitsAssumption DEF TooLong, Fits
    <2>5. Len(d) + (Len(q) + 1) <= MaxRecords
      <3>1. \A a, b, m \in Nat : b < m - a => a + (b + 1) <= m
        OBVIOUS
      <3>2. Len(q) < MaxRecords - Len(d)
        <4>1. \A b, x, y \in Int : x < y => (b < x => b < y)
          OBVIOUS
        <4>2. /\ MaxRecords - Len(d) \in Int /\ BatchRecords \in Int
              /\ ~ (MaxRecords - Len(d) < BatchRecords) => BatchRecords <= MaxRecords - Len(d)
          BY <2>2, LimitsAssumption
        <4>3. Quota(w) <= MaxRecords - Len(d) /\ Quota(w) \in Int
          BY <4>2 DEF Quota
        <4> HIDE DEF d, q
        <4>4. \A b, x, y \in Int : x <= y /\ b < x => b < y
          OBVIOUS
        <4> QED BY <2>1, <2>2, <4>2, <4>3, <4>4
      <3>3. MaxRecords \in Nat
        BY LimitsAssumption
      <3> HIDE DEF d, q
      <3> QED BY <2>2, <3>1, <3>2, <3>3
    <2>6. Spent(w)'
      BY <1>0, <1>8, ReadSpends
    <2>7. Batching(w) /\ Room(w) /\ Aligned(w)
      BY <2>1 DEF LimitsSound, Batching
    <2>8. /\ Len(job'[w].queue) = Len(q) + 1 /\ job'[w].queue[Len(q) + 1] = line
          /\ \A i \in 1 .. Len(q) : job'[w].queue[i] = q[i]
          /\ \A i \in 1 .. Len(q) + 1 : i \in 1 .. Len(q) \/ i = Len(q) + 1
      <3> HIDE DEF q, line
      <3> QED BY <2>1, <2>2, <2>3
    <2>9. \A i \in 1 .. Len(q) + 1 : Fits(job'[w].queue[i])
      BY <2>4, <2>7, <2>8 DEF Fits
    <2>10. Room(w)'
      BY <2>1, <2>5, <2>6, <2>7, <2>8, <2>9 DEF Fits
    <2> QED BY <1>3, <2>1, <2>7, <2>10
  <1>9. ASSUME NEW w \in Workers, EndRead(w) PROVE LimitsSound'
    <2>1. /\ pc[w] = "read" /\ pc'[w] = "consume" /\ meta' = meta /\ ram' = ram
          /\ \A v \in Workers : v # w => pc'[v] = pc[v]
      BY <1>1, <1>9 DEF EndRead, checkpoint
    <2>2. [Idle(w) EXCEPT !.queue = job[w].queue, !.state = BatchStatus(w)].queue
            = job[w].queue
      BY <1>0, IdleType DEF Job
    <2>3. job'[w].queue = job[w].queue
      BY <1>1, <1>9, <2>2 DEF EndRead
    <2>4. Room(w)
      BY <2>1 DEF LimitsSound, Batching
    <2>5. Spent(w)'
      BY <2>1, <2>3, <2>4 DEF Spent
    <2>6. Room(w)'
      BY <2>1, <2>3, <2>4, <2>5 DEF Fits
    <2> QED BY <1>3, <2>1, <2>6
  <1>10. ASSUME NEW w \in Workers, ConsumeLine(w) PROVE LimitsSound'
    <2> DEFINE q == job[w].queue
               d == ram[w].digest
    <2>1. /\ pc[w] = "consume" /\ pc' = pc /\ meta' = meta /\ q # <<>>
          /\ ram'[w].digest = Append(d, Head(q)) /\ job'[w].queue = Tail(q)
      BY <1>1, <1>10 DEF ConsumeLine, Absorb, checkpoint, Job
    <2>2. d \in Seq(Lines) /\ q \in Seq(Lines) /\ Head(q) \in Lines
      BY <1>0, <2>1, FieldTypes
    <2>3. Room(w)
      BY <2>1 DEF LimitsSound, Batching
    <2>4. Spent(w)'
      BY <1>0, <1>10, ConsumeSpends
    <2>5. /\ Len(Append(d, Head(q))) = Len(d) + 1 /\ Append(d, Head(q))[Len(d) + 1] = q[1]
          /\ \A n \in 1 .. Len(d) : Append(d, Head(q))[n] = d[n]
          /\ \A n \in 1 .. Len(d) + 1 : n \in 1 .. Len(d) \/ n = Len(d) + 1
          /\ Len(Tail(q)) = Len(q) - 1 /\ 1 \in 1 .. Len(q)
          /\ \A i \in 1 .. Len(q) - 1 : Tail(q)[i] = q[i + 1] /\ i + 1 \in 1 .. Len(q)
          /\ Len(d) \in Nat /\ Len(q) \in Nat
      <3> HIDE DEF q, d
      <3> QED BY <2>1, <2>2
    <2>6. /\ \A n \in 1 .. Len(d) : Fits(d[n])
          /\ \A i \in 1 .. Len(q) : Fits(q[i])
          /\ Len(d) + Len(q) <= MaxRecords
      BY <2>3
    <2>7. Len(Append(d, Head(q))) + Len(Tail(q)) <= MaxRecords
      <3> HIDE DEF q, d
      <3>1. \A a, b \in Nat : a + 1 + (b - 1) = a + b
        OBVIOUS
      <3> QED BY <2>5, <2>6, <3>1
    <2>8. /\ \A n \in 1 .. Len(d) + 1 : Fits(Append(d, Head(q))[n])
          /\ \A i \in 1 .. Len(q) - 1 : Fits(Tail(q)[i])
      <3> HIDE DEF q, d
      <3> QED BY <2>5, <2>6
    <2>9. Room(w)'
      BY <2>1, <2>4, <2>5, <2>7, <2>8 DEF Fits
    <2> QED BY <1>3, <2>1, <2>9
  <1>11. ASSUME NEW w \in Workers, Commit(w) PROVE LimitsSound'
    <2> DEFINE d == ram[w].digest
               k == Len(job[w].tx)
    <2>1. /\ pc[w] = "consume" /\ pc'[w] = "outbox" /\ ram' = ram
          /\ \A v \in Workers : v # w => pc'[v] = pc[v]
          /\ meta'.lines = Len(d) /\ meta'.offset = ram[w].offset /\ meta'.prefix = d
          /\ meta'.highwater = Larger(meta.highwater, k)
          /\ meta'.batches = IF job[w].tx = <<>> THEN meta.batches ELSE meta.batches + 1
          /\ job[w].queue = <<>>
      BY <1>1, <1>11 DEF Commit
    <2>2. /\ Room(w) /\ Len(job[w].queue) = 0
      BY <2>1, EmptyLength DEF LimitsSound, Batching
    <2>3. /\ Len(d) = meta.lines + k /\ k \in Nat /\ Len(d) \in Nat
          /\ job[w].tx \in Seq(Entry) /\ k + Len(job[w].queue) <= BatchRecords
      BY <1>0, <2>1, FieldTypes DEF PositionsAgree, BatchSound
    <2>4. k <= BatchRecords /\ Len(d) <= MaxRecords
      BY <2>2, <2>3, LimitsAssumption
    <2>5. ram[w].offset <= MaxBytes
      BY <2>2 DEF Spent
    <2>6. /\ meta.batches <= meta.lines /\ meta.lines <= meta.batches * meta.highwater
          /\ meta.highwater <= BatchRecords
      BY DEF LimitsSound, WithinLimits
    <2>7. meta'.highwater <= BatchRecords
      BY <2>1, <2>4, <2>6 DEF Larger
    <2>8. meta'.batches <= meta'.lines /\ meta'.lines <= meta'.batches * meta'.highwater
      <3>1. CASE k = 0
        <4>1. job[w].tx = <<>>
          BY <2>3, <3>1
        <4>2. meta'.lines = meta.lines /\ meta'.batches = meta.batches
              /\ meta'.highwater = meta.highwater
          BY <1>1, <2>1, <2>3, <3>1, <4>1 DEF Larger
        <4> QED BY <2>6, <4>2
      <3>2. CASE k # 0
        <4>1. job[w].tx # <<>>
          BY <3>2, EmptyLength
        <4>2. /\ meta'.batches = meta.batches + 1 /\ meta'.lines = meta.lines + k
              /\ meta'.highwater = Larger(meta.highwater, k)
          BY <2>1, <2>3, <4>1
        <4>3. k \in Nat \ {0}
          BY <2>3, <3>2
        <4>4. /\ meta.batches + 1 <= meta.lines + k
              /\ meta.lines + k <= (meta.batches + 1) * Larger(meta.highwater, k)
          <5> HIDE DEF k
          <5> QED BY <1>1, <2>6, <4>3, BatchCounts
        <4> QED BY <4>2, <4>4
      <3> QED BY <3>1, <3>2
    <2>9. \A n \in 1 .. Len(d) : d[n].size <= MaxLineBytes
      BY <2>2 DEF Fits
    <2>10. WithinLimits'
      BY <2>1, <2>4, <2>5, <2>7, <2>8, <2>9 DEF WithinLimits
    <2>11. \A v \in Workers : v # w => pc'[v] = "down"
      BY <1>0, <2>1, Alone DEF Running
    <2> QED BY <2>1, <2>10, <2>11 DEF LimitsSound, Batching
  <1> QED
    BY <1>4, <1>5, <1>6, <1>7, <1>8, <1>9, <1>10, <1>11
       DEF Next, Step, Environment, QuietStep, WriteFragment, WriteLine,
           DisturbSource, EditJournal, Outside, checkpoint, vars

LEMMA LimitsInvariant == Spec => []LimitsSound
  <1>1. Core /\ LimitsSound /\ [Next]_vars => LimitsSound'
    BY LimitsStep
  <1> QED BY <1>1, LimitsInit, CoreInvariant, PTL DEF Spec

(* Whatever batches, crashes and replays it went through, what a checkpoint*)
(* holds is within the record, byte and line limits it was opened with, and*)
(* its batch accounting adds up (poll).                                    *)
THEOREM LimitsKept == Spec => []WithinLimits
  <1>1. LimitsSound => WithinLimits
    BY DEF LimitsSound
  <1> QED BY <1>1, LimitsInvariant, PTL

-----------------------------------------------------------------------------
(* Without outside edits the follower is StreamLog.                        *)

(* StreamLog's policy is StreamPolicy's.                                   *)
LEMMA SamePolicy ==
  /\ Log!Accepted = Accepted
  /\ \A s, n : Log!Verdict(s, n) = Verdict(s, n)
  <1>1. \A line : Log!IsRecord(line) <=> IsRecord(line)
    BY DEF Log!IsRecord, IsRecord
  <1>2. \A s, n : Log!KeySeen(s, n) <=> KeySeen(s, n)
    BY <1>1 DEF Log!KeySeen, KeySeen
  <1>3. \A s, n : Log!SameAsFirst(s, n) <=> SameAsFirst(s, n)
    BY <1>1, <1>2 DEF Log!SameAsFirst, SameAsFirst
  <1>4. \A s, n : Log!Overtaken(s, n) <=> Overtaken(s, n)
    BY <1>1 DEF Log!Overtaken, Overtaken
  <1>5. \A s, n : Log!ReasonsAt(s, n) = ReasonsAt(s, n)
    BY <1>2, <1>3, <1>4 DEF Log!ReasonsAt, ReasonsAt
  <1>6. /\ Log!Accepted = Accepted /\ Log!Ignored = Ignored
        /\ \A R : Log!Quarantined(R) = Quarantined(R)
    BY DEF Log!Accepted, Accepted, Log!Ignored, Ignored, Log!Quarantined, Quarantined
  <1> QED BY <1>5, <1>6 DEF Log!Verdict, Verdict

LEMMA LogInit == Init => Log!Init
  BY NoEvidence DEF Init, Log!Init, NoReport

(* What is delivered is the whole log.                                     *)
LEMMA PublishIsDeliver ==
  ASSUME Core, ReportSound, ViewSound, JournalIntact,
         run' = snapshot, journal' = journal, source' = source
  PROVE  Log!Deliver \/ UNCHANGED Log!vars
  <1>1. /\ meta.lines \in Nat /\ run.lines \in Nat /\ snapshot.lines = meta.lines
        /\ Len(journal) = meta.lines /\ Len(meta.prefix) = meta.lines
        /\ run.lines <= meta.lines
    BY DEF Core, TypeOK, Meta, Report, ReportSound, ViewSound, JournalIntact
  <1>2. /\ EvidenceOf(run') = AcceptedLines(meta.prefix)
        /\ run'.lines = Len(journal)
    BY <1>1 DEF ReportSound
  <1>3. AcceptedLines(meta.prefix)
          = {n \in 1 .. Len(journal) : journal[n].outcome = Accepted}
    BY <1>1 DEF AcceptedLines, JournalIntact
  <1>4. CASE run.lines = meta.lines
    <2>1. EvidenceOf(run) = AcceptedLines(meta.prefix) \cap (1 .. meta.lines)
      BY <1>4 DEF ViewSound
    <2>2. EvidenceOf(run) = AcceptedLines(meta.prefix)
      BY <1>1, <2>1 DEF AcceptedLines
    <2> QED BY <1>1, <1>2, <1>4, <2>2 DEF Log!vars
  <1>5. CASE run.lines # meta.lines
    BY <1>1, <1>2, <1>3, <1>5, SamePolicy DEF Log!Deliver
  <1> QED BY <1>4, <1>5

(* A committed batch is the next lines of the file with their verdicts.    *)
LEMMA CommitIsCommit ==
  ASSUME MaxEdits = 0, Core, ReportSound, ViewSound, JournalSound, FrozenSound,
         NEW w \in Workers, Commit(w)
  PROVE  Log!Commit \/ UNCHANGED Log!vars
  <1> DEFINE d == ram[w].digest
             t == job[w].tx
             k == Len(t)
             base == Len(journal)
  <1>0. TypeOK /\ BatchSound /\ PositionsAgree
    BY DEF Core
  <1>1. /\ pc[w] = "consume" /\ journal' = journal \o t
        /\ source' = source /\ run' = run /\ job[w].queue = <<>>
    BY DEF Commit, file, store
  <1>2. /\ journal \in Seq(Entry) /\ t \in Seq(Entry) /\ d \in Seq(Lines)
        /\ source \in Seq(Lines) /\ meta.lines \in Nat
        /\ Len(d) = meta.lines + k /\ base = meta.lines /\ k \in Nat
    BY <1>0, <1>1, FieldTypes DEF TypeOK, Meta, PositionsAgree
  <1>3. ReadAhead(w)
    <2>1. edits = 0
      BY <1>0 DEF TypeOK
    <2>2. frozen = -1 /\ ~ (meta.lines + BatchRecords <= frozen)
      BY <1>2, <2>1, LimitsAssumption DEF FrozenSound
    <2> QED BY <1>1, <2>2 DEF FrozenSound, Batching
  <1>4. run.lines = base
    BY <1>1, <1>2 DEF ViewSound, ReportSound
  <1>5. k <= BatchRecords
    <2>1. Len(job[w].queue) = 0
      BY <1>1, EmptyLength
    <2>2. k + Len(job[w].queue) <= BatchRecords
      BY <1>0 DEF BatchSound
    <2> QED BY <1>2, <2>1, <2>2, LimitsAssumption
  <1>6. /\ Len(d) <= Len(source) /\ \A n \in 1 .. Len(d) : d[n] = source[n]
    BY <1>3 DEF ReadAhead, Follows
  <1>7. \A i \in 1 .. k : t[i].raw = d[base + i] /\ t[i].outcome = Verdict(d, base + i)
    BY <1>1, <1>2 DEF JournalSound
  <1> HIDE DEF d, t, base
  <1>8. ASSUME NEW i \in 1 .. k
        PROVE  t[i] = [raw |-> source[base + i], outcome |-> Verdict(source, base + i)]
    <2>1. /\ base + i \in Nat \ {0} /\ base + i \in 1 .. Len(d)
          /\ \A m \in 1 .. base + i : m \in 1 .. Len(d)
      <3>1. \A b, n, j \in Nat : 1 <= j /\ j <= n =>
              /\ b + j \in Nat \ {0} /\ b + j \in 1 .. b + n
              /\ \A m \in 1 .. b + j : m \in 1 .. b + n
        OBVIOUS
      <3>2. base \in Nat /\ i \in Nat /\ 1 <= i /\ i <= k /\ Len(d) = base + k
        BY <1>2
      <3> QED BY <1>2, <3>1, <3>2
    <2>2. Verdict(d, base + i) = Verdict(source, base + i)
      BY <1>6, <2>1, VerdictLocal
    <2>3. t[i] \in Entry
      BY <1>2
    <2>4. t[i].raw = source[base + i] /\ t[i].outcome = Verdict(source, base + i)
      BY <1>6, <1>7, <2>1, <2>2
    <2> QED BY <2>3, <2>4 DEF Entry
  <1>9. t = Log!Judged(k)
    <2>1. t = [i \in 1 .. k |-> t[i]]
      BY <1>2
    <2>2. Log!Judged(k) = [i \in 1 .. k |-> [raw |-> source[base + i],
                                           outcome |-> Verdict(source, base + i)]]
      BY SamePolicy DEF Log!Judged, base
    <2> QED BY <1>8, <2>1, <2>2
  <1>10. CASE k = 0
    <2>1. journal' = journal
      <3>1. t = <<>>
        BY <1>2, <1>10
      <3> QED BY <1>1, <1>2, <3>1 DEF t
    <2> QED BY <1>1, <2>1 DEF Log!vars
  <1>11. CASE k # 0
    <2>1. k \in 1 .. BatchRecords
      BY <1>2, <1>5, <1>11, LimitsAssumption
    <2>2. base + k <= Len(source)
      BY <1>2, <1>6
    <2>3. journal' = journal \o Log!Judged(k)
      BY <1>1, <1>9 DEF t
    <2> QED BY <1>1, <1>4, <2>1, <2>2, <2>3 DEF Log!Commit, base
  <1> QED BY <1>10, <1>11

LEMMA LogStep ==
  ASSUME MaxEdits = 0
  PROVE  Core /\ ReportSound /\ ViewSound /\ JournalSound /\ FrozenSound /\ [Next]_vars
           => [Log!Next]_Log!vars
  <1> SUFFICES ASSUME Core, ReportSound, ViewSound, JournalSound, FrozenSound, [Next]_vars
               PROVE  Log!Next \/ UNCHANGED Log!vars
    OBVIOUS
  <1>1. TypeOK /\ edits = 0
    BY DEF Core, TypeOK
  <1>2. ASSUME source' = source, journal' = journal, run' = run
        PROVE  UNCHANGED Log!vars
    BY <1>2 DEF Log!vars, EvidenceOf
  <1>3. CASE UNCHANGED vars
    BY <1>2, <1>3 DEF vars
  <1>4. ASSUME NEW w \in Workers, NEW c \in Contracts, Start(w, c)
        PROVE  UNCHANGED Log!vars
    BY <1>2, <1>4 DEF Start, file, store
  <1>5. ASSUME NEW w \in Workers,
               \/ RecoverRow(w) \/ FinishRecovery(w) \/ RefuseJournal(w)
               \/ ReadOutbox(w) \/ BeginPoll(w) \/ Verify(w) \/ ReadLine(w)
               \/ EndRead(w) \/ ConsumeLine(w) \/ StopPoll(w) \/ Close(w)
               \/ PollFault(w) \/ Crash(w)
        PROVE  UNCHANGED Log!vars
    BY <1>2, <1>5
       DEF RecoverRow, FinishRecovery, RefuseJournal, ReadOutbox, BeginPoll,
           Verify, ReadLine, EndRead, ConsumeLine, StopPoll, Close, PollFault,
           Crash, Ends, Fails, file, checkpoint, store
  <1>6. ASSUME NEW w \in Workers, Deliver(w) \/ SaveRun(w)
        PROVE  Log!Deliver \/ UNCHANGED Log!vars
    <2>1. /\ pc[w] \in {"deliver", "save"} /\ source' = source /\ journal' = journal
          /\ run' = run \/ run' = snapshot
      BY <1>6 DEF Deliver, SaveRun, ViewSound, file, checkpoint
    <2>2. JournalIntact
      BY <2>1 DEF JournalSound, Serving
    <2> QED BY <1>2, <2>1, <2>2, PublishIsDeliver
  <1>7. ASSUME NEW w \in Workers, Commit(w)
        PROVE  Log!Commit \/ UNCHANGED Log!vars
    BY <1>7, CommitIsCommit
  <1>8. CASE WriteFragment
    BY <1>2, <1>8 DEF WriteFragment, checkpoint, store
  <1>9. CASE WriteLine
    <2>1. journal' = journal /\ run' = run
      BY <1>9 DEF WriteLine, checkpoint, store
    <2>2. \E line \in Lines : source' = Append(source, line)
      BY <1>9 DEF WriteLine
    <2> QED BY <2>1, <2>2 DEF Log!Next, Log!Produce, EvidenceOf
  <1>10. CASE DisturbSource \/ EditJournal
    BY <1>1, <1>10 DEF DisturbSource, EditJournal, Outside
  <1> QED
    BY <1>3, <1>4, <1>5, <1>6, <1>7, <1>8, <1>9, <1>10
       DEF Next, Step, Environment, Log!Next

(* As long as nobody edits the file or the checkpoint, the follower, with  *)
(* its crashes, failed polls, replays and repeated deliveries, does what   *)
(* StreamLog says: each line exactly once, in order, with the policy's     *)
(* verdict, and findings of a committed prefix one batch behind at most.   *)
THEOREM ImplementsLog ==
  ASSUME MaxEdits = 0
  PROVE  Spec => LogSpec
  <1>1. Core /\ ReportSound /\ ViewSound /\ JournalSound /\ FrozenSound /\ [Next]_vars
          => [Log!Next]_Log!vars
    BY LogStep
  <1>2. Spec => []JournalSound
    BY JournalInvariant
  <1> QED BY <1>1, <1>2, LogInit, ReportsInvariant, FrozenInvariant, PTL
          DEF Spec, LogSpec, Log!Spec

-----------------------------------------------------------------------------
(* A checkpoint that was left alone can always be reopened.  Recovery      *)
(* accepts a journal only if offset and findings come out exactly as they  *)
(* were committed: both are results of a recursion over the lines.         *)
(* Instead of the recursion the invariant carries its graph: the offsets   *)
(* and the fed lines after each committed line, the same for the worker    *)
(* that committed them and for every one that replays them.                *)

(* Offset and accepted lines after each line of s.                         *)
Trace(s, sum, fed) ==
  /\ sum \in [0 .. Len(s) -> Nat] /\ fed \in [0 .. Len(s) -> Seq(Nat)]
  /\ sum[0] = 0 /\ fed[0] = <<>>
  /\ \A n \in 1 .. Len(s) :
       /\ sum[n] = sum[n - 1] + s[n].size
       /\ fed[n] = IF Verdict(s, n) = Accepted THEN Append(fed[n - 1], n)
                   ELSE fed[n - 1]
Traced(s, offset, session) ==
  \E sum, fed :
    Trace(s, sum, fed) /\ sum[Len(s)] = offset /\ fed[Len(s)] = session

(* The checkpoint's.                                                       *)
Recorded(sum, fed) ==
  /\ Trace(meta.prefix, sum, fed)
  /\ sum[meta.lines] = meta.offset /\ fed[meta.lines] = snapshot.evidence

(* A replay that met the committed lines so far is on the same course.     *)
SoFar(w) == \A m \in 1 .. Len(ram[w].digest) : ram[w].digest[m] = meta.prefix[m]
OnCourse(w, sum, fed) ==
  pc[w] = "recover" /\ SoFar(w) =>
    /\ ram[w].offset = sum[Len(ram[w].digest)]
    /\ ram[w].session = fed[Len(ram[w].digest)]

Current(w) ==
  pc[w] \notin {"down", "recover", "consume", "failed"} =>
    ram[w].offset = meta.offset /\ ram[w].session = snapshot.evidence
Consumed(w) ==
  pc[w] = "consume" => Traced(ram[w].digest, ram[w].offset, ram[w].session)

HistorySound ==
  /\ \E sum, fed : Recorded(sum, fed) /\ \A w \in Workers : OnCourse(w, sum, fed)
  /\ \A w \in Workers : Current(w) /\ Consumed(w)

-----------------------------------------------------------------------------
(* One line more.                                                          *)

LEMMA TraceEmpty ==
  ASSUME NEW s, s = <<>>
  PROVE  /\ Trace(s, [n \in 0 .. 0 |-> 0], [n \in 0 .. 0 |-> <<>>])
         /\ Traced(s, 0, <<>>)
  <1> DEFINE sum == [n \in 0 .. 0 |-> 0]
             fed == [n \in 0 .. 0 |-> <<>>]
  <1>1. Len(s) = 0
    BY EmptyLength
  <1>2. /\ sum \in [0 .. 0 -> Nat] /\ fed \in [0 .. 0 -> Seq(Nat)]
        /\ sum[0] = 0 /\ fed[0] = <<>>
    OBVIOUS
  <1>3. Trace(s, sum, fed)
    BY <1>1, <1>2 DEF Trace
  <1> QED BY <1>1, <1>2, <1>3 DEF Traced

LEMMA TraceGrows ==
  ASSUME NEW s \in Seq(Lines), NEW line \in Lines, NEW offset, NEW session,
         Traced(s, offset, session)
  PROVE  Traced(Append(s, line), offset + line.size,
                IF Verdict(Append(s, line), Len(s) + 1) = Accepted
                THEN Append(session, Len(s) + 1) ELSE session)
  <1> DEFINE t == Append(s, line)
             k == Len(s)
             taken == Verdict(t, k + 1) = Accepted
             last == IF taken THEN Append(session, k + 1) ELSE session
  <1>1. PICK sum, fed : Trace(s, sum, fed) /\ sum[k] = offset /\ fed[k] = session
    BY DEF Traced
  <1>2. /\ Len(t) = k + 1 /\ t[k + 1] = line /\ k \in Nat
        /\ \A n \in 1 .. k : t[n] = s[n]
    OBVIOUS
  <1>3. line.size \in Nat
    BY LineFields
  <1>4. \A n \in 1 .. k : Verdict(t, n) = Verdict(s, n)
    <2> SUFFICES ASSUME NEW n \in 1 .. k PROVE Verdict(t, n) = Verdict(s, n)
      OBVIOUS
    <2>1. n \in Nat \ {0} /\ \A m \in 1 .. n : m \in 1 .. k
      BY <1>2
    <2>2. \A m \in 1 .. n : t[m] = s[m]
      BY <1>2, <2>1
    <2> HIDE DEF t, k
    <2> QED BY <2>1, <2>2, VerdictLocal
  <1> DEFINE sums == [n \in 0 .. k + 1 |-> IF n = k + 1 THEN offset + line.size ELSE sum[n]]
             feds == [n \in 0 .. k + 1 |-> IF n = k + 1 THEN last ELSE fed[n]]
  <1> HIDE DEF t, k, taken
  <1>5. /\ sum \in [0 .. k -> Nat] /\ fed \in [0 .. k -> Seq(Nat)]
        /\ sum[0] = 0 /\ fed[0] = <<>>
        /\ \A n \in 1 .. k :
             /\ sum[n] = sum[n - 1] + s[n].size
             /\ fed[n] = IF Verdict(s, n) = Accepted THEN Append(fed[n - 1], n)
                         ELSE fed[n - 1]
    BY <1>1 DEF Trace, k
  <1>6. k \in 0 .. k /\ offset \in Nat /\ session \in Seq(Nat)
    BY <1>1, <1>2, <1>5
  <1>7. last \in Seq(Nat) /\ offset + line.size \in Nat
    BY <1>2, <1>3, <1>6
  <1> HIDE DEF last
  <1>8. /\ \A n \in 0 .. k + 1 : n = k + 1 \/ (n \in 0 .. k /\ n # k + 1)
        /\ 0 \in 0 .. k + 1 /\ 0 # k + 1 /\ k + 1 \in 0 .. k + 1
    BY <1>2
  <1>9. sums \in [0 .. k + 1 -> Nat] /\ feds \in [0 .. k + 1 -> Seq(Nat)]
    BY <1>5, <1>7, <1>8
  <1>10. /\ sums[0] = 0 /\ feds[0] = <<>>
         /\ sums[k + 1] = offset + line.size /\ feds[k + 1] = last
    BY <1>5, <1>8
  <1>11. ASSUME NEW n \in 1 .. k
         PROVE  /\ sums[n] = sums[n - 1] + t[n].size
                /\ feds[n] = IF Verdict(t, n) = Accepted THEN Append(feds[n - 1], n)
                             ELSE feds[n - 1]
    <2>1. n \in 0 .. k + 1 /\ n # k + 1 /\ n - 1 \in 0 .. k + 1 /\ n - 1 # k + 1
      BY <1>2
    <2>2. /\ sums[n] = sum[n] /\ sums[n - 1] = sum[n - 1]
          /\ feds[n] = fed[n] /\ feds[n - 1] = fed[n - 1]
      BY <2>1
    <2> HIDE DEF sums, feds
    <2> QED BY <1>2, <1>4, <1>5, <2>2
  <1>12. ASSUME NEW n \in 1 .. k + 1, n = k + 1
         PROVE  /\ sums[n] = sums[n - 1] + t[n].size
                /\ feds[n] = IF Verdict(t, n) = Accepted THEN Append(feds[n - 1], n)
                             ELSE feds[n - 1]
    <2>1. n - 1 = k /\ k \in 0 .. k + 1 /\ k # k + 1
      BY <1>2, <1>12
    <2>2. sums[n - 1] = offset /\ feds[n - 1] = session
      BY <1>1, <2>1 DEF k
    <2>3. sums[n] = offset + line.size /\ feds[n] = last
      BY <1>10, <1>12
    <2>4. t[n] = line /\ (Verdict(t, n) = Accepted <=> taken)
      BY <1>2, <1>12 DEF taken
    <2>5. last = IF taken THEN Append(session, n) ELSE session
      BY <1>12 DEF last
    <2> HIDE DEF sums, feds
    <2> QED BY <2>2, <2>3, <2>4, <2>5
  <1> HIDE DEF sums, feds
  <1>13. \A n \in 1 .. k + 1 : n = k + 1 \/ n \in 1 .. k
    BY <1>2
  <1>14. Trace(t, sums, feds)
    BY <1>2, <1>9, <1>10, <1>11, <1>12, <1>13 DEF Trace
  <1>15. Traced(t, offset + line.size, last)
    BY <1>2, <1>10, <1>14 DEF Traced
  <1> QED BY <1>15 DEF t, k, last, taken

LEMMA TraceAt ==
  ASSUME NEW s, NEW sum, NEW fed, Trace(s, sum, fed),
         NEW k \in Nat, k + 1 \in 1 .. Len(s)
  PROVE  /\ sum[k + 1] = sum[k] + s[k + 1].size
         /\ fed[k + 1] = IF Verdict(s, k + 1) = Accepted THEN Append(fed[k], k + 1)
                         ELSE fed[k]
  <1>1. (k + 1) - 1 = k
    OBVIOUS
  <1>2. /\ sum[k + 1] = sum[(k + 1) - 1] + s[k + 1].size
        /\ fed[k + 1] = IF Verdict(s, k + 1) = Accepted
                        THEN Append(fed[(k + 1) - 1], k + 1) ELSE fed[(k + 1) - 1]
    BY Zenon DEF Trace
  <1> QED BY <1>1, <1>2, Zenon

(* Consuming a line moves offset and fed lines that way.                   *)
LEMMA AbsorbTraces ==
  ASSUME NEW r, Faithful(r), NEW line \in Lines
  PROVE  /\ Absorb(r, line).offset = r.offset + line.size
         /\ Absorb(r, line).session =
              IF Verdict(Append(r.digest, line), Len(r.digest) + 1) = Accepted
              THEN Append(r.session, Len(r.digest) + 1) ELSE r.session
         /\ Absorb(r, line).digest = Append(r.digest, line)
  BY OutcomeIsVerdict DEF Absorb, IsAccepted

-----------------------------------------------------------------------------
(* The history is kept.                                                    *)

LEMMA HistoryInit == Init => HistorySound
  <1> SUFFICES ASSUME Init PROVE HistorySound
    OBVIOUS
  <1>1. /\ meta.prefix = <<>> /\ meta.lines = 0 /\ meta.offset = 0
        /\ snapshot.evidence = <<>> /\ \A w \in Workers : pc[w] = "down"
    BY DEF Init, NoMeta, NoReport
  <1> DEFINE sum == [n \in 0 .. 0 |-> 0]
             fed == [n \in 0 .. 0 |-> <<>>]
  <1>2. Trace(meta.prefix, sum, fed) /\ sum[0] = 0 /\ fed[0] = <<>>
    BY <1>1, TraceEmpty
  <1> HIDE DEF sum, fed
  <1>3. Recorded(sum, fed)
    BY <1>1, <1>2 DEF Recorded
  <1> QED BY <1>1, <1>3 DEF HistorySound, OnCourse, Current, Consumed

(* Recovery takes the committed line: it stays on course.                  *)
LEMMA CourseKept ==
  ASSUME Core, NEW w \in Workers, RecoverRow(w), NEW sum, NEW fed,
         Recorded(sum, fed), OnCourse(w, sum, fed)
  PROVE  OnCourse(w, sum, fed)'
  <1> DEFINE d == ram[w].digest
             k == Len(d)
             line == journal[k + 1].raw
  <1>0. TypeOK /\ MemorySound /\ PositionsAgree
    BY DEF Core
  <1>1. /\ line \in Lines /\ k + 1 \in 1 .. Len(journal) /\ pc[w] = "recover"
        /\ ram'[w] = Absorb(ram[w], line) /\ meta' = meta
    BY <1>0, NextRow DEF RecoverRow, TypeOK, checkpoint
  <1>2. /\ d \in Seq(Lines) /\ k \in Nat /\ Len(journal) = meta.lines
        /\ Len(meta.prefix) = meta.lines /\ meta.lines \in Nat
    BY <1>0, FieldTypes DEF PositionsAgree, TypeOK, Meta
  <1>3. /\ ram'[w].offset = ram[w].offset + line.size
        /\ ram'[w].session = IF Verdict(Append(d, line), k + 1) = Accepted
                             THEN Append(ram[w].session, k + 1) ELSE ram[w].session
        /\ ram'[w].digest = Append(d, line)
    <2>1. Faithful(ram[w])
      BY <1>0 DEF MemorySound
    <2> HIDE DEF line
    <2> QED BY <1>1, <2>1, AbsorbTraces
  <1> HIDE DEF line
  <1>4. SUFFICES ASSUME \A m \in 1 .. Len(ram'[w].digest) : ram'[w].digest[m] = meta.prefix[m]
                 PROVE  /\ ram'[w].offset = sum[Len(ram'[w].digest)]
                        /\ ram'[w].session = fed[Len(ram'[w].digest)]
    BY <1>1 DEF OnCourse, SoFar
  <1>5. /\ Len(Append(d, line)) = k + 1 /\ Append(d, line)[k + 1] = line
        /\ \A m \in 1 .. k : Append(d, line)[m] = d[m] /\ m \in 1 .. k + 1
        /\ k + 1 \in 1 .. k + 1
    <2> HIDE DEF d
    <2>1. Len(Append(d, line)) = Len(d) + 1 /\ Append(d, line)[Len(d) + 1] = line
          /\ (\A m \in 1 .. Len(d) : Append(d, line)[m] = d[m])
      BY <1>1, <1>2
    <2> QED BY <1>2, <2>1
  <1> HIDE DEF d, k
  <1>6. SoFar(w) /\ \A m \in 1 .. k + 1 : Append(d, line)[m] = meta.prefix[m]
    BY <1>3, <1>4, <1>5 DEF SoFar, d, k
  <1>7. ram[w].offset = sum[k] /\ ram[w].session = fed[k]
    BY <1>1, <1>6 DEF OnCourse, d, k
  <1>8. /\ sum[k + 1] = sum[k] + meta.prefix[k + 1].size
        /\ fed[k + 1] = IF Verdict(meta.prefix, k + 1) = Accepted
                        THEN Append(fed[k], k + 1) ELSE fed[k]
    <2>1. k \in Nat /\ k + 1 \in 1 .. Len(meta.prefix) /\ Trace(meta.prefix, sum, fed)
      BY <1>1, <1>2 DEF Recorded
    <2>2. sum[k + 1] = sum[k] + meta.prefix[k + 1].size
      BY <2>1, TraceAt
    <2>3. fed[k + 1] = IF Verdict(meta.prefix, k + 1) = Accepted
                       THEN Append(fed[k], k + 1) ELSE fed[k]
      BY <2>1, TraceAt
    <2> QED BY <2>2, <2>3
  <1>9. meta.prefix[k + 1] = line /\ Verdict(meta.prefix, k + 1) = Verdict(Append(d, line), k + 1)
    <2>1. k + 1 \in Nat \ {0}
      BY <1>2
    <2>2. Verdict(Append(d, line), k + 1) = Verdict(meta.prefix, k + 1)
      BY <1>6, <2>1, VerdictLocal
    <2> QED BY <1>5, <1>6, <2>2
  <1>10. Len(ram'[w].digest) = k + 1
    BY <1>3, <1>5
  <1> QED BY <1>3, <1>7, <1>8, <1>9, <1>10

LEMMA HistoryStep ==
  Core /\ Core' /\ ReportSound /\ HistorySound /\ [Next]_vars => HistorySound'
  <1> SUFFICES ASSUME Core, Core', ReportSound, HistorySound, [Next]_vars
               PROVE  HistorySound'
    OBVIOUS
  <1>0. TypeOK /\ SingleWriter /\ PositionsAgree /\ MemorySound /\ ContractPinned
    BY DEF Core
  <1>1. /\ pc \in [Workers -> Phases] /\ job \in [Workers -> Job]
        /\ ram \in [Workers -> Memory] /\ snapshot \in Report /\ meta \in Meta
    BY <1>0 DEF TypeOK
  <1>2. PICK sum, fed : Recorded(sum, fed) /\ \A w \in Workers : OnCourse(w, sum, fed)
    BY DEF HistorySound
  (* A step of w that commits nothing.                                     *)
  <1>3. ASSUME NEW w \in Workers, pc[w] # "down", meta' = meta,
               snapshot'.evidence = snapshot.evidence,
               \A v \in Workers : v # w => pc'[v] = "down" \/ pc'[v] = pc[v],
               OnCourse(w, sum, fed)', Current(w)', Consumed(w)'
        PROVE  HistorySound'
    <2>1. \A v \in Workers : v # w => pc'[v] = "down"
      BY <1>0, <1>3, Alone DEF Running
    <2>2. \A v \in Workers : OnCourse(v, sum, fed)' /\ Current(v)' /\ Consumed(v)'
      BY <1>3, <2>1 DEF OnCourse, Current, Consumed
    <2>3. Recorded(sum, fed)'
      BY <1>2, <1>3 DEF Recorded
    <2> QED BY <2>2, <2>3 DEF HistorySound
  <1>4. ASSUME UNCHANGED <<meta, snapshot, pc, ram>> PROVE HistorySound'
    <2>1. Recorded(sum, fed)' /\ \A w \in Workers : OnCourse(w, sum, fed)'
      BY <1>2, <1>4 DEF Recorded, OnCourse, SoFar
    <2>2. \A w \in Workers : Current(w)' /\ Consumed(w)'
      BY <1>4 DEF HistorySound, Current, Consumed
    <2> QED BY <2>1, <2>2 DEF HistorySound
  <1>5. ASSUME NEW w \in Workers, NEW c \in Contracts, Start(w, c)
        PROVE  HistorySound'
    <2>1. /\ \A v \in Workers : v # w => pc'[v] = "down"
          /\ snapshot' = snapshot
      BY <1>0, <1>1, <1>5, NobodyRuns DEF Start
    <2>2. /\ Len(ram'[w].digest) = 0 /\ ram'[w].offset = 0 /\ ram'[w].session = <<>>
      BY <1>1, <1>5, EmptyLength DEF Start, FreshMemory
    <2>3. sum[0] = 0 /\ fed[0] = <<>>
      BY <1>2 DEF Recorded, Trace
    <2>4. CASE /\ meta.contract = None /\ meta' = [NoMeta EXCEPT !.contract = c]
               /\ pc'[w] = "outbox"
      <3>1. /\ meta'.lines = 0 /\ meta'.offset = 0 /\ meta'.prefix = <<>>
        BY <2>4 DEF NoMeta
      <3>2. snapshot = NoReport
        BY <2>4 DEF ReportSound
      <3>3. snapshot'.evidence = <<>>
        BY <2>1, <3>2 DEF NoReport
      <3> DEFINE none == [n \in 0 .. 0 |-> 0]
                 nil  == [n \in 0 .. 0 |-> <<>>]
      <3>4. Trace(meta'.prefix, none, nil) /\ none[0] = 0 /\ nil[0] = <<>>
        BY <3>1, TraceEmpty
      <3> HIDE DEF none, nil
      <3>5. Recorded(none, nil)'
        BY <3>1, <3>3, <3>4 DEF Recorded
      <3>6. \A v \in Workers : OnCourse(v, none, nil)' /\ Current(v)' /\ Consumed(v)'
        BY <2>1, <2>2, <2>4, <3>1, <3>3 DEF OnCourse, Current, Consumed
      <3> QED BY <3>5, <3>6 DEF HistorySound
    <2>5. CASE meta' = meta /\ pc'[w] = "recover"
      <3>1. Recorded(sum, fed)'
        BY <1>2, <2>1, <2>5 DEF Recorded
      <3>2. \A v \in Workers : OnCourse(v, sum, fed)' /\ Current(v)' /\ Consumed(v)'
        BY <2>1, <2>2, <2>3, <2>5 DEF OnCourse, Current, Consumed
      <3> QED BY <3>1, <3>2 DEF HistorySound
    <2> QED BY <1>1, <1>5, <2>4, <2>5 DEF Start
  <1>6. ASSUME NEW w \in Workers, RecoverRow(w) PROVE HistorySound'
    <2>1. /\ pc[w] = "recover" /\ pc' = pc /\ meta' = meta /\ snapshot' = snapshot
      BY <1>6 DEF RecoverRow, checkpoint
    <2>2. OnCourse(w, sum, fed)'
      BY <1>2, <1>6, CourseKept
    <2> QED BY <1>3, <2>1, <2>2 DEF Current, Consumed
  <1>7. ASSUME NEW w \in Workers, FinishRecovery(w) PROVE HistorySound'
    <2>1. /\ pc[w] = "recover" /\ pc'[w] = "outbox" /\ meta' = meta
          /\ snapshot' = snapshot /\ ram' = ram
          /\ \A v \in Workers : v # w => pc'[v] = pc[v]
      BY <1>1, <1>7 DEF FinishRecovery, checkpoint
    <2>2. ram[w].digest = meta.prefix /\ Len(ram[w].digest) = meta.lines
      BY <1>7 DEF FinishRecovery, ReplayComplete
    <2>3. ram[w].offset = sum[meta.lines] /\ ram[w].session = fed[meta.lines]
      <3>1. SoFar(w)
        BY <2>2 DEF SoFar
      <3>2. OnCourse(w, sum, fed)
        BY <1>2
      <3> QED BY <2>1, <2>2, <3>1, <3>2 DEF OnCourse
    <2>4. ram[w].offset = meta.offset /\ ram[w].session = snapshot.evidence
      BY <1>2, <2>3 DEF Recorded
    <2> QED BY <1>3, <2>1, <2>4 DEF OnCourse, Current, Consumed
  (* Steps of a worker that stands where the checkpoint stands.            *)
  <1>8. ASSUME NEW w \in Workers,
               \/ ReadOutbox(w) \/ Deliver(w) \/ SaveRun(w) \/ BeginPoll(w)
               \/ Verify(w) \/ ReadLine(w)
        PROVE  HistorySound'
    <2>1. /\ pc[w] \in {"outbox", "deliver", "save", "ready", "verify", "read"}
          /\ meta' = meta /\ snapshot' = snapshot /\ ram' = ram
          /\ \A v \in Workers : v # w => pc'[v] = pc[v]
      BY <1>1, <1>8
         DEF ReadOutbox, Deliver, SaveRun, BeginPoll, Verify, ReadLine, Reading,
             checkpoint
    <2>2. pc'[w] \notin {"recover", "consume"}
      <3>1. job[w].cont \in {"verify", "ready"}
        BY <1>0, FieldTypes DEF Continuations
      <3> QED BY <1>1, <1>8, <3>1
              DEF ReadOutbox, Deliver, SaveRun, BeginPoll, Verify, ReadLine, Reading
    <2>3. ram[w].offset = meta.offset /\ ram[w].session = snapshot.evidence
      BY <2>1 DEF HistorySound, Current
    <2> QED BY <1>3, <2>1, <2>2, <2>3 DEF OnCourse, Current, Consumed
  <1>9. ASSUME NEW w \in Workers, EndRead(w) PROVE HistorySound'
    <2>1. /\ pc[w] = "read" /\ pc'[w] = "consume" /\ meta' = meta
          /\ snapshot' = snapshot /\ ram' = ram
          /\ \A v \in Workers : v # w => pc'[v] = pc[v]
      BY <1>1, <1>9 DEF EndRead, checkpoint
    <2>2. /\ ram[w].offset = meta.offset /\ ram[w].session = snapshot.evidence
          /\ ram[w].digest = meta.prefix /\ Len(meta.prefix) = meta.lines
      BY <1>0, <2>1 DEF HistorySound, Current, PositionsAgree
    <2>3. Traced(ram[w].digest, ram[w].offset, ram[w].session)
      BY <1>2, <2>2 DEF Recorded, Traced
    <2> QED BY <1>3, <2>1, <2>3 DEF OnCourse, Current, Consumed
  <1>10. ASSUME NEW w \in Workers, ConsumeLine(w) PROVE HistorySound'
    <2> DEFINE line == Head(job[w].queue)
    <2>1. /\ pc[w] = "consume" /\ pc' = pc /\ meta' = meta /\ snapshot' = snapshot
          /\ ram'[w] = Absorb(ram[w], line) /\ job[w].queue # <<>>
      BY <1>1, <1>10 DEF ConsumeLine, checkpoint
    <2>2. line \in Lines /\ ram[w].digest \in Seq(Lines) /\ Faithful(ram[w])
      BY <1>0, <2>1, FieldTypes DEF MemorySound
    <2>3. Traced(ram[w].digest, ram[w].offset, ram[w].session)
      BY <2>1 DEF HistorySound, Consumed
    <2> HIDE DEF line
    <2>4. Traced(ram'[w].digest, ram'[w].offset, ram'[w].session)
      <3>1. Traced(Append(ram[w].digest, line), ram[w].offset + line.size,
                   IF Verdict(Append(ram[w].digest, line), Len(ram[w].digest) + 1) = Accepted
                   THEN Append(ram[w].session, Len(ram[w].digest) + 1)
                   ELSE ram[w].session)
        BY <2>2, <2>3, TraceGrows
      <3>2. /\ ram'[w].offset = ram[w].offset + line.size
            /\ ram'[w].session =
                 IF Verdict(Append(ram[w].digest, line), Len(ram[w].digest) + 1) = Accepted
                 THEN Append(ram[w].session, Len(ram[w].digest) + 1) ELSE ram[w].session
            /\ ram'[w].digest = Append(ram[w].digest, line)
        BY <2>1, <2>2, AbsorbTraces
      <3> QED BY <3>1, <3>2
    <2> QED BY <1>3, <2>1, <2>4 DEF OnCourse, Current, Consumed
  <1>11. ASSUME NEW w \in Workers, Commit(w) PROVE HistorySound'
    <2>1. /\ pc[w] = "consume" /\ pc'[w] = "outbox" /\ ram' = ram
          /\ meta'.lines = Len(ram[w].digest) /\ meta'.prefix = ram[w].digest
          /\ meta'.offset = ram[w].offset /\ snapshot'.evidence = ram[w].session
          /\ \A v \in Workers : v # w => pc'[v] = pc[v]
      BY <1>1, <1>11 DEF Commit
    <2>2. Traced(ram[w].digest, ram[w].offset, ram[w].session)
      BY <2>1 DEF HistorySound, Consumed
    <2>3. PICK sums, feds : /\ Trace(ram[w].digest, sums, feds)
                            /\ sums[Len(ram[w].digest)] = ram[w].offset
                            /\ feds[Len(ram[w].digest)] = ram[w].session
      BY <2>2 DEF Traced
    <2>4. Recorded(sums, feds)'
      BY <2>1, <2>3 DEF Recorded
    <2>5. \A v \in Workers : v # w => pc'[v] = "down"
      BY <1>0, <2>1, Alone DEF Running
    <2>6. \A v \in Workers : OnCourse(v, sums, feds)' /\ Current(v)' /\ Consumed(v)'
      BY <2>1, <2>5 DEF OnCourse, Current, Consumed
    <2> QED BY <2>4, <2>6 DEF HistorySound
  <1>12. ASSUME NEW w \in Workers, Running(w), Ends(w) PROVE HistorySound'
    <2>1. /\ pc'[w] = "down" /\ meta' = meta /\ snapshot' = snapshot
          /\ \A v \in Workers : v # w => pc'[v] = pc[v]
      BY <1>1, <1>12 DEF Ends, checkpoint
    <2> QED BY <1>3, <1>12, <2>1 DEF OnCourse, Current, Consumed, Running
  <1>13. ASSUME NEW w \in Workers, Running(w), Fails(w) PROVE HistorySound'
    <2>1. /\ pc'[w] = "failed" /\ meta' = meta
          /\ snapshot'.evidence = snapshot.evidence
          /\ \A v \in Workers : v # w => pc'[v] = pc[v]
      BY <1>1, <1>13 DEF Fails, Report
    <2> QED BY <1>3, <1>13, <2>1 DEF OnCourse, Current, Consumed, Running
  <1>14. ASSUME NEW w \in Workers, RefuseJournal(w) \/ Close(w) \/ Crash(w)
         PROVE  HistorySound'
    BY <1>12, <1>14 DEF RefuseJournal, Close, Crash, Running
  <1>15. ASSUME NEW w \in Workers, StopPoll(w) \/ PollFault(w) PROVE HistorySound'
    BY <1>13, <1>15, BlockedRuns, InPollRuns DEF StopPoll, PollFault
  <1> QED
    BY <1>4, <1>5, <1>6, <1>7, <1>8, <1>9, <1>10, <1>11, <1>14, <1>15
       DEF Next, Step, Environment, WriteFragment, WriteLine, DisturbSource,
           EditJournal, Outside, checkpoint, vars

LEMMA HistoryInvariant == Spec => []HistorySound
  <1>1. /\ Core /\ Core' /\ ReportSound /\ HistorySound /\ [Next]_vars
        => HistorySound'
    BY HistoryStep
  <1> QED BY <1>1, HistoryInit, CoreInvariant, ReportsInvariant, PTL DEF Spec

-----------------------------------------------------------------------------
(* Recovery.                                                               *)

LEMMA RecoveryGoesOn ==
  ASSUME Core, ReportSound, JournalSound, LimitsSound, HistorySound, JournalIntact,
         NEW w \in Workers, pc[w] = "recover"
  PROVE  RowReplays(w) \/ ReplayComplete(w)
  <1> DEFINE d == ram[w].digest
             k == Len(d)
             line == journal[k + 1].raw
  <1>0. TypeOK /\ MemorySound /\ PositionsAgree
    BY DEF Core
  <1>1. /\ d \in Seq(Lines) /\ k \in Nat /\ meta.lines \in Nat /\ k <= meta.lines
        /\ Len(journal) = meta.lines /\ Len(meta.prefix) = meta.lines
        /\ meta.prefix \in Seq(Lines)
    BY <1>0, FieldTypes DEF PositionsAgree, TypeOK, Meta
  <1>2. \A n \in 1 .. meta.lines :
          /\ journal[n].raw = meta.prefix[n]
          /\ journal[n].outcome = Verdict(meta.prefix, n)
    BY DEF JournalIntact
  <1>3. \A n \in 1 .. k : d[n] = meta.prefix[n]
    BY <1>1, <1>2 DEF JournalSound
  <1>4. CASE k < meta.lines
    <2>1. k + 1 \in 1 .. meta.lines /\ k + 1 \in Nat \ {0}
      BY <1>1, <1>4
    <2>2. line = meta.prefix[k + 1] /\ line \in Lines
      BY <1>1, <1>2, <2>1
    <2> HIDE DEF line
    <2>3. /\ Append(d, line)[k + 1] = line
          /\ \A n \in 1 .. k : Append(d, line)[n] = d[n]
          /\ \A n \in 1 .. k + 1 : n = k + 1 \/ n \in 1 .. k
      BY <1>1, <2>2
    <2>4. Outcome(ram[w], line) = Verdict(Append(d, line), k + 1)
      BY <1>0, <2>2, OutcomeIsVerdict DEF MemorySound
    <2>5. Verdict(Append(d, line), k + 1) = Verdict(meta.prefix, k + 1)
      <3>1. \A n \in 1 .. k + 1 : Append(d, line)[n] = meta.prefix[n]
        BY <1>3, <2>2, <2>3
      <3> QED BY <2>1, <3>1, VerdictLocal
    <2>6. ~ SessionRefuses(ram[w], line)
      BY <1>0, <2>2, NeverRefused DEF MemorySound
    <2>7. k + 1 <= MaxRecords /\ line.size <= MaxLineBytes
      <3>1. meta.lines <= MaxRecords /\ meta.prefix[k + 1].size <= MaxLineBytes
        BY <2>1 DEF LimitsSound, WithinLimits
      <3> QED BY <1>1, <1>4, <2>1, <2>2, <3>1, LimitsAssumption
    <2>8. Outcome(ram[w], line) = journal[k + 1].outcome
      BY <1>2, <2>1, <2>4, <2>5
    <2> QED BY <1>1, <2>1, <2>6, <2>7, <2>8 DEF RowReplays, line
  <1>5. CASE ~ (k < meta.lines)
    <2>1. k = meta.lines
      BY <1>1, <1>5
    <2>2. d = meta.prefix
      <3> HIDE DEF d
      <3> QED BY <1>1, <1>3, <2>1, SeqEqual DEF d
    <2>3. PICK sum, fed : Recorded(sum, fed) /\ OnCourse(w, sum, fed)
      BY DEF HistorySound
    <2>4. ram[w].offset = meta.offset /\ ram[w].session = snapshot.evidence
      <3>1. SoFar(w)
        BY <1>3 DEF SoFar
      <3> QED BY <2>1, <2>3, <3>1 DEF OnCourse, Recorded
    <2>5. meta.offset <= MaxBytes
      BY DEF LimitsSound, WithinLimits
    <2>6. meta.lines > 0 => snapshot # NoReport
      BY DEF ReportSound, NoReport
    <2> QED BY <1>1, <2>1, <2>2, <2>4, <2>5, <2>6 DEF ReplayComplete
  <1> QED BY <1>4, <1>5

(* A journal nobody touched never makes the constructor give up, whatever  *)
(* was interrupted before: each row replays to its stored outcome, and the *)
(* offset and the findings come out as committed (_recover).               *)
THEOREM NeverStuck ==
  ASSUME ~ LiveEdits \/ MaxEdits = 0
  PROVE  Spec => []RecoveryNeverStuck
  <1>1. Core /\ ReportSound /\ JournalSound /\ LimitsSound /\ HistorySound
          => RecoveryNeverStuck
    BY RecoveryGoesOn DEF RecoveryNeverStuck
  <1>2. Spec => []JournalSound
    BY JournalInvariant
  <1> QED BY <1>1, <1>2, LimitsInvariant, HistoryInvariant, ReportsInvariant, PTL
=============================================================================
