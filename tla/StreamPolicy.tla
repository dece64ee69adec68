---------------------------- MODULE StreamPolicy ----------------------------
(***************************************************************************)
(* What the follower decides about one physical line of the followed JSONL *)
(* file, and what it remembers of it: ContinuousIngestor._consume and      *)
(* AnalysisSession.process.  The state those decisions need lives in RAM   *)
(* only; it is one record here, the "ram" of a worker.                     *)
(*                                                                         *)
(* The second half restates the same policy over the file alone, with no   *)
(* memory: the verdict on line n of a file s.  The module that proves the  *)
(* follower correct shows the two agree whatever crashes and replays the   *)
(* memory went through.                                                    *)
(***************************************************************************)
EXTENDS Integers, Sequences, Folding

CONSTANTS
  Keys,    (* (record kind, uid) pairs a record may carry               *)
  Bodies,  (* canonical record contents, told apart by their SHA-256    *)
  Lines,   (* the physical lines a producer may write                   *)
  None     (* no value: a key not seen, no contract, no lock holder     *)

(* A line is blank or a comment, fails to parse or normalise, or is a      *)
(* record.  Only a record's key, time and body are ever looked at.         *)
Kinds == {"blank", "malformed", "record"}

LineSpace == [kind : Kinds, key : Keys, time : Nat, body : Bodies,
              size : Nat \ {0}]

ASSUME LinesAssumption == Lines \subseteq LineSpace
ASSUME NoneAssumption  == None \notin Bodies /\ None \notin Keys

-----------------------------------------------------------------------------
(* The follower's memory.                                                  *)

(* Earlier than every record's time.                                       *)
NoTime == -1

(* uids, latest and digest are the follower's _uids, _latest and _digest,  *)
(* offset its _meta["offset"].  digest is kept as the lines hashed: equal  *)
(* digests are equal lines.  session is what the detectors were fed, as    *)
(* line numbers in feeding order (the findings are a function of it), and  *)
(* clock is the session's own _latest_timestamp.                           *)
Memory == [digest : Seq(Lines), offset : Nat,
           uids : [Keys -> Bodies \cup {None}], latest : Nat \cup {NoTime},
           session : Seq(Nat), clock : Nat \cup {NoTime}]

(* A new process: __init__ makes a new AnalysisSession and resets the rest.*)
FreshMemory == [digest |-> <<>>, offset |-> 0,
                uids |-> [k \in Keys |-> None], latest |-> NoTime,
                session |-> <<>>, clock |-> NoTime]

(* The JSON object parses and one of the event normalisers accepts it.     *)
IsRecord(line) == line.kind = "record"

Ignored      == [disposition |-> "ignored", reasons |-> {}]
Accepted     == [disposition |-> "accepted", reasons |-> {}]
Quarantined(reasons) == [disposition |-> "quarantined", reasons |-> reasons]

Reasons  == {"malformed", "duplicate", "conflict", "late"}
Outcomes == {Ignored, Accepted} \cup {Quarantined(R) : R \in SUBSET Reasons}

(* Fault: lateness is forgiven up to a second.                             *)
TolerantHeldBack(memory, line) ==
  LET first == memory.uids[line.key]
  IN  (IF first = None THEN {}
       ELSE IF first = line.body THEN {"duplicate"} ELSE {"conflict"})
      \cup (IF line.time + 1 < memory.latest THEN {"late"} ELSE {})

(* The reasons that hold a record back.  A key already seen is a duplicate *)
(* when the contents agree and a conflict when they do not; a record older *)
(* than the newest seen so far is late; both may apply.                    *)
HeldBack(memory, line) ==
  LET first == memory.uids[line.key]
  IN  (IF first = None THEN {}
       ELSE IF first = line.body THEN {"duplicate"} ELSE {"conflict"})
      \cup (IF line.time < memory.latest THEN {"late"} ELSE {})

(* The (disposition, reason) that _consume returns.                        *)
Outcome(memory, line) ==
  IF line.kind = "blank" THEN Ignored
  ELSE IF line.kind = "malformed" THEN Quarantined({"malformed"})
  ELSE IF HeldBack(memory, line) = {} THEN Accepted
  ELSE Quarantined(HeldBack(memory, line))

IsAccepted(memory, line) == Outcome(memory, line) = Accepted

(* AnalysisSession.process raises on an event older than the last it took. *)
SessionRefuses(memory, line) ==
  IsAccepted(memory, line) /\ line.time < memory.clock

(* Fault: a record that is held back leaves no trace.                      *)
ForgetfulAbsorb(memory, line) ==
  LET taken == IsAccepted(memory, line)
  IN  [digest  |-> Append(memory.digest, line),
       offset  |-> memory.offset + line.size,
       uids    |-> IF taken THEN [memory.uids EXCEPT ![line.key] = line.body]
                   ELSE memory.uids,
       latest  |-> IF taken THEN line.time ELSE memory.latest,
       session |-> IF taken THEN Append(memory.session, Len(memory.digest) + 1)
                   ELSE memory.session,
       clock   |-> IF taken THEN line.time ELSE memory.clock]

(* What consuming one line leaves in memory.  A record that is held back   *)
(* still registers a new key and still moves the high-water mark.          *)
Absorb(memory, line) ==
  [digest  |-> Append(memory.digest, line),
   offset  |-> memory.offset + line.size,
   uids    |-> IF IsRecord(line) /\ memory.uids[line.key] = None
               THEN [memory.uids EXCEPT ![line.key] = line.body]
               ELSE memory.uids,
   latest  |-> IF IsRecord(line) /\ line.time > memory.latest
               THEN line.time ELSE memory.latest,
   session |-> IF IsAccepted(memory, line)
               THEN Append(memory.session, Len(memory.digest) + 1)
               ELSE memory.session,
   clock   |-> IF IsAccepted(memory, line) THEN line.time ELSE memory.clock]

(* Reference: the memory of a worker that has consumed s from the start    *)
(* and was never interrupted.                                              *)
Replay(s) == Folded(Absorb, FreshMemory, s)

-----------------------------------------------------------------------------
(* The same policy over a file, without memory.                            *)

(* Some record before line n carries its key.                              *)
KeySeen(s, n) == \E m \in 1 .. n - 1 : IsRecord(s[m]) /\ s[m].key = s[n].key

(* The first record with line n's key has line n's content.                *)
SameAsFirst(s, n) ==
  \E m \in 1 .. n - 1 :
    /\ IsRecord(s[m]) /\ s[m].key = s[n].key /\ s[m].body = s[n].body
    /\ ~ KeySeen(s, m)

(* Some record before line n is newer than it.                             *)
Overtaken(s, n) == \E m \in 1 .. n - 1 : IsRecord(s[m]) /\ s[m].time > s[n].time

ReasonsAt(s, n) ==
  (IF ~ KeySeen(s, n) THEN {}
   ELSE IF SameAsFirst(s, n) THEN {"duplicate"} ELSE {"conflict"})
  \cup (IF Overtaken(s, n) THEN {"late"} ELSE {})

Verdict(s, n) ==
  IF s[n].kind = "blank" THEN Ignored
  ELSE IF s[n].kind = "malformed" THEN Quarantined({"malformed"})
  ELSE IF ReasonsAt(s, n) = {} THEN Accepted
  ELSE Quarantined(ReasonsAt(s, n))

(* The line numbers of the records that reach the detectors.               *)
AcceptedLines(s) == {n \in 1 .. Len(s) : Verdict(s, n) = Accepted}
=============================================================================
