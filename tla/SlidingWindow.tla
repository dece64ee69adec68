--------------------------- MODULE SlidingWindow ---------------------------
(***************************************************************************)
(* What every detector is built from: event-time windows kept per key, and *)
(* the time of the last alert raised for a key.  A map that grows as keys  *)
(* appear is a function whose domain grows; the empty map is <<>>.         *)
(***************************************************************************)
EXTENDS Integers, SequencesExt, Folding

CONSTANT None   (* no target, no fingerprint, no score, no time            *)

At(map, key, default) == IF key \in DOMAIN map THEN map[key] ELSE default
Put(map, key, value) == [k \in DOMAIN map \cup {key} |-> IF k = key THEN value ELSE map[k]]

(* Events are popped from the front while they are older than the cutoff.  *)
Evicted(window, cutoff) ==
  LET kept == {i \in DOMAIN window : window[i].ts >= cutoff}
  IN  IF kept = {} THEN <<>> ELSE SubSeq(window, Min(kept), Len(window))

(* Mutant of Inserted: every event goes last, a late one too.              *)
ArrivalInserted(window, event) == Append(window, event)
(* A late event goes after those of its own time; the latest time seen for *)
(* the key is always that of the last event, which is never evicted.       *)
Inserted(window, event) ==
  InsertAt(window, Max({0} \cup {i \in DOMAIN window : window[i].ts <= event.ts}) + 1, event)
Added(windows, key, event, span) ==
  LET window == Inserted(At(windows, key, <<>>), event)
  IN  Put(windows, key, Evicted(window, Last(window).ts - span))

(* Mutant of CooledDown: the cooldown lasts a moment longer.               *)
LateCooledDown(last, key, ts, cooldown) ==
  key \in DOMAIN last => ts - last[key] > cooldown
CooledDown(last, key, ts, cooldown) ==
  key \in DOMAIN last => ts - last[key] >= cooldown

(* Helpers over the events of a window: a sum, the events that pass a test *)
(* and how many they are, and their flows.                                 *)
Total(window, F(_)) == Folded(LAMBDA sum, e : sum + F(e), 0, window)
Picked(window, Test(_)) == Chosen(window, {e \in Range(window) : Test(e)})
Count(window, Test(_)) == Len(Picked(window, Test))
Flows(window) == {window[i].flow : i \in DOMAIN window}

(* A detector's answer: its new state and the alerts it raises.  `cool' is *)
(* the key under which the alert's cooldown runs; confidence is a percent. *)
Answer(state, alerts) == [state |-> state, alerts |-> alerts]
Alert(type, subtype, id, cool, event, dst, start, flows, confidence) ==
  [id |-> id, type |-> type, subtype |-> subtype, cool |-> cool, src |-> event.src,
   dst |-> dst, start |-> start, end |-> event.ts, flows |-> flows,
   confidence |-> confidence, names |-> {}]
(* What a rule that holds finds.                                           *)
Rule(holds, finding) == IF holds THEN <<finding>> ELSE <<>>
(* Of the alerts found at an event each in turn is raised unless its key   *)
(* still cools down.                                                       *)
Spaced(last, found, cooldown) ==
  Folded(LAMBDA said, a : IF CooledDown(said.last, a.cool, a.end, cooldown)
                          THEN [last |-> Put(said.last, a.cool, a.end), alerts |-> Append(said.alerts, a)]
                          ELSE said,
         [last |-> last, alerts |-> <<>>], found)
(* min(max(observed / threshold - 1, 0), 1), as a percent.                 *)
Excess(observed, threshold) ==
  (100 * Max({0, Min({observed - threshold, threshold})})) \div threshold

(* An operator's rule for one endpoint; an empty protocol or service is    *)
(* a wildcard.                                                             *)
RuleMatches(rule, e) ==
  /\ e.src = rule.src /\ e.dst = rule.dst /\ e.dport = rule.dport
  /\ rule.protocol \in {None, e.protocol} /\ rule.service \in {None, e.service}
=============================================================================
