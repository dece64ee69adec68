------------------------ MODULE ExfiltrationDetector ------------------------
(***************************************************************************)
(* Large one-sided transfers, judged against the source's own history.     *)
(* This detector's state is kept between runs of the command line: it is   *)
(* exported when a run ends and restored, window by window, when the next  *)
(* one starts.                                                             *)
(***************************************************************************)
EXTENDS SlidingWindow

CONSTANTS
  ExfilConfig,    (* the fields of ExfiltrationConfig                      *)
  ApprovedBackup, (* destinations of approved backups                      *)
  ApprovedBulk    (* the operator's endpoint rules                         *)

ExfilConfigValid ==
  /\ ExfilConfig.window \in Nat \ {0} /\ ExfilConfig.minFlows >= 2 /\ ExfilConfig.minBytes \in Nat \ {0}
  /\ ExfilConfig.minRatio > 1 /\ ExfilConfig.multiplier > 1
  /\ ExfilConfig.history \in Nat /\ ExfilConfig.history >= 3
ASSUME ExfilConfigAssumption == ExfilConfigValid

ExfilFresh == [windows |-> <<>>, baselines |-> <<>>, first |-> <<>>, last |-> <<>>]

(* deque(maxlen): the oldest value falls out.                              *)
Remembered(values, value) ==
  LET all == Append(values, value)
  IN  SubSeq(all, Max({1, Len(all) - ExfilConfig.history + 1}), Len(all))

(* Twice the median; 0 for no history.                                     *)
DoubleMedian(values) ==
  LET s == SortSeq(values, <)
      n == Len(values)
  IN  IF n = 0 THEN 0
      ELSE IF n % 2 = 1 THEN 2 * s[(n + 1) \div 2] ELSE s[n \div 2] + s[n \div 2 + 1]

Sent(w) == Total(w, LAMBDA e : e.outbound)
Received(w) == Total(w, LAMBDA e : e.inbound)
OneSided(sent, received, ratio) == sent >= ratio * Max({received, 1})

(* One transfer that is enough by itself.                                  *)
Huge(e) ==
  /\ e.outbound >= ExfilConfig.singleBytes
  /\ OneSided(e.outbound, e.inbound, ExfilConfig.singleRatio)
(* A window that stands out, with or without a history to compare with.    *)
Outlier(w, median2) ==
  \/ /\ Sent(w) >= ExfilConfig.minBytes
     /\ OneSided(Sent(w), Received(w), ExfilConfig.minRatio)
     /\ median2 > 0
     /\ 2 * Sent(w) >= Max({median2 * ExfilConfig.multiplier, 2}) * Len(w)
  \/ /\ Sent(w) >= ExfilConfig.freeBytes
     /\ OneSided(Sent(w), Received(w), ExfilConfig.freeRatio)

ExfilAlert(w, e) ==
  Alert("data_exfiltration", "outbound_volume_anomaly", <<"exfil", e.src, e.dst, w[1].ts, e.ts>>,
        <<"exfil", e.src, e.dst>>, e, e.dst, w[1].ts, Flows(w),
        Min({96, 70 + (12 * Min({Sent(w) - ExfilConfig.minBytes, ExfilConfig.minBytes}))
                      \div ExfilConfig.minBytes}))

(* The median is taken before this event joins the history.                *)
ExfilProcess(state, e) ==
  LET key == <<e.src, e.dst>>
      baseline == At(state.baselines, e.src, <<>>)
      windows == Added(state.windows, key, e, ExfilConfig.window)
      found == IF Huge(e) THEN <<ExfilAlert(<<e>>, e)>>
               ELSE Rule(/\ Len(windows[key]) >= ExfilConfig.minFlows
                         /\ Outlier(windows[key], DoubleMedian(baseline)),
                         ExfilAlert(windows[key], e))
      said == Spaced(state.last, found, ExfilConfig.cooldown)
  IN  IF e.dst \in ApprovedBackup \/ \E r \in ApprovedBulk : RuleMatches(r, e)
      THEN Answer(state, <<>>)
      ELSE Answer([windows |-> windows,
                   baselines |-> Put(state.baselines, e.src, Remembered(baseline, e.outbound)),
                   first |-> Put(state.first, key, At(state.first, key, e.ts)),
                   last |-> said.last], said.alerts)

(* What is written to the repository, and what is read back: the windows   *)
(* are rebuilt by adding their events, one by one.                         *)
Export(state) == state
Rebuilt(window, key) ==
  Folded(LAMBDA map, e : Added(map, key, e, ExfilConfig.window), <<>>, window)[key]
(* Mutant of Restore: the histories of volumes are not kept.               *)
BaselessRestore(exported) ==
  [exported EXCEPT !.windows = [key \in DOMAIN exported.windows |-> Rebuilt(exported.windows[key], key)],
                   !.baselines = <<>>]
Restore(exported) ==
  [exported EXCEPT !.windows = [key \in DOMAIN exported.windows |-> Rebuilt(exported.windows[key], key)],
                   !.baselines = [src \in DOMAIN exported.baselines |->
                                    Folded(Remembered, <<>>, exported.baselines[src])]]
=============================================================================
