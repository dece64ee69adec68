----------------------------- MODULE C2Detector -----------------------------
(***************************************************************************)
(* Beacons: connections of one source to one service at regular intervals  *)
(* and of similar, small sizes.  Encrypted-session metadata of the same    *)
(* flows only adjusts the confidence.                                      *)
(***************************************************************************)
EXTENDS SlidingWindow

CONSTANTS
  C2Config,            (* the fields of C2Config, ratios in percent        *)
  AllowedDestinations, (* destinations whose repetition is expected        *)
  TrustedPeriodic      (* the operator's endpoint rules                    *)

C2ConfigValid ==
  /\ C2Config.window \in Nat \ {0} /\ C2Config.minConnections >= 3
  /\ 0 < C2Config.minInterval /\ C2Config.minInterval < C2Config.maxInterval
  /\ C2Config.intervalPct >= 0 /\ C2Config.sizePct >= 0
  /\ C2Config.minSpan > 0 /\ C2Config.maxMeanBytes > 0
ASSUME C2ConfigAssumption == C2ConfigValid

C2Fresh == [windows |-> <<>>, last |-> <<>>]

(* The coefficient of variation is at most pct percent: with S and Q the   *)
(* sums of the values and of their squares, n.Q - S^2 <= (pct.S/100)^2.    *)
Steady(values, pct) ==
  LET sum == Total(values, LAMBDA v : v)
      squares == Total(values, LAMBDA v : v * v)
  IN  10000 * (Len(values) * squares - sum * sum) <= pct * pct * sum * sum

Intervals(w) == [i \in 1..(Len(w) - 1) |-> w[i + 1].ts - w[i].ts]
Sizes(w) == [i \in DOMAIN w |-> w[i].outbound + w[i].inbound]

Beacon(w) ==
  LET n == Len(w)
      span == Last(w).ts - w[1].ts
      completed == Count(w, LAMBDA e : e.state \notin {"S0", "REJ"})
  IN  /\ n >= C2Config.minConnections
      /\ C2Config.minInterval * (n - 1) <= span /\ span <= C2Config.maxInterval * (n - 1)
      /\ Steady(Intervals(w), C2Config.intervalPct)
      /\ Steady(Sizes(w), C2Config.sizePct)
      /\ span >= C2Config.minSpan
      /\ Total(Sizes(w), LAMBDA v : v) <= C2Config.maxMeanBytes * n
      /\ 100 * completed >= C2Config.completedPct * n

(* build_encrypted_metadata_index: how unusual each flow's session looks   *)
(* among the sessions between the same endpoints, in percent.              *)
Unusual(sessions, s) ==
  LET rare == Cardinality({x \in sessions : x.fp = s.fp}) = 1
  IN  (IF s.named THEN 0 ELSE 25) + (IF s.modern THEN 0 ELSE 25)
      + (IF s.established THEN 0 ELSE 20) + (IF s.fp # None /\ rare THEN 20 ELSE 0)
MetadataScore(w, sessions) ==
  LET met == Picked(w, LAMBDA e : \E s \in sessions : s.flow = e.flow)
      score == Total(met, LAMBDA e : Unusual(sessions, CHOOSE s \in sessions : s.flow = e.flow))
  IN  IF met = <<>> THEN 0 ELSE score \div Len(met)

(* Of the confidence, what does not measure the regularity itself.        *)
C2Alert(w, e, sessions) ==
  Alert("command_and_control", "periodic_beacon", <<"c2", e.src, e.dst, e.dport, w[1].ts, e.ts>>,
        <<"c2", e.src, e.dst, e.dport, e.protocol>>, e, e.dst, w[1].ts, Flows(w),
        Min({96, 68 + (8 * Min({MetadataScore(w, sessions), 50})) \div 100}))

(* DNS repetition belongs to the DNS detector; a trusted endpoint is not   *)
(* even remembered, an allowed destination is remembered and not judged.   *)
C2Process(state, e, sessions) ==
  LET key == <<e.src, e.dst, e.dport, e.protocol>>
      windows == Added(state.windows, key, e, C2Config.window)
      found == Rule(e.dst \notin AllowedDestinations /\ Beacon(windows[key]),
                    C2Alert(windows[key], e, sessions))
      said == Spaced(state.last, found, C2Config.cooldown)
  IN  IF e.dport = 53 \/ e.service = "dns" \/ \E r \in TrustedPeriodic : RuleMatches(r, e)
      THEN Answer(state, <<>>)
      ELSE Answer([windows |-> windows, last |-> said.last], said.alerts)
=============================================================================
