------------------------- MODULE EncryptedDetector -------------------------
(***************************************************************************)
(* Encrypted sessions.  The feature extractor compares a session with the  *)
(* prior ones of its cohort and only then learns from it; the detector     *)
(* judges repeated sessions of one fingerprint by the features attached.   *)
(***************************************************************************)
EXTENDS SlidingWindow

CONSTANTS
  FeatureConfig,      (* the fields of PassiveFeatureConfig                *)
  EncryptedConfig,    (* the fields of EncryptedAnomalyConfig, in percent  *)
  SizeScore(_, _),    (* _score of a vector against prior vectors, percent *)
  TimingScore(_, _)   (*   or None when a position has too few references  *)

FeatureConfigValid ==
  /\ FeatureConfig.minBaseline >= 2 /\ FeatureConfig.minPrevalence \in Nat \ {0, 1}
  /\ FeatureConfig.maxHistory >= Max({FeatureConfig.minBaseline, FeatureConfig.minPrevalence})
  /\ FeatureConfig.maxCohorts >= 1 /\ FeatureConfig.history > 0
  /\ FeatureConfig.ceiling \in 1..100
ASSUME FeatureConfigAssumption == FeatureConfigValid
(* KeyedSlidingWindow takes no span that is not positive.                  *)
ASSUME EncryptedSpanAssumption == EncryptedConfig.window \in Nat \ {0}

FeaturesFresh == [order |-> <<>>, cohorts |-> <<>>]
EncryptedFresh == [windows |-> <<>>, last |-> <<>>]

(* The cohort moves to the end of the order; a new one may push the oldest *)
(* out.                                                                    *)
Touched(features, cohort) ==
  LET known == cohort \in DOMAIN features.cohorts
      full == ~known /\ Len(features.order) >= FeatureConfig.maxCohorts
      order == Append(IF full THEN Tail(features.order) ELSE Remove(features.order, cohort), cohort)
  IN  [order |-> order,
       cohorts |-> [c \in Range(order) |-> At(features.cohorts, c, <<>>)]]

Recent(history, ts) == Evicted(history, ts - FeatureConfig.history)
Same(h, e) == h.flow = e.flow /\ h.src = e.src /\ h.dst = e.dst
Repeated(history, e) == \E i \in DOMAIN history : Same(history[i], e)

Prevalence(history, e) ==
  LET prior == Picked(history, LAMBDA h : h.fp # None)
  IN  IF e.fp = None \/ Len(prior) < FeatureConfig.minPrevalence THEN None
      ELSE (100 * Count(prior, LAMBDA h : h.fp = e.fp)) \div Len(prior)
Learned(history) ==
  LET kept == Picked(history, LAMBDA h : h.vector # None)
  IN  [i \in DOMAIN kept |-> kept[i].vector]
Against(S(_, _), history, e) ==
  IF e.vector = None \/ Len(Learned(history)) < FeatureConfig.minBaseline THEN None
  ELSE S(e.vector, Learned(history))

(* Measured features need every part and a session not seen before; scores *)
(* supplied with the record are taken in compatibility mode alone, and     *)
(* only for a record without packets.                                      *)
Enriched(history, e, supplied) ==
  LET measured == [prevalence |-> Prevalence(history, e), size |-> Against(SizeScore, history, e),
                   timing |-> Against(TimingScore, history, e)]
      features == IF ~Repeated(history, e) /\ None \notin Range(measured)
                  THEN measured
                  ELSE IF supplied /\ e.supplied # None /\ e.fp # None /\ ~e.packets
                            /\ ~Repeated(history, e)
                       THEN e.supplied ELSE None
  IN  Put(e, "features", features)

(* A session that already looks anomalous teaches the cohort nothing.      *)
Learns(history, e) ==
  LET scores == {Against(SizeScore, history, e), Against(TimingScore, history, e)}
  IN  ~Repeated(history, e) /\ (None \in scores \/ Max(scores) < FeatureConfig.ceiling)

Enrich(features, e, supplied) ==
  LET touched == Touched(features, e.cohort)
      history == Recent(touched.cohorts[e.cohort], e.ts)
      longer == IF Learns(history, e) THEN Append(history, e) ELSE history
  IN  [event |-> Enriched(history, e, supplied),
       features |-> [touched EXCEPT !.cohorts[e.cohort] =
         SubSeq(longer, Max({1, Len(longer) - FeatureConfig.maxHistory + 1}), Len(longer))]]

Suspicious(w) ==
  LET n == Len(w) IN
  /\ n >= EncryptedConfig.minSessions
  /\ Total(w, LAMBDA e : e.features.prevalence) <= EncryptedConfig.maxPrevalence * n
  /\ Total(w, LAMBDA e : e.features.size) >= EncryptedConfig.minSize * n
  /\ Total(w, LAMBDA e : e.features.timing) >= EncryptedConfig.minTiming * n

(* Of the confidence, what does not come from the fingerprint's rarity.    *)
EncryptedAlert(w, e) ==
  Alert("encrypted_session_threat", "encrypted_session_metadata_anomaly",
        <<"encrypted", e.src, e.dst, e.fp, w[1].ts, e.ts>>, <<"encrypted", e.src, e.dst, e.fp>>,
        e, e.dst, w[1].ts, Flows(w),
        58 + (14 * Total(w, LAMBDA x : x.features.size + x.features.timing)) \div (100 * Len(w)))

(* A session without features or fingerprint does not enter the window.    *)
EncryptedProcess(state, e) ==
  LET key == <<e.src, e.dst, e.fp>>
      windows == Added(state.windows, key, e, EncryptedConfig.window)
      found == Rule(Suspicious(windows[key]), EncryptedAlert(windows[key], e))
      said == Spaced(state.last, found, EncryptedConfig.cooldown)
  IN  IF e.features = None \/ e.fp = None THEN Answer(state, <<>>)
      ELSE Answer([windows |-> windows, last |-> said.last], said.alerts)
=============================================================================
