------------------------------ MODULE Benchmark ------------------------------
(***************************************************************************)
(* The offline benchmark: a manifest's artifacts are audited for leakage,  *)
(* those of one split analysed, and what the analysis raised is scored     *)
(* against declared units; and the scorer the live reports use, which      *)
(* forms its own units from labels carried by the records.  What the       *)
(* analysis raises is any set of alerts over the accepted flows: truth     *)
(* never reaches it.  Telemetry stands for its fingerprint.                *)
(***************************************************************************)
EXTENDS Integers, FiniteSets, Sequences, FiniteSetsExt, TLC

CONSTANTS
  Corpora,      (* manifests: artifacts and, perhaps, a model's lineage    *)
  Raisable(_),  (* of a set of artifacts, by id: the alerts each may raise *)
  RecordLimit   (* 500,000 in the code                                     *)

VARIABLES
  corpus,       (* the manifest and its files                              *)
  published     (* the report of the last evaluation                       *)
evaluation == <<corpus, published>>

-----------------------------------------------------------------------------
(* Labels and units.                                                       *)

ExpectedSubtypes ==
  [volumetric_ddos_syn_flood |-> {"syn_flood", "distributed_source_syn_flood"},
   volumetric_ddos_distributed_source_syn_flood |-> {"distributed_source_syn_flood"},
   volumetric_ddos_suspected_spoofed_source_flood |-> {"distributed_source_syn_flood"},
   udp_reflection_amplification |-> {"udp_reflection_amplification"},
   reconnaissance_port_scan |-> {"vertical_port_scan", "horizontal_host_scan", "multi_host_port_scan"},
   botnet_c2_beaconing |-> {"periodic_beacon"}, dga_domain |-> {"dga_like_domain"},
   dns_tunnelling |-> {"dns_tunnelling"},
   encrypted_session_malware |-> {"encrypted_session_metadata_anomaly"},
   data_exfiltration |-> {"outbound_volume_anomaly"}]
ClassSubtypes ==
  [c \in DOMAIN ExpectedSubtypes \cup {"volumetric_ddos_udp_flood", "any_attack"} |->
     CASE c \in DOMAIN ExpectedSubtypes -> ExpectedSubtypes[c]
       [] c = "volumetric_ddos_udp_flood" -> {"udp_flood"} [] c = "any_attack" -> {}]
Classes == DOMAIN ClassSubtypes

Unit(flows, label, expected) == [flows |-> flows, label |-> label, expected |-> expected]
(* A flood is one target's, a scan one source's, other attacks a pair's.   *)
UnitKey(r) ==
  IF r.label = "benign" THEN <<r.label, r.class, r.src, r.dst, r.port, r.service>>
  ELSE IF r.class \in {"volumetric_ddos_syn_flood", "udp_reflection_amplification"} THEN <<r.label, r.class, r.dst, r.port>>
  ELSE IF r.class = "reconnaissance_port_scan" THEN <<r.label, r.class, r.src>>
  ELSE <<r.label, r.class, r.src, r.dst>>
LabelledRecords(records) == {r \in records : r.label \in {"attack", "benign"} /\ r.class # ""}
ScenarioUnits(records) ==
  LET labelled == LabelledRecords(records)
  IN  {Unit({t.uid : t \in {s \in labelled : UnitKey(s) = UnitKey(r)}}, r.label,
            IF r.label = "attack" THEN {r.class} ELSE {}) : r \in labelled}

Uids(records) == {r.uid : r \in records}
UnitsValid(units, uids) ==
  /\ \A u \in units :
       /\ u.label \in {"attack", "benign", "unknown"} /\ u.flows # {} /\ u.flows \subseteq uids
       /\ u.expected \subseteq Classes
       /\ (u.label = "attack") <=> (u.expected # {})
       /\ "any_attack" \in u.expected => u.expected = {"any_attack"}
  /\ \A u, v \in units : u # v => u.flows \cap v.flows = {}
(* What carries no label is unknown, never benign.                         *)
Completed(units, uids) ==
  units \cup {Unit({x}, "unknown", {}) : x \in uids \ UNION {u.flows : u \in units}}

-----------------------------------------------------------------------------
(* The scorer of the live reports: units formed from the records.          *)

Overlapping(u, alerts) == {a \in alerts : a.flows \cap u.flows # {}}
AcceptableSubtypes(u) == UNION {ExpectedSubtypes[c] : c \in u.expected \cap DOMAIN ExpectedSubtypes}
Matching(u, alerts) == {a \in Overlapping(u, alerts) : a.subtype \in AcceptableSubtypes(u)}
GroundTruth(records, alerts) ==
  LET attacks   == {u \in ScenarioUnits(records) : u.label = "attack"}
      benign    == ScenarioUnits(records) \ attacks
      alarmed(units)  == {u \in units : Overlapping(u, alerts) # {}}
      detected  == {u \in attacks : Matching(u, alerts) # {}}
      unmatched == alerts \ UNION {Overlapping(u, alerts) : u \in attacks \cup benign}
  IN  [tp |-> Cardinality(detected), fn |-> Cardinality(attacks \ detected),
       fp |-> Cardinality(alarmed(benign)) + Cardinality(unmatched),
       tn |-> Cardinality(benign \ alarmed(benign)),
       mismatches |-> Cardinality(alarmed(attacks) \ detected), unmatched |-> Cardinality(unmatched),
       class |-> [c \in DOMAIN ExpectedSubtypes |->
                    [tp |-> Cardinality({u \in detected : c \in u.expected}),
                     fn |-> Cardinality({u \in attacks \ detected : c \in u.expected})]]]

(* The scorer of the benchmark: declared units, every class a column of    *)
(* its own; a generic label says nothing of a specific class.              *)
Predictions(uid, alerts) ==
  UNION {{"any_attack"} \cup {c \in Classes : a.subtype \in ClassSubtypes[c]} : a \in {b \in alerts : uid \in b.flows}}
CommonlyObserved(u, alerts) == {c \in Classes : \A uid \in u.flows : c \in Predictions(uid, alerts)}
Observed(u, alerts) == UNION {Predictions(uid, alerts) : uid \in u.flows}
Told(actual, detected) ==
  IF actual THEN (IF detected THEN "tp" ELSE "fn") ELSE (IF detected THEN "fp" ELSE "tn")
Outcomes == {"tp", "fn", "fp", "tn"}
Tally(units, Outcome(_)) ==
  [o \in Outcomes |-> Cardinality({u \in units : Outcome(u) = o})]
ScoreUnits(units, alerts) ==
  LET known == {u \in units : u.label # "unknown"}
      column(c) ==
        IF c = "any_attack" THEN Tally(known, LAMBDA u : Told(u.label = "attack", c \in Observed(u, alerts)))
        ELSE Tally({u \in known : "any_attack" \notin u.expected},
                     LAMBDA u : Told(c \in u.expected, c \in Observed(u, alerts)))
  IN  [binary |-> Tally(known, LAMBDA u : Told(u.label = "attack", Observed(u, alerts) # {})),
       class |-> [c \in Classes |-> column(c)]]

-----------------------------------------------------------------------------
(* The audit of a corpus, and its evaluation.                              *)

BenchmarkSplits == {"train", "validation", "test"}
GroupIds(a) == a.groups \cup {a.capture}
ArtifactValid(a) ==
  /\ a.split \in BenchmarkSplits /\ a.groups # {} /\ a.pinned
  /\ a.records # {} /\ Cardinality(Uids(a.records)) = Cardinality(a.records)
  /\ a.count = Cardinality(a.records)
  /\ UnitsValid(a.units, Uids(a.records))
Accepted(a) == {r \in a.records : r.accepted}
Of(artifacts, split) == {a \in artifacts : a.split = split}
Telemetry(a) == {r.telemetry : r \in Accepted(a)}
Leaks(a, b) == a.split # b.split /\ (GroupIds(a) \cap GroupIds(b) # {} \/ Telemetry(a) \cap Telemetry(b) # {})
CorpusAudited(artifacts) ==
  /\ Cardinality(artifacts) \in 1..100
  /\ \A a \in artifacts : ArtifactValid(a)
  /\ \A a, b \in artifacts : a # b => a.id # b.id /\ a.capture # b.capture /\ a.content # b.content /\ ~Leaks(a, b)
  /\ SumFunction([a \in artifacts |-> Cardinality(a.records)]) <= RecordLimit
(* A pinned model names the groups it learned from: audited, train-only.   *)
LineageAudited(c) ==
  ~c.modelled \/ (c.lineage # {} /\ c.lineage \subseteq UNION {a.groups : a \in Of(c.artifacts, "train")})

(* An analysis is given the accepted flows and nothing else.               *)
ASSUME BenchmarkAssumption ==
  \A c \in Corpora :
    /\ IsFiniteSet(c.artifacts) /\ \A a \in c.artifacts : IsFiniteSet(a.records) /\ IsFiniteSet(a.units)
    /\ \A split \in BenchmarkSplits :
         LET chosen == Of(c.artifacts, split)
         IN  chosen # {} =>
               \A raised \in Raisable(chosen) : \A a \in chosen :
                 /\ IsFiniteSet(raised[a.id])
                 /\ \A alert \in raised[a.id] : alert.flows \subseteq Uids(Accepted(a))

BenchmarkInit == corpus \in Corpora /\ published = [split |-> "none"]
RunBenchmark(split) ==
  LET chosen == Of(corpus.artifacts, split)
  IN  /\ published.split = "none"   (* a process of its own *)
      /\ CorpusAudited(corpus.artifacts) /\ chosen # {} /\ LineageAudited(corpus)
      /\ \E raised \in Raisable(chosen) :
           LET scores == [a \in chosen |-> ScoreUnits(Completed(a.units, Uids(a.records)), raised[a.id])]
           IN  published' =
                 [split |-> split, raised |-> raised,
                  binary |-> [o \in Outcomes |-> SumFunction([a \in chosen |-> scores[a].binary[o]])],
                  class |-> [c \in Classes |-> [o \in Outcomes |-> SumFunction([a \in chosen |-> scores[a].class[c][o]])]]]
      /\ UNCHANGED corpus
BenchmarkNext == \E split \in BenchmarkSplits : RunBenchmark(split)
BenchmarkSpec == BenchmarkInit /\ [][BenchmarkNext]_evaluation

-----------------------------------------------------------------------------
(* Properties.                                                             *)

Evaluated == Of(corpus.artifacts, published.split)
Truth(Part(_)) == SumFunction([a \in Evaluated |-> Part(GroundTruth(Accepted(a), published.raised[a.id]))])
Rejected(Counts(_)) ==
  SumFunction([a \in Evaluated |->
                 Cardinality({u \in a.units : u.flows \cap Uids(Accepted(a)) = {} /\ Counts(u)})])
(* Where an artifact's units are the ones its records' labels form, both   *)
(* scorers tell one story: each class they share has the same detected     *)
(* units, and missed ones but for the units nothing of which was accepted, *)
(* missed in the benchmark and absent live; the binary table is the live   *)
(* one with mistaken classes counted as alarms and alerts on nobody's unit *)
(* left out.                                                               *)
ScorersAgree ==
  (\A a \in Evaluated : a.units = ScenarioUnits(a.records)) =>
    /\ \A c \in DOMAIN ExpectedSubtypes :
         /\ published.class[c].tp = Truth(LAMBDA g : g.class[c].tp)
         /\ published.class[c].fn = Truth(LAMBDA g : g.class[c].fn) + Rejected(LAMBDA u : c \in u.expected)
    /\ published.binary.tp = Truth(LAMBDA g : g.tp + g.mismatches)
    /\ published.binary.fn = Truth(LAMBDA g : g.fn - g.mismatches) + Rejected(LAMBDA u : u.label = "attack")
    /\ published.binary.fp = Truth(LAMBDA g : g.fp - g.unmatched)
    /\ published.binary.tn = Truth(LAMBDA g : g.tn) + Rejected(LAMBDA u : u.label = "benign")
    /\ published.class["any_attack"] = published.binary
(* What a held-out split measures was seen by nothing that learned: it     *)
(* shares no group and no event with another split or the model's lineage. *)
EvaluationIsolated ==
  \A a \in Evaluated :
    /\ \A b \in corpus.artifacts :
         b.split # a.split => GroupIds(a) \cap GroupIds(b) = {} /\ Telemetry(a) \cap Telemetry(b) = {}
    /\ a.split # "train" /\ corpus.modelled => GroupIds(a) \cap corpus.lineage = {}
(* A published score can be believed: nothing leaked into what it measured *)
(* and the two independent scorers agree on it (benchmark.load_corpus,     *)
(* benchmark_metrics.score_units, evaluation_scoring.score_ground_truth).  *)
EvaluationStands == published.split # "none" => ScorersAgree /\ EvaluationIsolated
=============================================================================
