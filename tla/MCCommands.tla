----------------------------- MODULE MCCommands -----------------------------
(* The operator's commands, one of them at a time: a replay prepared, a     *)
(* model on its way to a session, a session started, the store backed up    *)
(* and restored.  They share no state; each behaviour runs one.             *)
EXTENDS Intake, Deployment, AnalystRecovery, Benchmark, PublicSuffix, TLC

CONSTANTS a, b   (* two endpoints *)

(* Every short sequence of the records that the accounting tells apart, and *)
(* a few logs with the captures they came from.                             *)

Base == [form |-> "object", query |-> FALSE, transport |-> "", print |-> "", export |-> "", ts |-> 1,
         duration |-> 2, uid |-> "u", trans |-> 1, src |-> a, dst |-> b, faults |-> {}]
Row(uid, ts) == [Base EXCEPT !.uid = uid, !.ts = ts]
Bad(fault)   == [Base EXCEPT !.faults = {fault}]
Query(trans, ts) == [Base EXCEPT !.query = TRUE, !.trans = trans, !.ts = ts]
Hello(ts, print) == [Base EXCEPT !.transport = "tls", !.print = print, !.ts = ts, !.faults = {"no_proto"}]
Export(kind) == [Base EXCEPT !.export = kind, !.uid = "", !.faults = {"no_uid"}]
Text(form) == [Base EXCEPT !.form = form]

(* Short replays over records of every sort. *)
Plain == {Row("u", 0), Row("u", 2), Row("v", 1), Query(1, 1), Query(2, 3), [Hello(2, "j") EXCEPT !.faults = {}],
          Hello(1, "j"), Export("ipfix")}
Faulty == {Text("malformed"), Text("value"), Text("comment"), Bad("alias"), Bad("bad_ts"), Bad("bad_port"),
           Bad("overflow"), [Export("netflow") EXCEPT !.faults = {"no_uid", "bad_uptime"}],
           [Export("sflow") EXCEPT !.faults = {"no_uid", "bad_proto"}],
           [Query(1, 1) EXCEPT !.faults = {"bad_answers"}]}
Sequences(rows, n) == UNION {[1..k -> rows] : k \in 0..n}
File1(kind, container, lines) == [kind |-> kind, container |-> container, lines |-> lines]
Source(how, files, packets) == [how |-> how, files |-> files, packets |-> packets]
Uploads == {Source("upload", <<File1(None, "jsonl", s)>>, None) :
              s \in Sequences(Plain, 3) \cup {t \o <<f>> \o u : t \in Sequences(Plain, 1), f \in Faulty, u \in Sequences(Plain, 2)}}
Odd == {Source("upload", <<File1(None, c, s)>>, None) :
          c \in {"manifest", "scalar", "broken", "object"}, s \in {<<Row("u", 0)>>}}
       \cup {Source(how, <<File1(None, "array", [k \in 1..5 |-> Row("u", k)])>>, None) : how \in {"upload", "file"}}
Logs == {Source("log", <<File1("dns", "jsonl", s)>>, None) :
           s \in Sequences({Query(1, 1), Query(2, 2), Text("value"), Bad("no_query")}, 3)}
        \cup {Source("log", <<>>, None), Source("directory", <<>>, None)}

(* Logs of a directory, in any order, with the packets of their capture. *)
Pkt(ts, src, dst, form, hello) == [ts |-> ts, src |-> src, dst |-> dst, form |-> form, hello |-> hello]
ConnLogs == {<<Row("u", 1)>>, <<Row("v", 3), Row("u", 0)>>, <<Row("u", 1), [Row("v", 2) EXCEPT !.src = b, !.dst = a]>>,
             <<Row("u", 0), Row("w", 1), Row("x", 4), Bad("bad_ip")>>,
             <<Text("malformed"), Row("u", 0), Row("w", 1), Row("x", 4)>>}
TlsLogs == {<<>>, <<Hello(1, "")>>, <<Hello(4, "j"), Hello(1, "j")>>}
Packets == {Pkt(1, a, b, "whole", "j"), Pkt(2, b, a, "whole", ""), Pkt(3, a, b, "cut", "k"), Pkt(5, a, b, "whole", "")}
Captures == Sequences(Packets, 3)
            \cup {<<Pkt(1, a, b, "whole", ""), Pkt(2, a, b, f, "")>> : f \in {"foreign", "broken"}}
Directories ==
  {Source(how, <<File1("connection", "jsonl", c)>> \o (IF t = <<>> THEN <<>> ELSE <<File1("tls", "jsonl", t)>>), p) :
     how \in {"directory", "capture"}, c \in ConnLogs, t \in TlsLogs, p \in Captures}
  \cup {Source("file", <<File1(None, "jsonl", c \o t)>>, p) : c \in ConnLogs, t \in TlsLogs, p \in Captures}
  \cup {Source("directory", <<File1("connection", "jsonl", c), File1("tls", "jsonl", t)>>, None) : c \in ConnLogs, t \in TlsLogs \ {<<>>}}
MCSources == Uploads \cup Odd \cup Logs \cup Directories

(* A corpus of one benign source, spread by registrable domain, and a       *)
(* malicious family for each part; one version declares a single variant    *)
(* that fails on the reserved part, one brings a tenant of a training       *)
(* domain into it.                                                          *)
FromFile(content, label, family, split) ==
  [content |-> content, label |-> label, family |-> family, split |-> split, records |-> Len(content)]
Rule(mark, labels) == [mark |-> mark, labels |-> labels]
Snapshot == {Rule("", <<"com">>), Rule("", <<"host", "com">>), Rule("*", <<"ck">>), Rule("!", <<"www", "ck">>)}
Domains == [a1 |-> <<"one", "a", "com">>, a2 |-> <<"two", "a", "com">>, b1 |-> <<"b", "host", "com">>,
            c1 |-> <<"c", "co", "ck">>, d1 |-> <<"d", "www", "ck">>, e1 |-> <<"host", "com">>,
            w1 |-> <<"w", "com">>, x1 |-> <<"x", "com">>, y1 |-> <<"y", "com">>, z1 |-> <<"z", "unlisted">>]
Zone == [d \in DOMAIN Domains |-> RegistrablePart(Snapshot, Domains[d])]
ASSUME ZonesAssumption ==
  SnapshotReads(Snapshot) /\ Zone.a1 = Zone.a2 /\ Cardinality({Zone[d] : d \in DOMAIN Zone}) = 9
MCRegistrable(d) == Zone[d]
Hashes == [a1 |-> 10, a2 |-> 10, b1 |-> 65, c1 |-> 79, d1 |-> 80, e1 |-> 95]
MCBucket(g) == Hashes[CHOOSE d \in DOMAIN Hashes : Zone[d] = g]
Scores == << [b1 |-> 10, c1 |-> 40, d1 |-> 10, e1 |-> 20, a2 |-> 5, x1 |-> 60, y1 |-> 90, z1 |-> 60],
             [b1 |-> 10, c1 |-> 20, d1 |-> 70, e1 |-> 20, a2 |-> 5, x1 |-> 60, y1 |-> 90, z1 |-> 60] >>
MCScore(variant, d) == Scores[variant][d]
Reserved(tests) ==
  [sources |-> <<FromFile(<<"a1", "b1", "c1", "d1", "e1">>, 0, "benign", "hashed"),
                 FromFile(<<"w1">>, 1, "u", "train"), FromFile(<<"x1", "y1">>, 1, "v", "validation")>> \o tests,
   grid |-> {30, 50}, variants |-> {1, 2},
   gates |-> [positives |-> 1, negatives |-> 2, fpr |-> 70, recall |-> 50, family |-> 50]]
Sound1 == Reserved(<<FromFile(<<"z1">>, 1, "w", "test")>>)
Failing == [Sound1 EXCEPT !.variants = {2}]
Leaking == Reserved(<<FromFile(<<"z1">>, 1, "w", "test"), FromFile(<<"a2">>, 0, "hosted", "test")>>)
MCManifests == {Sound1, Failing, Leaking}

Allowing(rules) == [trusted |-> rules, bulk |-> {}, scanners |-> {}]
Reviewed == Allowing({"backup"})
MCPolicies == {Reviewed, Allowing({}), Allowing({"backup", "mistyped"})}
MCUnreadable(rule) == rule = "mistyped"
TrainRow(domain, label, family, split) == [domain |-> domain, label |-> label, family |-> family, split |-> split]
Rows == <<TrainRow("a1", 0, "benign", "train"), TrainRow("w1", 1, "u", "train"), TrainRow("z1", 1, "w", "test")>>
MCDatasets == {Rows, [Rows EXCEPT ![3].family = "u"], [Rows EXCEPT ![3].domain = "w1"], SubSeq(Rows, 1, 2)}
Contract(networks, pins) ==
  [wellformed |-> TRUE, networks |-> networks, calibrated |-> FALSE, passive |-> TRUE, model |-> NoModel, pins |-> pins]
Approved == Contract(<<{1}, {2}>>, Reviewed)
MCContracts == {Approved, Contract(<<{1}, {1, 2}>>, Reviewed)}
Symmetry == Permutations(Workers) \cup Permutations(Research)

(* Three captures, labelled as floods of one target, a scan and benign      *)
(* traffic, one record refused; and manifests that leak or declare units    *)
(* of their own.                                                            *)
Labelled1(uid, label, class, src) ==
  [uid |-> uid, label |-> label, class |-> class, src |-> src, dst |-> "t", port |-> 80, service |-> "",
   accepted |-> TRUE, telemetry |-> <<uid, src>>]
Held == {Labelled1("f1", "attack", "volumetric_ddos_syn_flood", "s1"),
         Labelled1("f2", "attack", "volumetric_ddos_syn_flood", "s2"),
         Labelled1("f3", "benign", "none", "s1"), Labelled1("f4", "", "", "s3"),
         [Labelled1("f5", "attack", "reconnaissance_port_scan", "s4") EXCEPT !.accepted = FALSE],
         Labelled1("f6", "attack", "volumetric_ddos_udp_flood", "s5")}
Artifact(id, split, groups, records, units) ==
  [id |-> id, capture |-> "capture:" \o id, content |-> id, split |-> split, groups |-> groups, records |-> records,
   units |-> units, pinned |-> TRUE, count |-> Cardinality(records)]
Learned == {Labelled1("f1", "attack", "dga_domain", "s6"), Labelled1("f2", "benign", "none", "s7")}
TrainOn(groups) == Artifact("a1", "train", groups, Learned, ScenarioUnits(Learned))
Corpus1(train, test) == [artifacts |-> {train, test}, modelled |-> TRUE, lineage |-> {"g1"}]
HeldOut == Artifact("a2", "test", {"g2"}, Held, ScenarioUnits(Held))
MCCorpora ==
  {Corpus1(TrainOn({"g1"}), HeldOut), Corpus1(TrainOn({"g1", "g2"}), HeldOut),
   [Corpus1(TrainOn({"g1"}), HeldOut) EXCEPT !.lineage = {"g2"}],
   [Corpus1(TrainOn({"g1"}), HeldOut) EXCEPT !.modelled = FALSE],
   Corpus1(TrainOn({"g1"}), [HeldOut EXCEPT !.split = "validation", !.capture = "capture:a1"]),
   Corpus1(TrainOn({"g1"}), [HeldOut EXCEPT !.split = "train"]),
   Corpus1([TrainOn({"g1"}) EXCEPT !.records = Held, !.units = ScenarioUnits(Held), !.count = 6], HeldOut),
   Corpus1(TrainOn({"g1"}), [HeldOut EXCEPT !.units = {Unit({"f1", "f6"}, "attack", {"any_attack"}), Unit({"f3"}, "benign", {})}]),
   Corpus1(TrainOn({"g1"}), [HeldOut EXCEPT !.units = {Unit({"f1"}, "attack", {"any_attack", "dga_domain"})}])}
Few(x) ==
  LET uids == Uids(Accepted(x))
      pool == [subtype : {"syn_flood", "distributed_source_syn_flood", "udp_flood"}, flows : kSubset(1, uids) \cup kSubset(2, uids)]
  IN  {{}} \cup {{p, q} : p \in pool, q \in pool}
Alone(x) == {{}} \cup {{[subtype |-> "dga_like_domain", flows |-> {u}]} : u \in Uids(Accepted(x))}
MCRaisable(chosen) ==
  LET ids == {x.id : x \in chosen}
      only == CHOOSE x \in chosen : TRUE
  IN  IF chosen = {only} THEN {[i \in ids |-> raised] : raised \in Few(only)}
      ELSE {raised \in [ids -> UNION {Alone(x) : x \in chosen}] : \A x \in chosen : raised[x.id] \in Alone(x)}

VARIABLE command
Quiet == Source("directory", <<>>, None)
CommandInit ==
  /\ command \in {"replay", "promotion", "session", "recovery", "benchmark"}
  /\ Init /\ (command # "replay" => source = Quiet)
  /\ PromotionInit /\ (command # "promotion" => manifest = Sound1)
  /\ DeploymentInit
  /\ command # "session" => disk[Demo] = Bundled /\ contract = Approved /\ policy = Reviewed
  /\ RecoveryInit
  /\ BenchmarkInit /\ (command # "benchmark" => corpus.lineage = {"g2"})
CommandNext ==
  /\ UNCHANGED command
  /\ CASE command = "replay" -> Next /\ UNCHANGED <<research, service, recovery, evaluation>>
       [] command = "promotion" -> PromotionNext /\ UNCHANGED <<vars, service, recovery, evaluation>>
       (* nobody is killed, one change, the sound corpus *)
       [] command = "session" -> /\ DeploymentNext /\ UNCHANGED <<vars, recovery, evaluation>>
                                 /\ UNCHANGED <<kills, manifest>> /\ changes' <= 1
       [] command = "recovery" -> RecoveryNext /\ UNCHANGED <<vars, research, service, evaluation>>
       [] command = "benchmark" -> BenchmarkNext /\ UNCHANGED <<vars, research, service, recovery>>
Commands == CommandInit /\ [][CommandNext]_<<vars, research, service, recovery, evaluation, command>>
=============================================================================
