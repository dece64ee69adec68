------------------------- MODULE MCAnalysisSession -------------------------
(* Small sessions, one profile per family of detectors, with thresholds at *)
(* their lowest and a few shapes of traffic that reach every rule.         *)
EXTENDS AnalysisSession

CONSTANTS a, b, h, g   (* two sources, two destinations *)

Conn(src, dst, dport, protocol, state, sent, received) ==
  [kind |-> "connection", src |-> src, dst |-> dst, sport |-> 9, dport |-> dport, protocol |-> protocol,
   service |-> None, state |-> state, outbound |-> sent, inbound |-> received, packets |-> 1,
   duration |-> 0]
Probe(src, dst, dport) == Conn(src, dst, dport, "tcp", "S0", 0, 0)
Web(src, state, received) ==
  [Conn(src, h, 80, "tcp", state, 1, received) EXCEPT !.service = "http", !.duration = 9]
Query(root, label, response, txt) ==
  [kind |-> "dns", src |-> a, dst |-> g, root |-> root, label |-> label, input |-> root,
   response |-> response, txt |-> txt, answers |-> {h}]
Session(fp, vector, supplied, packets) ==
  [kind |-> "encrypted", src |-> a, dst |-> h, fp |-> fp, cohort |-> IF fp = "new" THEN 1 ELSE 2,
   vector |-> vector, supplied |-> supplied, packets |-> packets, named |-> FALSE,
   modern |-> TRUE, established |-> TRUE]
Scores == [prevalence |-> 5, size |-> 90, timing |-> 90]

Profile(enabled, shapes, gaps, events) ==
  [enabled |-> enabled, derived |-> FALSE, strict |-> FALSE, internal |-> {}, shapes |-> shapes, gaps |-> gaps,
   reuse |-> FALSE, events |-> events]

Scanning == Profile({"recon", "ddos"}, {Probe(a, h, 1), Probe(a, h, 2), Probe(a, g, 1)}, {0, 2}, 5)
Crowding == Profile({"ddos"}, {Probe(a, h, 1), Probe(b, h, 1), Conn(a, h, 1, "icmp", None, 0, 0)}, {0, 2}, 4)
Flooding == Profile({"ddos"},
  {Conn(a, h, 123, "udp", None, 1, 9), Conn(b, h, 9, "udp", None, 1, 0), Probe(a, h, 1)}, {0, 2}, 4)
Reflecting == [Flooding EXCEPT !.strict = TRUE]
Holding == Profile({"ddos"}, {Web(a, "S1", 1), Web(b, "SF", 0), Web(b, "SF", 1)}, {0, 2}, 4)
Beaconing == Profile({"c2"},
  {Conn(a, h, 443, "tcp", "SF", 5, 5), Conn(a, h, 443, "tcp", "SF", 5, 9), Session("old", None, None, FALSE)}, {2, 3}, 5)
Resolving == Profile({"dns"},
  {Query("dga1", "x", "NXDOMAIN", FALSE), Query("dga2", "x", "NOERROR", FALSE), Query("dga1", "x", "UNKNOWN", FALSE),
   Query("odd1", "y", "NXDOMAIN", FALSE), Query("odd2", "long", "NOERROR", TRUE), Query("fine", "long", "NOERROR", TRUE)},
  {0, 2}, 4)
Encrypting == [Profile({"encrypted"},
  {Session("old", "usual", None, TRUE), Session("old", "strange", None, TRUE)}, {1, 2}, 5) EXCEPT !.reuse = TRUE]
Rotating == Profile({"encrypted"},
  {Session("old", "usual", None, TRUE), Session("new", "usual", None, TRUE), Session("new", None, Scores, FALSE)}, {0, 2}, 4)
Sending == Profile({"exfiltration"},
  {Conn(a, h, 443, "tcp", "SF", 9, 1), Conn(a, h, 443, "tcp", "SF", 4, 1), Conn(a, g, 443, "tcp", "SF", 1, 1)}, {0, 2}, 4)
Boundary == [Profile({"exfiltration"},
  {Conn(a, h, 443, "tcp", "SF", 9, 1), Conn(h, a, 443, "tcp", "SF", 1, 9), Conn(a, b, 443, "tcp", "SF", 9, 1)}, {0, 2}, 4)
  EXCEPT !.derived = TRUE, !.internal = {a, b}]
Mixed == Profile({"recon", "exfiltration", "dns", "c2", "ddos", "encrypted"},
  {Query("dga1", "x", "UNKNOWN", FALSE), Conn(a, h, 443, "tcp", "SF", 5, 5), Conn(a, g, 443, "tcp", "SF", 9, 1)}, {0, 3}, 5)
MCSettings == [scanning |-> Scanning, crowding |-> Crowding, flooding |-> Flooding, reflecting |-> Reflecting, holding |-> Holding,
               beaconing |-> Beaconing, resolving |-> Resolving, encrypting |-> Encrypting, rotating |-> Rotating,
               sending |-> Sending, boundary |-> Boundary, mixed |-> Mixed]
MCProfiles == DOMAIN MCSettings

MCRecon == [window |-> 2, ports |-> 2, hosts |-> 2, cooldown |-> 3]
MCDDoS == [window |-> 2, synAttempts |-> 2, incompletePct |-> 80, concentrationPct |-> 80, minSources |-> 2,
           udpPackets |-> 2, reflectionFlows |-> 2, amplification |-> 3, reflectionBytes |-> 9,
           slowWindow |-> 4, slowConnections |-> 2, slowDuration |-> 9, slowBytes |-> 2, slowPackets |-> 2, cooldown |-> 3]
MCDiverse(w) == \A s \in Sources(w) : 100 * Count(w, LAMBDA e : e.src = s) >= 28 * Len(w)
MCC2 == [window |-> 9, minConnections |-> 3, minInterval |-> 2, maxInterval |-> 3, intervalPct |-> 15, sizePct |-> 20,
         minSpan |-> 4, maxMeanBytes |-> 10, completedPct |-> 80, cooldown |-> 4]
MCTrusted == {[src |-> a, dst |-> g, dport |-> 443, protocol |-> None, service |-> None]}
MCDNS == [window |-> 2, threshold |-> 50, failedRoots |-> 2, resolvedRoots |-> 2, lexicalRoots |-> 2, campaignQueries |-> 2,
          campaignRoots |-> 2, failurePct |-> 80, tunnelQueries |-> 2, tunnelLabels |-> 2, labelLength |-> 18, entropy |-> 35,
          txtQueries |-> 2, txtLabelLength |-> 24, cooldown |-> 3]
MCScore(e) == IF e.root \in {"dga1", "dga2"} THEN 90 ELSE 10
MCLabelLength(label) == IF label = "long" THEN 30 ELSE 5
MCLabelEntropy(label) == IF label = "x" THEN 20 ELSE 40
MCExfil == [window |-> 2, minFlows |-> 2, minBytes |-> 4, minRatio |-> 2, multiplier |-> 2, history |-> 3, singleBytes |-> 9,
            singleRatio |-> 5, freeBytes |-> 12, freeRatio |-> 4, cooldown |-> 3]
MCFeatures == [maxCohorts |-> 1, history |-> 6, minPrevalence |-> 2, minBaseline |-> 2, ceiling |-> 50, maxHistory |-> 3]
MCEncrypted == [window |-> 4, minSessions |-> 2, maxPrevalence |-> 100, minSize |-> 50, minTiming |-> 50, cooldown |-> 3]
MCVectorScore(vector, prior) == IF \E i \in DOMAIN prior : prior[i] = vector THEN 10 ELSE 90
=============================================================================
