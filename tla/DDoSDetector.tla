---------------------------- MODULE DDoSDetector ----------------------------
(***************************************************************************)
(* Four floods against one target.  TCP and UDP share the target's window; *)
(* slow HTTP has its own, and so has reflection when the profile is strict,*)
(* that is, asks for service context: responses then return to the source. *)
(***************************************************************************)
EXTENDS SlidingWindow

CONSTANTS
  DDoSConfig,           (* the fields of DDoSConfig, ratios in percent     *)
  ReflectionServices,   (* ports of services known to reflect              *)
  Diverse(_)            (* source_entropy >= its threshold                 *)

DDoSConfigValid ==
  /\ DDoSConfig.window \in Nat \ {0} /\ DDoSConfig.slowWindow \in Nat \ {0} /\ DDoSConfig.cooldown >= 0
  /\ \A threshold \in {"synAttempts", "udpPackets", "reflectionFlows", "slowConnections"} :
       DDoSConfig[threshold] \in Nat \ {0, 1}
  /\ DDoSConfig.incompletePct \in 0..100 /\ DDoSConfig.concentrationPct \in 1..100
  /\ \A limit \in {"slowDuration", "slowBytes", "slowPackets"} : DDoSConfig[limit] > 0
ASSUME DDoSConfigAssumption == DDoSConfigValid

DDoSFresh == [events |-> <<>>, reflection |-> <<>>, slow |-> <<>>, last |-> <<>>]

Sources(w) == {w[i].src : i \in DOMAIN w}
Shaped(w, protocol) == Picked(w, LAMBDA e : e.protocol = protocol)
MostOnOnePort(w) ==
  Max({Count(w, LAMBDA e : e.dport = p) : p \in {w[i].dport : i \in DOMAIN w}})

(* What a rule finds: the subtype, the target, the relevant events and the *)
(* confidence, as far as counts of events make it; no hit is empty.        *)
Hit(subtype, target, relevant, confidence) ==
  <<[subtype |-> subtype, target |-> target, relevant |-> relevant, confidence |-> confidence]>>

SynFlood(window, e) ==
  LET tcp == Shaped(window, "tcp")
      n == Len(tcp)
      incomplete == Count(tcp, LAMBDA x : x.state \in {"S0", "REJ"})
      distributed == Cardinality(Sources(tcp)) >= DDoSConfig.minSources /\ Diverse(tcp)
  IN  IF /\ n >= DDoSConfig.synAttempts
         /\ 100 * incomplete >= DDoSConfig.incompletePct * n
         /\ 100 * MostOnOnePort(tcp) >= DDoSConfig.concentrationPct * n
      THEN Hit(IF distributed THEN "distributed_source_syn_flood" ELSE "syn_flood", e.dst, tcp,
               65 + (20 * incomplete) \div n + (14 * Excess(n, DDoSConfig.synAttempts)) \div 100)
      ELSE <<>>

(* A request held open: partial, or closed without an answer; long, small. *)
HeldOpen(x) ==
  /\ x.protocol = "tcp"
  /\ x.state \in {"S1", "OTH"} \/ (x.state = "SF" /\ x.inbound = 0)
  /\ x.duration >= DDoSConfig.slowDuration
  /\ x.outbound + x.inbound <= DDoSConfig.slowBytes
  /\ x.packets <= DDoSConfig.slowPackets
SlowHttp(window, e) ==
  LET held == Picked(window, HeldOpen)
  IN  IF Len(held) >= DDoSConfig.slowConnections
      THEN Hit("slow_http_connection_exhaustion", e.dst, held,
               70 + (14 * Excess(Len(held), DDoSConfig.slowConnections)) \div 100)
      ELSE <<>>

UdpFlood(window, e) ==
  LET udp == Shaped(window, "udp")
      packets == Total(udp, LAMBDA x : Max({x.packets, 1}))
  IN  IF packets >= DDoSConfig.udpPackets
      THEN Hit("udp_flood", e.dst, udp, 70 + Excess(packets, DDoSConfig.udpPackets) \div 5)
      ELSE <<>>

Reflection(window, e, strict) ==
  LET udp == Picked(Shaped(window, "udp"), LAMBDA x :
               strict => x.dport \in ReflectionServices /\ x.outbound > 0)
      request == Total(udp, LAMBDA x : x.outbound)
      response == Total(udp, LAMBDA x : x.inbound)
  IN  IF /\ Len(udp) >= DDoSConfig.reflectionFlows
         /\ response >= DDoSConfig.amplification * Max({request, 1})
         /\ response >= DDoSConfig.reflectionBytes
      THEN Hit("udp_reflection_amplification", IF strict THEN e.src ELSE e.dst, udp,
               68 + (8 * Excess(Len(udp), DDoSConfig.reflectionFlows)) \div 100)
      ELSE <<>>

DDoSAlert(hit, e) ==
  LET start == Min({hit.relevant[i].ts : i \in DOMAIN hit.relevant})
  IN  Alert("denial_of_service", hit.subtype, <<"ddos", hit.subtype, hit.target, start, e.ts>>,
            <<"ddos", hit.target, hit.subtype>>, e, hit.target, start, Flows(hit.relevant),
            hit.confidence)

DDoSProcess(state, e, strict) ==
  LET events == Added(state.events, e.dst, e, DDoSConfig.window)
      web == e.protocol = "tcp" /\ e.service = "http"
      slow == IF web THEN Added(state.slow, e.dst, e, DDoSConfig.slowWindow) ELSE state.slow
      reflecting == e.protocol = "udp" /\ strict
      reflection == IF reflecting THEN Added(state.reflection, e.src, e, DDoSConfig.window)
                    ELSE state.reflection
      hits == IF e.protocol = "tcp"
              THEN SynFlood(events[e.dst], e) \o (IF web THEN SlowHttp(slow[e.dst], e) ELSE <<>>)
              ELSE UdpFlood(events[e.dst], e) \o
                   Reflection(IF strict THEN reflection[e.src] ELSE events[e.dst], e, strict)
      said == Spaced(state.last, [i \in DOMAIN hits |-> DDoSAlert(hits[i], e)], DDoSConfig.cooldown)
  IN  IF e.protocol \notin {"tcp", "udp"} THEN Answer(state, <<>>)
      ELSE Answer([events |-> events, reflection |-> reflection, slow |-> slow,
                   last |-> said.last], said.alerts)
=============================================================================
