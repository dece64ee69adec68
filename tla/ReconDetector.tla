--------------------------- MODULE ReconDetector ---------------------------
(***************************************************************************)
(* Port and host scans: the contacts of one source within the last seconds *)
(* are judged at each event, and once more when the replay ends.           *)
(***************************************************************************)
EXTENDS SlidingWindow

CONSTANTS ReconConfig,       (* [window, ports, hosts, cooldown]           *)
          AuthorizedSources  (* scanners the operator has approved         *)

ReconConfigValid ==
  /\ ReconConfig.window \in Nat \ {0} /\ ReconConfig.cooldown >= 0
  /\ {ReconConfig.ports, ReconConfig.hosts} \subseteq Nat \ {0, 1}
ASSUME ReconConfigAssumption == ReconConfigValid

ReconFresh == [contacts |-> <<>>, last |-> <<>>]

PortsOf(c) == {c[i].dport : i \in DOMAIN c}
HostsOf(c) == {c[i].dst : i \in DOMAIN c}
PortsOn(c, host) == {c[i].dport : i \in {j \in DOMAIN c : c[j].dst = host}}
HostsAt(c, port) == {c[i].dst : i \in {j \in DOMAIN c : c[j].dport = port}}

(* max() keeps the first of equals, in the order of first contact.         *)
BusiestHost(c) == c[Min({i \in DOMAIN c : \A j \in DOMAIN c :
  Cardinality(PortsOn(c, c[j].dst)) <= Cardinality(PortsOn(c, c[i].dst))})].dst
MostHosts(c) == Max({Cardinality(HostsAt(c, p)) : p \in PortsOf(c)})

(* The candidate scans among contacts c, in the order they are reported.   *)
Scans(c) ==
  LET fan == Cardinality(PortsOn(c, BusiestHost(c)))
      ports == Cardinality(PortsOf(c))
      Scan(subtype, observed, threshold, dst) ==
        [subtype |-> subtype, observed |-> observed, threshold |-> threshold, dst |-> dst]
  IN  Rule(fan >= ReconConfig.ports,
           Scan("vertical_port_scan", fan, ReconConfig.ports, BusiestHost(c)))
      \o Rule(MostHosts(c) >= ReconConfig.hosts,
              Scan("horizontal_host_scan", MostHosts(c), ReconConfig.hosts, None))
      \o Rule(ports >= ReconConfig.ports /\ Cardinality(HostsOf(c)) >= 2 /\ fan < ReconConfig.ports,
              Scan("multi_host_port_scan", ports, ReconConfig.ports, None))

(* The identity leaves the target host out.                                *)
ReconAlert(c, scan, e) ==
  Alert("reconnaissance", scan.subtype, <<"recon", scan.subtype, e.src, c[1].ts, e.ts>>,
        <<"recon", e.src, scan.subtype>>, e, scan.dst, c[1].ts, Flows(c),
        70 + Excess(scan.observed, scan.threshold) \div 4)

ScanAlerts(c, e) == LET scans == Scans(c) IN [i \in DOMAIN scans |-> ReconAlert(c, scans[i], e)]

ReconProcess(state, e) ==
  LET c == Evicted(Append(At(state.contacts, e.src, <<>>), e), e.ts - ReconConfig.window)
      said == Spaced(state.last, ScanAlerts(c, e), ReconConfig.cooldown)
  IN  IF e.src \in AuthorizedSources THEN Answer(state, <<>>)
      ELSE Answer([contacts |-> Put(state.contacts, e.src, c), last |-> said.last], said.alerts)

(* The snapshot at the end of a replay: every source's window as it stands,*)
(* whatever was raised before.                                             *)
FinalAlerts(state) ==
  LET Snapshot(src) == LET c == state.contacts[src] IN ScanAlerts(c, Last(c))
  IN  Folded(LAMBDA found, src : found \o Snapshot(src), <<>>, SetToSeq(DOMAIN state.contacts))
=============================================================================
