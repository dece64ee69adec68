-------------------------- MODULE AnalysisSession --------------------------
(***************************************************************************)
(* One analysis session: events arrive in order of time, each goes to the  *)
(* enabled detectors of its kind, and the alerts raised so far can be      *)
(* resolved into findings at any time.  Completing the session adds the    *)
(* scans still open and closes it.  The command line runs one session      *)
(* after another over the exfiltration detector's kept state.              *)
(***************************************************************************)
EXTENDS ReconDetector, DDoSDetector, C2Detector, DNSDetector, ExfiltrationDetector,
        EncryptedDetector, Findings

CONSTANTS
  Profiles,     (* names of profiles                                       *)
  Settings,     (* of each: enabled, derived, strict, internal; traffic    *)
  DNSContextLimit, DNSContextWindow,   (* PassiveDNSContext's bounds       *)
  MaxSessions   (* bound: sessions over one kept state                     *)

VARIABLES
  profile,    (* the profile the sessions run under                        *)
  latest,     (* _latest_timestamp                                         *)
  finished,   (* _finished                                                 *)
  alerts,     (* _alerts                                                   *)
  metadata,   (* _metadata: recent encrypted sessions                      *)
  context,    (* dns_context.history                                       *)
  recon, ddos, c2, dns, exfil, features, encrypted,
  report,     (* findings, incidents and risk once the session is complete *)
  session,    (* how many sessions have started                            *)
  history,    (* history: every event the detectors were given             *)
  raised,     (* history: every alert raised, with those of past sessions  *)
  matches     (* history: what would be raised if nothing ever cooled down *)

detectors == <<recon, ddos, c2, dns, exfil, features, encrypted>>
vars == <<profile, latest, finished, alerts, metadata, context, detectors, report, session,
          history, raised, matches>>

Setup == Settings[profile]
On(detector) == detector \in Setup.enabled

(* AnalysisProfile: what a profile may ask for.                            *)
Families == {"recon", "ddos", "c2", "dns", "encrypted", "exfiltration"}
ProfileValid(s) == s.enabled # {} /\ s.enabled \subseteq Families /\ {s.derived, s.strict} \subseteq BOOLEAN
ASSUME ProfilesAssumption == \A p \in Profiles : ProfileValid(Settings[p])
(* Times are numbers, every event is of a kind, and what is measured of it *)
(* is a number.                                                            *)
Numeric(r, fields) == fields \subseteq DOMAIN r /\ \A field \in fields : r[field] \in Int
Measured(e) ==
  /\ e.kind = "connection" => Numeric(e, {"outbound", "inbound", "packets"})
  /\ e.kind = "encrypted" => /\ "supplied" \in DOMAIN e
                             /\ \/ e.supplied = None
                                \/ Numeric(e.supplied, {"prevalence", "size", "timing"})
TrafficValid(s) ==
  s.gaps \subseteq Int /\ \A shape \in s.shapes : "kind" \in DOMAIN shape /\ Measured(shape)
ASSUME TrafficAssumption == None \notin Int /\ \A p \in Profiles : TrafficValid(Settings[p])
(* Cooldowns are lengths of time.                                         *)
ASSUME CooldownsAssumption ==
  {ReconConfig.cooldown, DDoSConfig.cooldown, C2Config.cooldown, DNSConfig.cooldown,
   ExfilConfig.cooldown, EncryptedConfig.cooldown} \subseteq Int

(* NetworkScope: whose bytes count as sent.  Without boundaries a session  *)
(* in compatibility mode looks at the originator.                          *)
Direction(scope, e) ==
  CASE scope.internal = {} -> "unknown"
    [] e.src \in scope.internal /\ e.dst \in scope.internal -> "internal"
    [] e.src \in scope.internal -> "outbound"
    [] e.dst \in scope.internal -> "inbound"
    [] OTHER -> "external"
Swapped(e) ==
  [e EXCEPT !.src = e.dst, !.dst = e.src, !.dport = e.sport,
            !.outbound = e.inbound, !.inbound = e.outbound]
View(scope, e) ==
  IF scope.internal = {} /\ ~scope.derived THEN e
  ELSE CASE Direction(scope, e) = "outbound" -> e
         [] Direction(scope, e) = "inbound" -> Swapped(e)
         [] OTHER -> None

(* Names recently resolved by the source that point at the destination:    *)
(* evidence for an alert, never a reason for one.                          *)
Observed(e) ==
  LET all == Append(context, e)
  IN  SubSeq(all, Max({1, Len(all) - DNSContextLimit + 1}), Len(all))
Named(e) ==
  {context[i].flow : i \in {j \in DOMAIN context :
     /\ context[j].ts >= e.ts - DNSContextWindow
     /\ context[j].src = e.src
     /\ e.dst \in context[j].answers \/ (context[j].flow = e.flow /\ context[j].dst = e.dst)}}
WithNames(found, e) == [i \in DOMAIN found |-> [found[i] EXCEPT !.names = Named(e)]]

(* Every connection detector that is on, from states s, for event e.       *)
Connection(s, e, sessions) ==
  LET off(state) == Answer(state, <<>>)
  IN  [recon |-> IF On("recon") THEN ReconProcess(s.recon, e) ELSE off(s.recon),
       ddos |-> IF On("ddos") THEN DDoSProcess(s.ddos, e, Setup.strict) ELSE off(s.ddos),
       c2 |-> IF On("c2") THEN C2Process(s.c2, e, sessions) ELSE off(s.c2),
       exfil |-> IF On("exfiltration") /\ View(Setup, e) # None THEN ExfilProcess(s.exfil, View(Setup, e))
                 ELSE off(s.exfil)]
Raised(c) == c.recon.alerts \o c.ddos.alerts \o c.c2.alerts \o c.exfil.alerts

Uncooled(state) == [state EXCEPT !.last = <<>>]
Between(e) == {s \in metadata : s.src = e.src /\ s.dst = e.dst}

(* What a session adds to its alerts, and to the histories.                *)
Records(e, found, uncooled) ==
  /\ latest' = e.ts
  /\ alerts' = alerts \o found
  /\ raised' = raised \o found
  /\ matches' = matches \cup {[cool |-> a.cool, ts |-> a.end] : a \in Range(uncooled)}
  /\ history' = Append(history, e)
  /\ UNCHANGED <<profile, finished, report, session>>
FreshMetadata(e) == {s \in metadata : s.ts >= e.ts - C2Config.window}

(* process() refuses a completed session and an event older than the last, *)
(* without changing anything.                                              *)
Accepts(e) == ~finished /\ (latest # None => e.ts >= latest)

ProcessConnection(e) ==
  LET s == [recon |-> recon, ddos |-> ddos, c2 |-> c2, exfil |-> exfil]
      sessions == {m \in FreshMetadata(e) : m \in Between(e)}
      done == Connection(s, e, sessions)
      uncooled == Connection([d \in DOMAIN s |-> Uncooled(s[d])], e, sessions)
  IN  /\ Accepts(e) /\ e.kind = "connection"
      /\ recon' = done.recon.state /\ ddos' = done.ddos.state
      /\ c2' = done.c2.state /\ exfil' = done.exfil.state
      /\ metadata' = FreshMetadata(e)
      /\ Records(e, WithNames(Raised(done), e), Raised(uncooled))
      /\ UNCHANGED <<context, dns, features, encrypted>>

ProcessDNS(e) ==
  LET done == IF On("dns") THEN DNSProcess(dns, e) ELSE Answer(dns, <<>>)
      uncooled == IF On("dns") THEN DNSProcess(Uncooled(dns), e).alerts ELSE <<>>
  IN  /\ Accepts(e) /\ e.kind = "dns"
      /\ dns' = done.state
      /\ context' = Observed(e)
      /\ metadata' = FreshMetadata(e)
      /\ Records(e, done.alerts, uncooled)
      /\ UNCHANGED <<recon, ddos, c2, exfil, features, encrypted>>

ProcessEncrypted(e) ==
  LET rich == Enrich(features, e, ~Setup.derived)
      done == IF On("encrypted") THEN EncryptedProcess(encrypted, rich.event)
              ELSE Answer(encrypted, <<>>)
      uncooled == IF On("encrypted") THEN EncryptedProcess(Uncooled(encrypted), rich.event).alerts
                  ELSE <<>>
  IN  /\ Accepts(e) /\ e.kind = "encrypted"
      /\ features' = rich.features /\ encrypted' = done.state
      /\ metadata' = {m \in FreshMetadata(e) : ~Same(m, e)} \cup {rich.event}
      /\ Records(rich.event, WithNames(done.alerts, e), uncooled)
      /\ UNCHANGED <<context, recon, ddos, c2, dns, exfil>>

(* findings(), before and after completion.                                *)
Snapshots == IF On("recon") THEN FinalAlerts(recon) ELSE <<>>
CurrentFindings == IF finished THEN report.findings ELSE ResolveFindings(alerts)
(* Mutant of Complete: the final scans replace those raised on the way.    *)
ReplacingComplete ==
  LET others == SelectSeq(alerts, LAMBDA x : x.type # "reconnaissance")
      findings == ResolveFindings(others \o Snapshots)
  IN  /\ ~finished
      /\ finished' = TRUE
      /\ report' = [findings |-> findings, incidents |-> Incidents(findings), risk |-> 0]
      /\ UNCHANGED <<profile, latest, alerts, metadata, context, detectors, session,
                     history, raised, matches>>
Complete ==
  LET findings == ResolveFindings(alerts \o Snapshots)
  IN  /\ ~finished
      /\ finished' = TRUE
      /\ report' = [findings |-> findings, incidents |-> Incidents(findings),
                    risk |-> AggregateRisk(Incidents(findings))]
      /\ UNCHANGED <<profile, latest, alerts, metadata, context, detectors, session,
                     history, raised, matches>>

Init ==
  /\ profile \in Profiles
  /\ latest = None /\ finished = FALSE /\ alerts = <<>> /\ metadata = {} /\ context = <<>>
  /\ recon = ReconFresh /\ ddos = DDoSFresh /\ c2 = C2Fresh /\ dns = DNSFresh
  /\ features = FeaturesFresh /\ encrypted = EncryptedFresh /\ report = None
  /\ exfil = ExfilFresh
  /\ session = 1 /\ history = <<>> /\ raised = <<>> /\ matches = {}

(* The command line's exfiltration run: a new session, the kept state.     *)
Resume ==
  /\ finished /\ Setup.enabled = {"exfiltration"} /\ session < MaxSessions
  /\ latest' = None /\ finished' = FALSE /\ alerts' = <<>> /\ metadata' = {} /\ context' = <<>>
  /\ recon' = ReconFresh /\ ddos' = DDoSFresh /\ c2' = C2Fresh /\ dns' = DNSFresh
  /\ features' = FeaturesFresh /\ encrypted' = EncryptedFresh /\ report' = None
  /\ exfil' = Restore(Export(exfil))
  /\ session' = session + 1
  /\ UNCHANGED <<profile, history, raised, matches>>

(* The traffic of a profile: shapes of events, the seconds that may pass,  *)
(* whether a flow may be reported twice, and how many events in all.       *)
Now == IF latest = None THEN 0 ELSE latest
Flow == {Len(history) + 1} \cup
        IF Setup.reuse /\ history # <<>> THEN {Last(history).flow} ELSE {}
Arrives ==
  /\ Len(history) < Setup.events
  /\ \E shape \in Setup.shapes, gap \in Setup.gaps, flow \in Flow :
       LET e == Put(Put(shape, "ts", Now + gap), "flow", flow)
       IN  ProcessConnection(e) \/ ProcessDNS(e) \/ ProcessEncrypted(e)

Next == Arrives \/ Complete \/ Resume
Spec == Init /\ [][Next]_vars
-----------------------------------------------------------------------------
(* Every window of every detector holds exactly the events of its key that *)
(* lie within the window's span of the latest one, in order of time and,   *)
(* at one time, of arrival: KeyedSlidingWindow.add and the recon contacts  *)
(* against the whole history.  A session's windows are filled in order;    *)
(* the exfiltration windows outlive it, and the next session's events may  *)
(* be older than those already there.                                      *)
Within(all, span) ==
  Chosen(all, {e \in Range(all) : e.ts >= Max({x.ts : x \in Range(all)}) - span})
Expected(In(_), span) ==
  Within(Chosen(history, {e \in Range(history) : In(e)}), span)
Exact(windows, Key(_), In(_), span) ==
  /\ \A k \in DOMAIN windows : windows[k] = Expected(LAMBDA e : In(e) /\ Key(e) = k, span)
  /\ \A e \in Range(history) : In(e) => Key(e) \in DOMAIN windows

Connects(e, detector) == e.kind = "connection" /\ On(detector)
Queried(e) == e.kind = "dns" /\ On("dns")

(* What the exfiltration detector looked at: the connections of every      *)
(* session as the session viewed them, but for the approved ones.          *)
Transfer(e) ==
  /\ Connects(e, "exfiltration") /\ View(Setup, e) # None
  /\ View(Setup, e).dst \notin ApprovedBackup
  /\ ~\E r \in ApprovedBulk : RuleMatches(r, View(Setup, e))
Transfers ==
  LET given == Chosen(history, {e \in Range(history) : Transfer(e)})
  IN  [i \in DOMAIN given |-> View(Setup, given[i])]
OfTime(events, t) == Chosen(events, {e \in Range(events) : e.ts = t})
Merges(window, arrivals) ==
  /\ \A i, j \in DOMAIN window : i <= j => window[i].ts <= window[j].ts
  /\ \A e \in Range(window) \cup Range(arrivals) : OfTime(window, e.ts) = OfTime(arrivals, e.ts)
TransfersExact ==
  LET key(e) == <<e.src, e.dst>>
      arrivals(k) == Chosen(Transfers, {e \in Range(Transfers) : key(e) = k})
  IN  /\ \A k \in DOMAIN exfil.windows :
           Merges(exfil.windows[k], Within(arrivals(k), ExfilConfig.window))
      /\ \A e \in Range(Transfers) : key(e) \in DOMAIN exfil.windows

SessionWindowsExact ==
  /\ Exact(recon.contacts, LAMBDA e : e.src,
           LAMBDA e : Connects(e, "recon") /\ e.src \notin AuthorizedSources, ReconConfig.window)
  /\ Exact(ddos.events, LAMBDA e : e.dst,
           LAMBDA e : Connects(e, "ddos") /\ e.protocol \in {"tcp", "udp"}, DDoSConfig.window)
  /\ Exact(ddos.slow, LAMBDA e : e.dst,
           LAMBDA e : Connects(e, "ddos") /\ e.protocol = "tcp" /\ e.service = "http",
           DDoSConfig.slowWindow)
  /\ Exact(ddos.reflection, LAMBDA e : e.src,
           LAMBDA e : Connects(e, "ddos") /\ e.protocol = "udp" /\ Setup.strict, DDoSConfig.window)
  /\ Exact(c2.windows, LAMBDA e : <<e.src, e.dst, e.dport, e.protocol>>,
           LAMBDA e : /\ Connects(e, "c2") /\ e.dport # 53 /\ e.service # "dns"
                      /\ ~\E r \in TrustedPeriodic : RuleMatches(r, e), C2Config.window)
  /\ Exact(dns.queries, LAMBDA e : <<e.src, e.root>>, Queried, DNSConfig.window)
  /\ Exact(dns.failed, LAMBDA e : e.src, LAMBDA e : Queried(e) /\ ~Allowed(e), DNSConfig.window)
  /\ Exact(dns.model, LAMBDA e : e.src, LAMBDA e : Queried(e) /\ WithOutcome(e), DNSConfig.window)
  /\ Exact(dns.lexical, LAMBDA e : e.src, LAMBDA e : Queried(e) /\ Lexical(e), DNSConfig.window)
  /\ Exact(encrypted.windows, LAMBDA e : <<e.src, e.dst, e.fp>>,
           LAMBDA e : e.kind = "encrypted" /\ On("encrypted") /\ e.features # None /\ e.fp # None,
           EncryptedConfig.window)
WindowsExact == SessionWindowsExact /\ TransfersExact

(* A cooldown delays, it never loses: whenever a rule's pattern was met,   *)
(* an alert under that key exists from less than a cooldown before, and    *)
(* two alerts under one key are at least a cooldown apart.  (README: "Cool-*)
(* downs stop every subsequent packet or flow from creating another        *)
(* identical alert.")                                                      *)
CooldownOf(cool) ==
  CASE cool[1] = "recon" -> ReconConfig.cooldown [] cool[1] = "ddos" -> DDoSConfig.cooldown
    [] cool[1] = "c2" -> C2Config.cooldown [] cool[1] = "dns" -> DNSConfig.cooldown
    [] cool[1] = "exfil" -> ExfilConfig.cooldown [] OTHER -> EncryptedConfig.cooldown
CooldownsHonest ==
  /\ \A m \in matches : \E a \in Range(raised) :
       a.cool = m.cool /\ m.ts - a.end < Max({CooldownOf(m.cool), 1})
  /\ \A i, j \in DOMAIN raised :
       i < j /\ raised[i].cool = raised[j].cool =>
         raised[j].end - raised[i].end >= CooldownOf(raised[i].cool)

(* A finding shown to an analyst is never taken back as more of the stream *)
(* arrives or when it completes: it can only widen, unless it is a SYN     *)
(* flood whose flows turn out to be a scan.  (streaming_demo and the       *)
(* follower publish findings of an incomplete session.)                    *)
FindingsSurvive ==
  [][session' = session =>
       \A f \in Range(CurrentFindings) :
         \/ \E g \in Range(CurrentFindings') : Widens(f, g)
         \/ /\ f.subtype \in SynFloods
            /\ \E r \in Range(CurrentFindings') :
                 r.type = "reconnaissance" /\ r.src = f.src /\ r.flows \cap f.flows # {}]_vars

(* The incidents of a report: every finding belongs to exactly one, which  *)
(* covers it, and two incidents of a source lie further apart than the     *)
(* correlation window.  (docs/SPRINT_32.md: "Every alert maps to exactly   *)
(* one incident".)                                                         *)
IncidentsPartition ==
  LET found == Range(CurrentFindings)
      all == Incidents(CurrentFindings)
  IN  /\ \A f \in found : \E i \in DOMAIN all :
           /\ \A j \in DOMAIN all : f.id \in AlertIds(all[j]) <=> j = i
           /\ all[i].src = f.src /\ FirstSeen(all[i]) <= f.start /\ f.end <= LastSeen(all[i])
      /\ \A i, j \in DOMAIN all : i # j /\ all[i].src = all[j].src =>
           \/ FirstSeen(all[i]) - LastSeen(all[j]) > CorrelationWindow
           \/ FirstSeen(all[j]) - LastSeen(all[i]) > CorrelationWindow

(* Ending a run and starting the next one over the kept state is invisible *)
(* to the exfiltration detector: windows, baselines and cooldowns, and     *)
(* every alert, are those of one run over all the events; but for the      *)
(* names, which a session takes from its own look-ups.  (docs/STATUS.md:   *)
(* "exfiltration baselines, active windows, and cooldowns persist across   *)
(* restarts".)                                                             *)
Watched(scope, run, e) ==
  LET step == ExfilProcess(run.state, View(scope, e))
  IN  IF e.kind # "connection" \/ View(scope, e) = None THEN run
      ELSE Answer(step.state, run.alerts \o step.alerts)
Uninterrupted == Folded(LAMBDA run, e : Watched(Setup, run, e), Answer(ExfilFresh, <<>>), history)
Nameless(found) == [i \in DOMAIN found |-> [found[i] EXCEPT !.names = {}]]
RestartsInvisible ==
  Setup.enabled = {"exfiltration"} =>
    exfil = Uninterrupted.state /\ Nameless(raised) = Uninterrupted.alerts
=============================================================================
