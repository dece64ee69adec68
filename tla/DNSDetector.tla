---------------------------- MODULE DNSDetector ----------------------------
(***************************************************************************)
(* Generated domains and DNS tunnels.  Four rules may raise the first: the *)
(* model with resolver outcomes, the model without, lexical shape where    *)
(* the model is silent, and failed look-ups of many domains.  They share a *)
(* subtype and differ in the cooldown they run under.                      *)
(***************************************************************************)
EXTENDS SlidingWindow

CONSTANTS
  DNSConfig,         (* the fields of DNSConfig, ratios in percent         *)
  AllowedRoots,      (* domains the operator allows                        *)
  Score(_),          (* the model's score of a query, or None              *)
  LexicalRoots,      (* domains of generated shape                         *)
  LabelLength(_), LabelEntropy(_)   (* of a query's leftmost label         *)

DNSConfigValid ==
  /\ DNSConfig.window \in Nat \ {0} /\ DNSConfig.threshold \in 1..99 /\ DNSConfig.failurePct \in 1..100
  /\ \A minimum \in {"tunnelQueries", "tunnelLabels", "campaignQueries", "campaignRoots",
                     "failedRoots", "resolvedRoots"} : DNSConfig[minimum] \in Nat \ {0, 1}
ASSUME DNSConfigAssumption == DNSConfigValid

DNSFresh == [model |-> <<>>, lexical |-> <<>>, failed |-> <<>>, queries |-> <<>>, last |-> <<>>]

Roots(w) == {w[i].root : i \in DOMAIN w}
Failures(w) == Count(w, LAMBDA e : e.response = "NXDOMAIN")

Allowed(e) == e.root \in AllowedRoots
(* An allowed domain is never scored.                                      *)
Scored(e) == IF Allowed(e) THEN None ELSE Score(e)
Positive(e) == Scored(e) # None /\ Scored(e) >= DNSConfig.threshold
WithOutcome(e) == Positive(e) /\ e.response # "UNKNOWN"
Lexical(e) == e.root \in LexicalRoots /\ ~Allowed(e) /\ ~Positive(e)

(* Some failed look-ups lower the number of distinct domains required.     *)
ModelCampaign(w) ==
  Cardinality(Roots(w)) >= IF Failures(w) >= 2 THEN DNSConfig.failedRoots ELSE DNSConfig.resolvedRoots
LexicalCampaign(w) == Cardinality(Roots(w)) >= DNSConfig.lexicalRoots
FailedCampaign(w) ==
  /\ Len(w) >= DNSConfig.campaignQueries
  /\ Cardinality(Roots(w)) >= DNSConfig.campaignRoots
  /\ 100 * Failures(w) >= DNSConfig.failurePct * Len(w)
AverageLabel(w, F(_), limit) == Total(w, LAMBDA e : F(e.label)) >= limit * Len(w)
ManyLabels(w) ==
  /\ Len(w) >= DNSConfig.tunnelQueries
  /\ Cardinality({w[i].label : i \in DOMAIN w}) >= DNSConfig.tunnelLabels
  /\ \/ AverageLabel(w, LabelLength, DNSConfig.labelLength)
     \/ AverageLabel(w, LabelEntropy, DNSConfig.entropy)
TxtQueries(w) == Count(w, LAMBDA e : e.txt)
EncodedTxt(w) ==
  /\ Len(w) >= DNSConfig.txtQueries
  /\ 4 * TxtQueries(w) >= 3 * Len(w)
  /\ AverageLabel(w, LabelLength, DNSConfig.txtLabelLength)
  /\ AverageLabel(w, LabelEntropy, DNSConfig.entropy)
Tunnel(w) == ManyLabels(w) \/ EncodedTxt(w)

(* Of the confidences, what does not come from the letters of the names.   *)
ModelConfidence(w) ==
  Min({90, 55 + (15 * Max({Scored(w[i]) : i \in DOMAIN w})) \div 100
           + 5 * Min({Cardinality(Roots(w)), 4})})
FailedConfidence(w) ==
  Min({90, 54 + (14 * Failures(w)) \div Len(w) + Min({Cardinality(Roots(w)), 20}) \div 2})

LexicalConfidence == 66
TunnelConfidence(w) ==
  Min({95, 62 + (8 * Min({Len(w), DNSConfig.tunnelQueries})) \div DNSConfig.tunnelQueries
           + (8 * TxtQueries(w)) \div Len(w) + IF EncodedTxt(w) THEN 5 ELSE 0})

(* A rule that fires: the subject names the alert and, within the source   *)
(* and subtype, its cooldown.                                              *)
Finding(subtype, subject, w, confidence) ==
  [subtype |-> subtype, subject |-> subject, window |-> w, confidence |-> confidence]
DNSAlert(f, e) ==
  Alert("dns_threat", f.subtype, <<"dns", f.subtype, e.src, f.subject, e.ts>>,
        <<"dns", e.src, f.subtype, f.subject>>, e, e.dst, f.window[1].ts, Flows(f.window),
        f.confidence)

DNSProcess(state, e) ==
  LET span == DNSConfig.window
      Joined(map, in) == IF in THEN Added(map, e.src, e, span) ELSE map
      model == Joined(state.model, WithOutcome(e))
      lexical == Joined(state.lexical, Lexical(e))
      failed == Joined(state.failed, ~Allowed(e))
      queries == Added(state.queries, <<e.src, e.root>>, e, span)
      dga == "dga_like_domain"
      findings ==
        Rule(WithOutcome(e) /\ ModelCampaign(model[e.src]),
             Finding(dga, "model-correlated-campaign", model[e.src], ModelConfidence(model[e.src])))
        \o Rule(Positive(e) /\ ~WithOutcome(e), Finding(dga, e.input, <<e>>, Scored(e)))
        \o Rule(Lexical(e) /\ LexicalCampaign(lexical[e.src]),
                Finding(dga, "lexical-campaign", lexical[e.src], LexicalConfidence))
        \o Rule(~Allowed(e) /\ FailedCampaign(failed[e.src]),
                Finding(dga, "failed-domain-campaign", failed[e.src], FailedConfidence(failed[e.src])))
        \o Rule(~Allowed(e) /\ Tunnel(queries[<<e.src, e.root>>]),
                Finding("dns_tunnelling", e.root, queries[<<e.src, e.root>>],
                     TunnelConfidence(queries[<<e.src, e.root>>])))
      said == Spaced(state.last, [i \in DOMAIN findings |-> DNSAlert(findings[i], e)], DNSConfig.cooldown)
  IN  Answer([model |-> model, lexical |-> lexical, failed |-> failed, queries |-> queries,
              last |-> said.last], said.alerts)
=============================================================================
