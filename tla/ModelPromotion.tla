--------------------------- MODULE ModelPromotion ---------------------------
(***************************************************************************)
(* How a DNS model earns its place: a corpus pinned by a manifest is split *)
(* without leakage, a candidate is fitted on one part and its operating    *)
(* point chosen on another, the frozen candidate is evaluated on the third *)
(* and, if every gate passes, promoted.  Each command reads files, works,  *)
(* and creates one file; several may run at once, be killed anywhere, and  *)
(* find a file changed.  A digest is what it digests: an artifact someone  *)
(* changed is no longer intact.  Rates and scores are in percent.          *)
(***************************************************************************)
EXTENDS Integers, Sequences, FiniteSets, SequencesExt

CONSTANTS
  Manifests,        (* the versions of the corpus manifest                 *)
  Score(_, _),      (* a fitted variant's score of a domain                *)
  Registrable(_),   (* the public suffix list's registrable domain         *)
  Bucket(_),        (* the seeded hash of a registrable domain, 0..99      *)
  Research, Demo,   (* output paths, and the bundled model's path          *)
  Workers,          (* commands running at once                            *)
  DomainLimit,      (* 200,000 in the code                                 *)
  MaxKills, MaxChanges

ASSUME PromotionAssumption ==
  /\ \A m \in Manifests :
       /\ IsFiniteSet(Range(m.sources)) /\ \A s \in Range(m.sources) : IsFiniteSet(Range(s.content))
       /\ m.variants \subseteq Nat   (* a variant is its place in the manifest *)
  /\ Demo \notin Research /\ DomainLimit \in Nat \ {0}

VARIABLES
  manifest,   (* what the manifest's path holds                            *)
  spoiled,    (* contents of sources that no longer match their pins       *)
  disk,       (* what each path holds                                      *)
  worker,     (* what each command is about to write, and where            *)
  kills, changes

research == <<manifest, spoiled, disk, worker, kills, changes>>

Unwritten == [kind |-> "unwritten"]
Torn   == [kind |-> "torn"]
Bundled == [kind |-> "trained", rows |-> <<>>]
Resting == [step |-> "resting"]

-----------------------------------------------------------------------------
(* The corpus.                                                             *)

Splits == {"train", "validation", "test"}
ManifestValid(m) ==
  /\ Len(m.sources) \in 1..100
  /\ m.grid # {} /\ Cardinality(m.grid) <= 100 /\ m.grid \subseteq 1..99
  /\ m.variants # {} /\ Cardinality(m.variants) <= 20
  /\ \A rate \in {"fpr", "recall", "family"} : m.gates[rate] \in 0..100
  /\ m.gates.positives >= 1 /\ m.gates.negatives >= 1
PinHolds(s) == s.content \notin spoiled
SourceValid(s) ==
  /\ s.label \in {0, 1} /\ s.split \in Splits \cup {"hashed"}
  /\ s.split = "hashed" => s.label = 0
  /\ PinHolds(s)
  /\ s.records >= 1 /\ Len(s.content) = s.records

(* A benign source may be spread, by registrable domain.                   *)
Assigned(d, s) ==
  IF s.split # "hashed" THEN s.split
  ELSE IF Bucket(Registrable(d)) < 60 THEN "train"
  ELSE IF Bucket(Registrable(d)) < 80 THEN "validation" ELSE "test"
Labelled(d, s) == [domain |-> d, label |-> s.label, family |-> s.family, split |-> Assigned(d, s)]
Corpus(m) == UNION {{Labelled(d, s) : d \in Range(s.content)} : s \in Range(m.sources)}
Part(m, split) == {r \in Corpus(m) : r.split = split}

(* Nothing crosses the splits: a domain, what shares its registrable part, *)
(* a malicious family.                                                     *)
DomainsWhole(m)  == \A r, t \in Corpus(m) : r.domain = t.domain => r = t
GroupsWhole(m)   == \A r, t \in Corpus(m) : Registrable(r.domain) = Registrable(t.domain) => r.split = t.split
FamiliesWhole(m) == \A r, t \in Corpus(m) : r.label = 1 /\ t.label = 1 /\ r.family = t.family => r.split = t.split
UngroupedSeparated(m) == DomainsWhole(m) /\ FamiliesWhole(m)
Separated(m) == DomainsWhole(m) /\ GroupsWhole(m) /\ FamiliesWhole(m)

RawRecords(m) == FoldSeq(LAMBDA s, n : n + s.records, 0, m.sources)
CorpusLoads(m) ==
  /\ ManifestValid(m) /\ \A s \in Range(m.sources) : SourceValid(s)
  /\ \A i, j \in DOMAIN m.sources : m.sources[i].content = m.sources[j].content => i = j
  /\ RawRecords(m) <= DomainLimit
  /\ Separated(m)
  /\ \A split \in Splits : {r.label : r \in Part(m, split)} = {0, 1}

-----------------------------------------------------------------------------
(* Scores against labels.                                                  *)

Hits(rows, Flagged(_)) ==
  [tp |-> Cardinality({r \in rows : r.label = 1 /\ Flagged(r)}),
   fn |-> Cardinality({r \in rows : r.label = 1 /\ ~Flagged(r)}),
   fp |-> Cardinality({r \in rows : r.label = 0 /\ Flagged(r)}),
   tn |-> Cardinality({r \in rows : r.label = 0 /\ ~Flagged(r)})]
Measured(rows, Flagged(_)) ==
  [pooled |-> Hits(rows, Flagged),
   family |-> [f \in {r.family : r \in rows} |-> Hits({r \in rows : r.family = f}, Flagged)]]
Predicted(variant, threshold, r) == Score(variant, r.domain) >= threshold
ScoredMetrics(rows, variant, threshold) == Measured(rows, LAMBDA r : Predicted(variant, threshold, r))

(* The upper end of the 95% Wilson interval of k in n exceeds a rate, that *)
(* is, the rate is below k/n or in the interval: n(k/n - g)^2 < z^2 g(1-g) *)
(* with z^2 = 3.8415.                                                      *)
WilsonExceeds(k, n, rate) ==
  LET gap == 100 * k - n * rate
  IN  rate = 0 \/ gap > 0 \/ 10000 * gap * gap < 38415 * n * rate * (100 - rate)
RecallBelow(h, rate) == 100 * h.tp < rate * (h.tp + h.fn)
GateFailures(result, gates) ==
  LET h == result.pooled
  IN  {f \in {"positives"} : h.tp + h.fn < gates.positives}
      \cup {f \in {"negatives"} : h.fp + h.tn < gates.negatives}
      \cup {f \in {"fpr"} : h.fp + h.tn = 0 \/ WilsonExceeds(h.fp, h.fp + h.tn, gates.fpr)}
      \cup {f \in {"recall"} : h.tp + h.fn = 0 \/ RecallBelow(h, gates.recall)}
      \cup {f \in DOMAIN result.family : result.family[f].tp + result.family[f].fn > 0
                                          /\ RecallBelow(result.family[f], gates.family)}

-----------------------------------------------------------------------------
(* Fitting: the operating point is chosen on the validation part alone.    *)

Points(m) == m.variants \X m.grid
AtPoint(m, p) == ScoredMetrics(Part(m, "validation"), p[1], p[2])
Eligible(m) == {p \in Points(m) : GateFailures(AtPoint(m, p), m.gates) = {}}
(* Most hits, then fewest false alarms, then the first variant, then the   *)
(* lowest threshold; if no point passes, fewest failed gates (when there   *)
(* is more than one variant), fewest false alarms, most hits.              *)
EligibleRank(m, p) == LET h == AtPoint(m, p).pooled IN <<-h.tp, h.fp, p[1], p[2]>>
FallbackRank(m, p) ==
  LET h == AtPoint(m, p).pooled
  IN  IF Cardinality(m.variants) = 1 THEN <<h.fp, -h.tp, p[2]>>
      ELSE <<Cardinality(GateFailures(AtPoint(m, p), m.gates)), h.fp, -h.tp, p[1], p[2]>>
Below(a, b) == \E i \in DOMAIN a : a[i] < b[i] /\ \A j \in 1..(i - 1) : a[j] = b[j]
Least(points, Rank(_)) == CHOOSE p \in points : \A q \in points \ {p} : Below(Rank(p), Rank(q))
Selected(m) ==
  IF Eligible(m) # {} THEN Least(Eligible(m), LAMBDA p : EligibleRank(m, p))
  ELSE Least(Points(m), LAMBDA p : FallbackRank(m, p))
Candidate(m) ==
  LET p == Selected(m)
  IN  [kind |-> "candidate", intact |-> TRUE, audit |-> m, gates |-> m.gates,
       variant |-> p[1], threshold |-> p[2], validation |-> AtPoint(m, p),
       failures |-> GateFailures(AtPoint(m, p), m.gates)]

(* The holdout.  An analysis given every reserved domain as an isolated    *)
(* query raises what the model flags and nothing else: the two checks that *)
(* it does are left out.                                                   *)
CandidateLoads(a) == a.kind = "candidate" /\ a.intact
Evaluable(c, m) ==
  /\ CandidateLoads(c) /\ CorpusLoads(m)
  /\ m = c.audit /\ m.gates = c.gates /\ c.threshold \in m.grid
Holdout(c, m) ==
  LET result   == ScoredMetrics(Part(m, "test"), c.variant, c.threshold)
      failures == GateFailures(result, m.gates)
  IN  [kind |-> "holdout", intact |-> TRUE, candidate |-> c, test |-> result,
       failures |-> failures, passed |-> c.failures = {} /\ failures = {}]

(* Promotion trusts neither file: it recomputes the gates from the counts  *)
(* the bound evaluation reports.                                           *)
Promotable(c, e) ==
  /\ CandidateLoads(c) /\ e.kind = "holdout" /\ e.intact /\ e.candidate = c
  /\ GateFailures(c.validation, c.gates) = {} /\ GateFailures(e.test, c.gates) = {}
  /\ c.failures = {} /\ e.failures = {} /\ e.passed
Promoted(c, e) == [kind |-> "model", variant |-> c.variant, threshold |-> c.threshold, approval |-> e]

-----------------------------------------------------------------------------
(* The commands.                                                           *)

PromotionInit ==
  /\ manifest \in Manifests /\ spoiled = {}
  /\ \E model \in {Bundled, Unwritten} :
       disk = [p \in Research \cup {Demo} |-> IF p = Demo THEN model ELSE Unwritten]
  /\ worker = [w \in Workers |-> Resting]
  /\ kills = 0 /\ changes = 0

(* A command refuses an output that exists before it does its work, and    *)
(* creates it exclusively after.                                           *)
Accepts(w, out) == worker[w] = Resting /\ disk[out] = Unwritten
Works(w, out, artifact) ==
  /\ worker' = [worker EXCEPT ![w] = [step |-> "done", out |-> out, artifact |-> artifact]]
  /\ UNCHANGED <<manifest, spoiled, disk, kills, changes>>
FitCandidate(w, out) ==
  Accepts(w, out) /\ CorpusLoads(manifest) /\ Works(w, out, Candidate(manifest))
EvaluateCandidate(w, from, out) ==
  /\ Accepts(w, out) /\ Evaluable(disk[from], manifest)
  /\ Works(w, out, Holdout(disk[from], manifest))
PromoteCandidate(w, from, report, out) ==
  /\ Accepts(w, out) /\ Promotable(disk[from], disk[report])
  /\ Works(w, out, Promoted(disk[from], disk[report]))

Creates(out) == disk[out] = Unwritten
OpenOutput(w) ==
  /\ worker[w].step = "done"
  /\ LET out == worker[w].out
     IN  IF Creates(out)
         THEN /\ worker' = [worker EXCEPT ![w].step = "writing"]
              /\ disk' = [disk EXCEPT ![out] = Torn]
         ELSE /\ worker' = [worker EXCEPT ![w] = Resting] /\ UNCHANGED disk
  /\ UNCHANGED <<manifest, spoiled, kills, changes>>
CloseOutput(w) ==
  /\ worker[w].step = "writing"
  /\ disk' = [disk EXCEPT ![worker[w].out] = worker[w].artifact]
  /\ worker' = [worker EXCEPT ![w] = Resting]
  /\ UNCHANGED <<manifest, spoiled, kills, changes>>
Kill(w) ==
  /\ worker[w] # Resting /\ kills < MaxKills
  /\ worker' = [worker EXCEPT ![w] = Resting] /\ kills' = kills + 1
  /\ UNCHANGED <<manifest, spoiled, disk, changes>>

(* Between the commands the manifest is revised, a source or an artifact   *)
(* changes; what was changed keeps the checksum of what it was.            *)
Change == changes < MaxChanges /\ changes' = changes + 1 /\ UNCHANGED <<worker, kills>>
ReviseManifest ==
  /\ Change /\ \E m \in Manifests \ {manifest} : manifest' = m
  /\ UNCHANGED <<spoiled, disk>>
SpoilSource ==
  /\ Change /\ \E s \in Range(manifest.sources) : spoiled' = spoiled \cup {s.content}
  /\ UNCHANGED <<manifest, disk>>
Touched(a) ==
  IF a.kind = "candidate" THEN {[a EXCEPT !.intact = FALSE, !.threshold = t] : t \in a.audit.grid \ {a.threshold}}
  ELSE IF a.kind = "holdout" /\ ~a.passed
  THEN {[a EXCEPT !.intact = FALSE, !.failures = {}, !.passed = TRUE]}
  ELSE {}
TouchArtifact ==
  /\ Change /\ \E p \in Research : \E a \in Touched(disk[p]) : disk' = [disk EXCEPT ![p] = a]
  /\ UNCHANGED <<manifest, spoiled>>

PromotionNext ==
  \/ \E w \in Workers, out \in Research :
       \/ FitCandidate(w, out)
       \/ \E from \in Research : EvaluateCandidate(w, from, out)
       \/ \E from, report \in Research : PromoteCandidate(w, from, report, out)
  \/ \E w \in Workers : OpenOutput(w) \/ CloseOutput(w) \/ Kill(w)
  \/ ReviseManifest \/ SpoilSource \/ TouchArtifact

PromotionSpec == PromotionInit /\ [][PromotionNext]_research

-----------------------------------------------------------------------------
(* Properties.                                                             *)

(* A promoted model has, on the corpus its manifest declares, the hit and  *)
(* alarm rates its gates ask for on domains it was neither fitted nor      *)
(* tuned on: none shares a registrable domain, or a malicious family, with *)
(* another part; and no operating point of the manifest that passes on the *)
(* validation part does better there (dns_calibration.py, dns_corpus.py).  *)
Passes(rows, m, variant, threshold) ==
  GateFailures(ScoredMetrics(rows, variant, threshold), m.gates) = {}
Earned(a) ==
  LET m == a.approval.candidate.audit
      reserved == {r \in Corpus(m) : r.split = "test"}
      seen     == Corpus(m) \ reserved
      hits(p)  == AtPoint(m, p).pooled
      chosen   == <<a.variant, a.threshold>>
  IN  /\ Passes(reserved, m, a.variant, a.threshold)
      /\ Passes(Part(m, "validation"), m, a.variant, a.threshold)
      /\ \A r \in reserved, t \in seen :
           /\ Registrable(r.domain) # Registrable(t.domain)
           /\ r.label = 1 /\ t.label = 1 => r.family # t.family
      /\ \A p \in Points(m) :
           Passes(Part(m, "validation"), m, p[1], p[2]) =>
             \/ hits(p).tp < hits(chosen).tp
             \/ hits(p).tp = hits(chosen).tp /\ hits(p).fp >= hits(chosen).fp
PromotedEarned == \A p \in Research : disk[p].kind = "model" => Earned(disk[p])
=============================================================================
