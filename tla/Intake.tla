------------------------------- MODULE Intake -------------------------------
(***************************************************************************)
(* From files to events: a JSON replay, one telemetry log, or a packet     *)
(* capture that Zeek turns into a directory of logs, read record by record *)
(* into connections, DNS transactions and TLS sessions with an account of  *)
(* their quality; then the packets of a capture are joined to the flows.   *)
(*                                                                         *)
(* A record is what its fields say to the code: a form, hints of its kind, *)
(* a time, a flow, and the faults a check can meet in it.  Times and       *)
(* durations are integers, so the join's tolerance of a microsecond is     *)
(* none; endpoints are an address with its port.                           *)
(***************************************************************************)
EXTENDS Integers, Sequences, FiniteSets, SequencesExt, Folding

CONSTANTS
  None,
  Sources,         (* [how, files, packets]: how is upload, file,          *)
                   (* directory (of Zeek logs), capture or log; a file is  *)
                   (* [kind, container, lines]; no packets are None        *)
  ToleratedOneIn,  (* more than one rejection in so many is unusable (10)  *)
  MaximumRecords,  (* of an upload, or of what a capture gave (20,000)     *)
  Retained         (* packets kept of a flow (128)                         *)

(* A plain log, an upload and a file are one file each; only a directory   *)
(* has several.  Times are not before 1970: the code takes a latest time   *)
(* of zero for none.                                                       *)
ASSUME SourcesAssumption ==
  /\ None \notin Int /\ Retained \in Nat \ {0}
  /\ \A s \in Sources :
       /\ s.files \in Seq(Range(s.files))
       /\ s.how \notin {"capture", "directory"} => Len(s.files) <= 1
       /\ s.how = "log" => s.packets = None
       /\ \A f \in Range(s.files) :
            f.lines \in Seq(Range(f.lines)) /\ \A r \in Range(f.lines) : r.ts \in Nat
       /\ s.packets # None =>
            /\ s.packets \in Seq(Range(s.packets))
            /\ \A p \in Range(s.packets) : p.ts \in Nat /\ p.form \in {"whole", "cut", "foreign", "broken"}

VARIABLES
  source, outcome,  (* what is read, and how far it came                   *)
  part, at,         (* the file, and its next record                       *)
  quality,          (* of this file                                        *)
  latest, seen,     (* its latest time, the records by their keys          *)
  accepted,         (* its accepted records                                *)
  events,           (* [conn, dns, tls], of all files                      *)
  total,            (* quality of the files before                         *)
  capture           (* [at, latest, sequences, prints, times, disordered,  *)
                    (* truncated, ambiguous, conflicting] of the packets   *)

reader == <<part, at, quality, latest, seen, accepted, events, total>>
vars   == <<source, outcome, reader, capture>>

NoQuality == [seen |-> 0, accepted |-> 0, rejected |-> 0, badTimes |-> 0, unsupported |-> 0,
              disordered |-> 0, skew |-> 0, exact |-> 0, conflicting |-> 0, status |-> "healthy"]
Duplicates(q) == q.exact + q.conflicting

-----------------------------------------------------------------------------
(* Containers.                                                             *)

Uncommented(lines) == Chosen(lines, {r \in Range(lines) : r.form # "comment"})
(* A document that starts with a bracket and is no JSON, or JSON of some   *)
(* other structure, is refused as a whole; a malformed first line makes    *)
(* JSON lines such a document.                                             *)
Refused(container, lines) ==
  \/ container \in {"manifest", "scalar", "broken"}
  \/ container = "jsonl" /\ lines # <<>> /\ Head(lines).form = "malformed"
Parsed(container, lines) == IF container = "jsonl" THEN Uncommented(lines) ELSE lines

(* Logs of a converted capture are first sorted by time, stably, what has  *)
(* none last.                                                              *)
Undatable(r) == r.form # "object" \/ r.faults \cap {"no_ts", "bad_ts"} # {}
NotAfter(x, r) == Undatable(r) \/ (~Undatable(x) /\ x.ts <= r.ts)
InTime(sorted, r) ==
  InsertAt(sorted, Max({0} \cup {i \in DOMAIN sorted : NotAfter(sorted[i], r)}) + 1, r)
Chronological(lines) == Folded(InTime, <<>>, lines)
Lines(n) ==
  IF source.how = "capture" THEN Chronological(source.files[n].lines) ELSE source.files[n].lines
Records(n) == Parsed(source.files[n].container, Lines(n))

-----------------------------------------------------------------------------
(* Normalisation of one record: the first check that fails names the error.*)

FlowFormats == {"netflow", "ipfix", "sflow"}
FlowFormat(r) == r.export
RecordSchema(r) ==
  CASE r.query -> "dns"
    [] ~r.query /\ r.transport # "" -> r.transport
    [] ~r.query /\ r.transport = "" /\ r.print # "" -> "tls"
    [] OTHER -> IF FlowFormat(r) \in FlowFormats THEN FlowFormat(r) ELSE "connection"
KindOf(r, given) == IF given = None THEN RecordSchema(r) ELSE given

FirstFault(r, checks) ==
  LET hits == SelectSeq(checks, LAMBDA c : c[1] \in r.faults)
  IN  IF hits = <<>> THEN "none" ELSE Head(hits)[2]
AliasChecks == << <<"alias", "ambiguous_alias">> >>
TimeChecks  == << <<"no_ts", "missing_required_field">>, <<"bad_ts", "invalid_timestamp">> >>
EventChecks ==
  AliasChecks \o TimeChecks \o << <<"no_uid", "missing_required_field">>, <<"bad_ip", "invalid_ip">> >>
(* An infinite counter is an error that no handler names.                  *)
ConnChecks ==
  EventChecks \o << <<"bad_port", "invalid_port">>, <<"no_proto", "missing_required_field">>,
    <<"bad_proto", "invalid_protocol">>, <<"bad_duration", "invalid_record">>,
    <<"bad_counter", "invalid_record">>, <<"overflow", "uncaught">> >>
DNSChecks ==
  AliasChecks \o << <<"no_query", "missing_required_field">>, <<"bad_answers", "invalid_record">> >>
  \o EventChecks
(* An exporter's uptime clock and duration are read by a plain float.      *)
FlowChecks ==
  << <<"bad_uptime", "uncaught">> >> \o TimeChecks \o AliasChecks \o
  << <<"bad_proto", "invalid_protocol">>, <<"bad_counter", "invalid_record">>,
     <<"overflow", "uncaught">>, <<"bad_duration", "uncaught">> >>

(* Canonical fields first.  An exported flow without an id gets one from   *)
(* its content.                                                            *)
CanonicalFault(r, kind) ==
  FirstFault(r, IF kind \in FlowFormats THEN FlowChecks ELSE AliasChecks)
Canonical(r, kind) == IF kind \in FlowFormats THEN [r EXCEPT !.faults = @ \ {"no_uid"}] ELSE r
FlowId(r) == IF r.uid = "" THEN <<"", r>> ELSE <<r.uid, None>>

IsConnection(r, kind, given) ==
  \/ kind \in FlowFormats \cup {"connection"}
  \/ given = None /\ kind \in {"tls", "quic"} /\ "no_proto" \notin r.faults
IsSession(kind) == kind \in {"tls", "quic"}
EventFault(r, kind, given) ==
  LET c    == Canonical(r, kind)
      conn == IF IsConnection(c, kind, given) THEN FirstFault(c, ConnChecks) ELSE "none"
      dns  == IF kind = "dns" THEN FirstFault(c, DNSChecks) ELSE "none"
      tls  == IF IsSession(kind) THEN FirstFault(c, EventChecks) ELSE "none"
  IN  IF conn # "none" THEN conn ELSE IF dns # "none" THEN dns ELSE tls

(* What becomes of a record: its error, and whether the error's category   *)
(* is counted; a replay does not count what fails before normalisation.    *)
Judged(r, file) ==
  LET kind  == KindOf(r, file.kind)
      first == CanonicalFault(r, kind)
  IN  CASE r.form = "malformed" -> [error |-> "invalid_json", counted |-> FALSE]
        [] r.form = "value" ->
             [error |-> IF source.how = "log" THEN "invalid_record" ELSE "unsupported_record", counted |-> TRUE]
        [] r.form = "object" /\ first # "none" -> [error |-> first, counted |-> source.how = "log"]
        [] OTHER -> [error |-> EventFault(r, kind, file.kind), counted |-> TRUE]

Connection(r) == [ts |-> r.ts, until |-> r.ts + r.duration, flow |-> FlowId(r), src |-> r.src, dst |-> r.dst]
Metadata(r)   == [ts |-> r.ts, flow |-> FlowId(r), src |-> r.src, dst |-> r.dst, print |-> r.print,
                  packets |-> <<>>, joined |-> None]
Extended(evs, r, file) ==
  LET kind == KindOf(r, file.kind)
  IN  [conn |-> IF IsConnection(r, kind, file.kind) THEN Append(evs.conn, Connection(r)) ELSE evs.conn,
       dns  |-> IF kind = "dns" THEN Append(evs.dns, Metadata(r)) ELSE evs.dns,
       tls  |-> IF IsSession(kind) THEN Append(evs.tls, Metadata(r)) ELSE evs.tls]

-----------------------------------------------------------------------------
(* Quality.                                                                *)

(* The DNS records of one flow differ by their transactions; a plain log   *)
(* is read by flow id alone, a replay of one record is not compared.       *)
Key(r, file) ==
  LET kind == KindOf(r, file.kind)
  IN  IF kind = "dns" /\ source.how # "log" THEN <<kind, FlowId(r), r.trans>> ELSE <<kind, FlowId(r)>>
Compared(n) == source.how = "log" \/ Len(Records(n)) > 1
KnownKey(k) == \E s \in seen : s.key = k
KeptFor(k) == (CHOOSE s \in seen : s.key = k).record

(* A latest time of zero counts as none.                                   *)
Behind(r) == latest # None /\ r.ts < latest
NextLatest(r) == IF latest = None \/ latest = 0 THEN r.ts ELSE Max({r.ts, latest})

Rejection(q, judged) ==
  [q EXCEPT !.seen = @ + 1, !.rejected = @ + 1,
            !.badTimes = @ + IF judged.counted /\ judged.error = "invalid_timestamp" THEN 1 ELSE 0,
            !.unsupported = @ + IF judged.counted /\ judged.error = "unsupported_record" THEN 1 ELSE 0]
Acceptance(q, r, file, compared) ==
  LET repeat == compared /\ KnownKey(Key(r, file))
      same   == repeat /\ KeptFor(Key(r, file)) = r
  IN  [q EXCEPT !.seen = @ + 1, !.accepted = @ + 1,
                !.disordered = @ + IF Behind(r) THEN 1 ELSE 0,
                !.skew = IF Behind(r) THEN Max({@, latest - r.ts}) ELSE @,
                !.exact = @ + IF same THEN 1 ELSE 0,
                !.conflicting = @ + IF repeat /\ ~same THEN 1 ELSE 0]
StatusOf(q) ==
  CASE q.accepted = 0 \/ q.rejected * ToleratedOneIn > q.seen -> "unusable"
    [] q.rejected > 0 \/ q.disordered > 0 \/ Duplicates(q) > 0 -> "degraded"
    [] OTHER -> "healthy"

Summed(t, q) ==
  [f \in DOMAIN t |-> IF f = "skew" THEN Max({t[f], q[f]}) ELSE IF f = "status" THEN t[f] ELSE t[f] + q[f]]
(* Mutant of Combined: a directory has the status of its last log.         *)
LastCombined(t, q) == [Summed(t, q) EXCEPT !.status = StatusOf(q)]
Combined(t, q) ==
  [Summed(t, q) EXCEPT !.status = IF source.how \notin {"capture", "directory"} THEN StatusOf(q)
                                  ELSE IF StatusOf(q) # "healthy" THEN "degraded" ELSE t.status]

-----------------------------------------------------------------------------
(* Reading.                                                                *)

NoCapture == [at |-> 1, latest |-> None, sequences |-> <<>>, prints |-> <<>>, times |-> <<>>,
              disordered |-> 0, truncated |-> 0, ambiguous |-> 0, conflicting |-> 0]
Init ==
  /\ source \in Sources /\ outcome = IF source.how = "capture" THEN "converting" ELSE "reading"
  /\ part = 1 /\ at = 1 /\ quality = NoQuality /\ latest = None /\ seen = {} /\ accepted = <<>>
  /\ events = [conn |-> <<>>, dns |-> <<>>, tls |-> <<>>]
  /\ total = NoQuality /\ capture = NoCapture

(* An upload that is no classic capture, or too large, is refused.  Zeek   *)
(* runs in an empty directory; it may be missing, fail, take too long, or  *)
(* leave no connection log.                                                *)
Convert ==
  /\ outcome = "converting"
  /\ \/ outcome' = "refused"
     \/ /\ \E f \in Range(source.files) : f.kind = "connection"
        /\ outcome' = "reading"
  /\ UNCHANGED <<source, reader, capture>>

Reading == outcome = "reading" /\ part <= Len(source.files)
File == source.files[part]
Readable ==
  /\ source.how # "log" => ~Refused(File.container, Lines(part))
  /\ source.how = "upload" => Len(Records(part)) <= MaximumRecords
Refuse ==
  /\ Reading /\ at = 1 /\ ~Readable /\ outcome' = "refused"
  /\ UNCHANGED <<source, reader, capture>>

Current == Records(part)[at]
Verdict == Judged(Current, File)
MoreRecords == Reading /\ Readable /\ at <= Len(Records(part))
Reject ==
  /\ MoreRecords /\ Verdict.error \notin {"none", "uncaught"}
  /\ quality' = Rejection(quality, Verdict) /\ at' = at + 1
  /\ UNCHANGED <<source, outcome, part, latest, seen, accepted, events, total, capture>>
Abort ==
  /\ MoreRecords /\ Verdict.error = "uncaught" /\ outcome' = "aborted"
  /\ UNCHANGED <<source, reader, capture>>
Accept ==
  /\ MoreRecords /\ Verdict.error = "none"
  /\ quality' = Acceptance(quality, Current, File, Compared(part))
  /\ seen' = IF KnownKey(Key(Current, File)) THEN seen
             ELSE seen \cup {[key |-> Key(Current, File), record |-> Current]}
  /\ latest' = NextLatest(Current) /\ accepted' = Append(accepted, Current)
  /\ events' = Extended(events, Current, File) /\ at' = at + 1
  /\ UNCHANGED <<source, outcome, part, total, capture>>

(* The end of a file.  Only a plain log is returned when it is unusable.   *)
Close ==
  /\ Reading /\ Readable /\ at > Len(Records(part))
  /\ IF StatusOf(quality) = "unusable" /\ source.how # "log"
     THEN outcome' = "unusable" /\ UNCHANGED <<part, at, quality, latest, seen, accepted, total>>
     ELSE /\ part' = part + 1 /\ total' = Combined(total, quality)
          /\ at' = 1 /\ quality' = NoQuality /\ latest' = None /\ seen' = {} /\ accepted' = <<>>
          /\ UNCHANGED outcome
  /\ UNCHANGED <<source, events, capture>>
(* There is no log, or not one of the directory.                           *)
Absent ==
  /\ outcome = "reading" /\ source.files = <<>>
  /\ IF source.how = "log"
     THEN outcome' = "prepared" /\ total' = [total EXCEPT !.status = "unavailable"]
     ELSE outcome' = "refused" /\ UNCHANGED total
  /\ UNCHANGED <<source, part, at, quality, latest, seen, accepted, events, capture>>
Finish ==
  /\ outcome = "reading" /\ source.files # <<>> /\ part > Len(source.files)
  /\ outcome' = IF source.how = "capture" /\ total.seen > MaximumRecords THEN "refused"
                ELSE IF source.packets # None THEN "joining" ELSE "prepared"
  /\ UNCHANGED <<source, reader, capture>>

-----------------------------------------------------------------------------
(* The packets of a capture.  A packet's [ts, src, dst, form, hello]: form *)
(* is whole, cut (by the snap length), foreign (no supported header) or    *)
(* broken (no packet); hello is a client's fingerprint, "" if there is     *)
(* none.                                                                   *)

Identity(e) == <<e.flow, e.src, e.dst>>
Fits(p, e, direction) ==
  /\ e.ts <= p.ts /\ p.ts <= e.until
  /\ IF direction = "orig" THEN p.src = e.src /\ p.dst = e.dst ELSE p.src = e.dst /\ p.dst = e.src
Candidates(p) ==
  {c \in (DOMAIN events.conn) \X {"orig", "resp"} : Fits(p, events.conn[c[1]], c[2])}
(* A bounded recent window.                                                *)
(* Mutant of Kept: the first packets only.                                 *)
FirstKept(sequence, p) == IF Len(sequence) < Retained THEN Append(sequence, p) ELSE sequence
Kept(sequence, p) == Append(IF Len(sequence) < Retained THEN sequence ELSE Tail(sequence), p)

Counted(c, p) ==
  [c EXCEPT !.at = @ + 1,
            !.disordered = @ + IF c.latest # None /\ p.ts < c.latest THEN 1 ELSE 0,
            !.latest = IF @ = None \/ @ = 0 THEN p.ts ELSE Max({p.ts, @}),
            !.truncated = @ + IF p.form = "cut" THEN 1 ELSE 0]
Put(map, key, value) == [k \in DOMAIN map \cup {key} |-> IF k = key THEN value ELSE map[k]]
(* Two different hellos leave a flow without any.                          *)
Greeted(c, id, p) ==
  LET conflict == id \in DOMAIN c.prints /\ c.prints[id] # p.hello
  IN  [c EXCEPT !.times = Put(@, id, IF id \in DOMAIN @ THEN Max({p.ts, @[id]}) ELSE p.ts),
                !.prints = Put(@, id, IF conflict THEN None ELSE p.hello),
                !.conflicting = @ + IF conflict THEN 1 ELSE 0]
Matched(c, p) ==
  LET hit == CHOOSE x \in Candidates(p) : TRUE
      id  == Identity(events.conn[hit[1]])
      new == [c EXCEPT !.sequences = Put(@, id, Kept(IF id \in DOMAIN @ THEN @[id] ELSE <<>>, p))]
  IN  IF p.hello # "" /\ hit[2] = "orig" THEN Greeted(new, id, p) ELSE new

Packet == source.packets[capture.at]
MorePackets == outcome = "joining" /\ capture.at <= Len(source.packets)
BreakOff ==
  /\ MorePackets /\ Packet.form = "broken" /\ outcome' = "aborted"
  /\ UNCHANGED <<source, reader, capture>>
ReadPacket ==
  /\ MorePackets /\ Packet.form # "broken"
  /\ capture' =
       CASE Packet.form = "foreign" -> Counted(capture, Packet)
         [] Packet.form # "foreign" /\ Cardinality(Candidates(Packet)) = 1 ->
              Matched(Counted(capture, Packet), Packet)
         [] OTHER -> [Counted(capture, Packet) EXCEPT
                        !.ambiguous = @ + IF Candidates(Packet) = {} THEN 0 ELSE 1]
  /\ UNCHANGED <<source, outcome, reader>>

(* A session is joined to the one connection it lies in, and is available  *)
(* only after the last packet it was given.                                *)
Holders(m) ==
  {i \in DOMAIN events.conn : /\ Identity(events.conn[i]) = Identity(m)
                              /\ events.conn[i].ts <= m.ts /\ m.ts <= events.conn[i].until}
Greeting(id) == IF id \in DOMAIN capture.prints THEN capture.prints[id] ELSE None
Enriched(m, i) ==
  LET id      == Identity(m)
      packets == IF id \in DOMAIN capture.sequences THEN capture.sequences[id] ELSE <<>>
      hello   == IF id \in DOMAIN capture.times THEN {capture.times[id]} ELSE {}
  IN  [m EXCEPT !.joined = i, !.packets = packets,
                !.ts = Max({@} \cup hello \cup {p.ts : p \in Range(packets)}),
                !.print = IF @ = "" /\ Greeting(id) # None THEN Greeting(id) ELSE @]
Joined(m) ==
  IF Cardinality(Holders(m)) = 1 THEN Enriched(m, CHOOSE i \in Holders(m) : TRUE)
  ELSE [m EXCEPT !.packets = <<>>]
(* Flows with a hello that no log has a session of.                        *)
Unlogged ==
  {i \in DOMAIN events.conn :
     LET id == Identity(events.conn[i])
     IN  /\ Greeting(id) # None
         /\ ~\E m \in Range(events.tls) : Identity(m) = id /\ Cardinality(Holders(m)) = 1
         /\ \A j \in DOMAIN events.conn : Identity(events.conn[j]) = id => j = i}
CaptureOnly(i) ==
  LET e == events.conn[i]
  IN  Enriched([ts |-> e.ts, flow |-> e.flow, src |-> e.src, dst |-> e.dst, print |-> "",
                packets |-> <<>>, joined |-> None], i)
Join ==
  /\ outcome = "joining" /\ capture.at > Len(source.packets)
  /\ events' = [events EXCEPT !.tls =
       [k \in DOMAIN @ |-> Joined(@[k])] \o SetToSeq({CaptureOnly(i) : i \in Unlogged})]
  /\ total' = IF total.status = "healthy" /\ capture.disordered + capture.truncated
                                               + capture.ambiguous + capture.conflicting > 0
              THEN [total EXCEPT !.status = "degraded"] ELSE total
  /\ outcome' = "prepared"
  /\ UNCHANGED <<source, part, at, quality, latest, seen, accepted, capture>>

Next ==
  \/ Convert \/ Refuse \/ Reject \/ Abort \/ Accept \/ Close \/ Absent \/ Finish
  \/ BreakOff \/ ReadPacket \/ Join
Spec == Init /\ [][Next]_vars

-----------------------------------------------------------------------------
(* Properties.                                                             *)

(* The counters kept while records are read say what a look at the whole   *)
(* file would: every record was accepted or rejected, the accepted ones    *)
(* that come after a later one are out of order by the largest such gap,   *)
(* and repeats are what exceeds the distinct flows, a flow's DNS           *)
(* transactions apart (passive_replay.py, telemetry_quality.py).           *)
Gaps(records) ==
  UNION {{records[i].ts - records[j].ts : i \in 1..(j - 1)} : j \in DOMAIN records}
Late(records) == {j \in DOMAIN records : \E i \in 1..(j - 1) : records[i].ts > records[j].ts}
Subject(r, n) ==
  LET kind == KindOf(r, source.files[n].kind)
  IN  <<kind, FlowId(r), IF kind = "dns" /\ source.how # "log" THEN r.trans ELSE 0>>
Distinct(records, n) == {Subject(r, n) : r \in Range(records)}
Normal(n) == {r \in Range(Records(n)) : Judged(r, source.files[n]).error = "none"}
QualityAccounts ==
  Reading /\ Readable =>
    /\ quality.seen = at - 1 /\ quality.accepted + quality.rejected = quality.seen
    /\ accepted = Chosen(SubSeq(Records(part), 1, at - 1), Normal(part))
    /\ quality.disordered = Cardinality(Late(accepted)) /\ quality.skew = Max({0} \cup Gaps(accepted))
    /\ Compared(part) => Duplicates(quality) = Len(accepted) - Cardinality(Distinct(accepted, part))

(* A replay that is reported healthy lost nothing on the way: no record of *)
(* any of its logs was refused, repeated or out of order, and no packet    *)
(* was cut, late or claimed by two connections (replay_service.py,         *)
(* capture_join.py: one bad part degrades the whole).                      *)
HealthyIsWhole ==
  outcome = "prepared" /\ total.status = "healthy" =>
    /\ \A n \in DOMAIN source.files :
         LET records == Records(n)
         IN  /\ \A r \in Range(records) : Judged(r, source.files[n]).error = "none"
             /\ Late(records) = {}
             /\ Len(records) > 1 => Cardinality(Distinct(records, n)) = Len(records)
    /\ source.packets # None =>
         /\ Late(source.packets) = {}
         /\ \A p \in Range(source.packets) :
              p.form # "cut" /\ (p.form = "whole" => Cardinality(Candidates(p)) <= 1)

(* The quality a replay reports is the truth about its input, while it is  *)
(* read and when it is done (telemetry_quality.py).                        *)
QualityTruthful == QualityAccounts /\ HealthyIsWhole

(* What a session is given of a capture are the most recent packets of its *)
(* own connection, never a fingerprint when its client gave two, and it is *)
(* dated after all of them; unless two connections have its identity.  A   *)
(* packet sent from an endpoint to itself fits both directions and is      *)
(* nobody's (pcap_metadata.py, capture_join.py).                           *)
OfConnection(i) ==
  Chosen(source.packets, {p \in Range(source.packets) :
    /\ p.form \in {"whole", "cut"} /\ p.src # p.dst
    /\ Candidates(p) # {} /\ \A c \in Candidates(p) : c[1] = i})
Recent(s) == SubSeq(s, Max({1, Len(s) - Retained + 1}), Len(s))
JoinCausal ==
  outcome = "prepared" /\ source.packets # None =>
    \A s \in Range(events.tls) :
      s.joined # None /\ (\A i \in DOMAIN events.conn : Identity(events.conn[i]) = Identity(s) => i = s.joined) =>
        LET own    == OfConnection(s.joined)
            hellos == {p \in Range(own) : p.hello # "" /\ p.src = s.src /\ p.dst = s.dst}
        IN  /\ s.packets = Recent(own)
            /\ \A p \in Range(s.packets) \cup hellos : p.ts <= s.ts
            /\ Cardinality({p.hello : p \in hellos}) > 1 =>
                 s.print = "" \/ \E n \in DOMAIN source.files : \E r \in Range(Records(n)) : r.print = s.print
=============================================================================
