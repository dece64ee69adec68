------------------------ MODULE AuditedStoreProofs ------------------------
(***************************************************************************)
(* The signed store's promises, for any requests, keepers, rows, runs,     *)
(* limits and outside changes.  Everything rests on the ledgers that can   *)
(* come back: the one in the file, the one in a copy and those a kept head *)
(* stood for are chains of signed entries, and two that share an entry are *)
(* one history up to it.                                                   *)
(***************************************************************************)
EXTENDS AuditedStore, TLAPS

-----------------------------------------------------------------------------
(* The inductive invariant.                                                *)

Books(x) == [ledger |-> x.ledger, honest |-> x.honest]
Known == {Books(ThisImage)}
         \cup {Books(x) : x \in {saved} \ {None}}
         \cup {Books(anchors[k].image) : k \in {q \in Keepers : anchors[q] # None}}

(* Every entry is signed, in its place, and quotes the one before it.      *)
Chain(b) ==
  \A n \in DOMAIN b.ledger :
    /\ b.ledger[n].mac \in DOMAIN signed /\ signed[b.ledger[n].mac] = b.ledger[n].payload
    /\ b.ledger[n].payload.sequence = n
    /\ b.ledger[n].payload.previous = IF n = 1 THEN 0 ELSE b.ledger[n - 1].mac

(* The certified states are those signed operations made.                  *)
Honest(b) ==
  /\ Len(b.ledger) <= Len(b.honest)
  /\ \A n \in DOMAIN b.ledger : b.honest[n] = b.ledger[n].payload.state

(* A MAC occurs in one place only, after one history.                      *)
OneHistory(b, d) ==
  \A i \in DOMAIN b.ledger, j \in DOMAIN d.ledger :
    b.ledger[i].mac = d.ledger[j].mac => i = j /\ \A n \in 1 .. i : b.ledger[n] = d.ledger[n]

(* Entry n is the last, up to entry l, that changed run r.                 *)
Changed(books, n, r) == \E x \in books.ledger[n].payload.changes : x.table = "runs" /\ x.id = r
LastBy(books, n, l, r) == Changed(books, n, r) /\ \A m \in n + 1 .. l : ~Changed(books, m, r)
Tallied(s) == \A r \in Runs : (s.runs[r] = None) <=> (s.retention[r] = None)
Accounted(b) ==
  \A l \in DOMAIN b.ledger :
    LET s == b.ledger[l].payload.state
    IN  /\ Tallied(s)
        /\ \A r \in Runs :
             s.runs[r] # None =>
               \E n \in 1 .. l : LastBy(b, n, l, r) /\ s.retention[r].stored = b.ledger[n].payload.time

SignedOnce == \A m, n \in DOMAIN signed : signed[m] = signed[n] => m = n
SignedExplains ==
  \A m \in DOMAIN signed :
    signed[m].previous # 0 =>
      /\ signed[m].previous \in DOMAIN signed
      /\ signed[m].changes = Changes(signed[signed[m].previous].state, signed[m].state)

BooksInv ==
  /\ \A b \in Known : Chain(b) /\ Honest(b) /\ Accounted(b)
  /\ \A b, d \in Known : OneHistory(b, d)
  /\ SignedOnce /\ SignedExplains

(* The holder of the lock is the one in a transaction, and its photograph  *)
(* is of the verified file.                                                *)
Locked == \A c \in Requests : lock = c <=> tx[c].phase = "open"
Opened ==
  \A c \in Requests :
    tx[c].phase = "open" => tx[c].before = state /\ tx[c].head = HeadOf /\ Verified

(* A kept head is the head of what it stood for.                           *)
Anchored ==
  \A k \in Keepers :
    anchors[k] # None =>
      LET image == anchors[k].image
      IN  /\ image.ledger # <<>> /\ image.state = image.ledger[Len(image.ledger)].payload.state
          /\ anchors[k].head = [sequence |-> Len(image.ledger), mac |-> image.ledger[Len(image.ledger)].mac]

Unaltered == (edits = 0 /\ strays = 0 /\ ledger # <<>>) => ledger[Len(ledger)].payload.state = state

Recorded ==
  edits = 0 =>
    \A c \in Requests :
      exporting[c] # None => \E n \in DOMAIN ledger : ledger[n].payload.event = exporting[c]

StoreInv == TypeOK /\ BooksInv /\ Locked /\ Opened /\ Anchored /\ Unaltered /\ Recorded /\ ReceiptBacked

-----------------------------------------------------------------------------
(* What a transaction writes.                                              *)

LEMMA EmptyState == Empty \in State
  BY DEF Empty, State

(* Nothing listed, nothing changed.                                        *)
LEMMA Unlisted ==
  ASSUME NEW a \in State, NEW b \in State, Changes(a, b) = {}
  PROVE  a = b
  <1>1. Altered("records", a.records, b.records) = {} /\ Altered("runs", a.runs, b.runs) = {}
        /\ Altered("retention", a.retention, b.retention) = {}
    BY DEF Changes
  <1>2. ASSUME NEW table, NEW D, NEW T, NEW f \in [D -> T], NEW g \in [D -> T], Altered(table, f, g) = {}
        PROVE  f = g
    <2> SUFFICES ASSUME NEW k \in D, f[k] # g[k] PROVE FALSE
      OBVIOUS
    <2>1. k \in {j \in DOMAIN f : f[j] # g[j]}
      OBVIOUS
    <2>2. [table |-> table, id |-> k, before |-> f[k], after |-> g[k]] \in Altered(table, f, g)
      BY <2>1 DEF Altered
    <2> QED BY <2>2, <1>2
  <1>3. a.records = b.records
    <2>1. a.records \in [Items -> Values \cup {None}] /\ b.records \in [Items -> Values \cup {None}]
      BY DEF State
    <2> QED BY <1>1, <1>2, <2>1, ZenonT(30)
  <1>4. a.runs = b.runs
    <2>1. a.runs \in [Runs -> Reports \cup {None}] /\ b.runs \in [Runs -> Reports \cup {None}]
      BY DEF State
    <2> QED BY <1>1, <1>2, <2>1, ZenonT(30)
  <1>5. a.retention = b.retention
    <2>1. a.retention \in [Runs -> Retained \cup {None}] /\ b.retention \in [Runs -> Retained \cup {None}]
      BY DEF State
    <2> QED BY <1>1, <1>2, <2>1, ZenonT(30)
  <1> QED BY <1>3, <1>4, <1>5 DEF State

LEMMA ChangesTyped ==
  ASSUME NEW a \in State, NEW b \in State
  PROVE  Changes(a, b) \in SUBSET Change
  <1>1. /\ a.records \in [Items -> Values \cup {None}] /\ b.records \in [Items -> Values \cup {None}]
        /\ a.runs \in [Runs -> Reports \cup {None}] /\ b.runs \in [Runs -> Reports \cup {None}]
        /\ a.retention \in [Runs -> Retained \cup {None}] /\ b.retention \in [Runs -> Retained \cup {None}]
    BY DEF State
  <1>2. ASSUME NEW table \in {"records", "runs", "retention"}, NEW D \in {Items, Runs},
               NEW T \in SUBSET Row, NEW f \in [D -> T], NEW g \in [D -> T]
        PROVE  Altered(table, f, g) \subseteq Change
    <2> SUFFICES ASSUME NEW k \in D
                 PROVE  [table |-> table, id |-> k, before |-> f[k], after |-> g[k]] \in Change
      BY DEF Altered
    <2> f[k] \in Row /\ g[k] \in Row /\ k \in Items \cup Runs
      OBVIOUS
    <2> QED BY DEF Change
  <1>3. /\ Values \cup {None} \in SUBSET Row /\ Reports \cup {None} \in SUBSET Row
        /\ Retained \cup {None} \in SUBSET Row
    BY DEF Row
  <1>4. Altered("records", a.records, b.records) \subseteq Change
    BY <1>1, <1>2, <1>3
  <1>5. Altered("runs", a.runs, b.runs) \subseteq Change
    BY <1>1, <1>2, <1>3
  <1>6. Altered("retention", a.retention, b.retention) \subseteq Change
    BY <1>1, <1>2, <1>3
  <1> QED BY <1>4, <1>5, <1>6 DEF Changes

(* Run r is listed exactly if it differs.                                  *)
LEMMA RunListed ==
  ASSUME NEW a \in State, NEW b \in State, NEW r \in Runs
  PROVE  (\E x \in Changes(a, b) : x.table = "runs" /\ x.id = r) <=> a.runs[r] # b.runs[r]
  <1>1. ASSUME a.runs[r] # b.runs[r]
        PROVE  \E x \in Changes(a, b) : x.table = "runs" /\ x.id = r
    <2>1. [table |-> "runs", id |-> r, before |-> a.runs[r], after |-> b.runs[r]] \in Altered("runs", a.runs, b.runs)
      BY <1>1 DEF Altered, State
    <2> QED BY <2>1 DEF Changes
  <1>2. ASSUME NEW x \in Changes(a, b), x.table = "runs", x.id = r
        PROVE  a.runs[r] # b.runs[r]
    <2>1. x \in Altered("runs", a.runs, b.runs)
      BY <1>2 DEF Changes, Altered
    <2> QED BY <2>1, <1>2 DEF Altered
  <1> QED BY <1>1, <1>2

(* The rows a body writes have their tables' types.                        *)
Rows(w) ==
  /\ w = [records |-> w.records, runs |-> w.runs, retention |-> w.retention]
  /\ \A i \in Items : i \in DOMAIN w.records => w.records[i] \in Values \cup {None}
  /\ \A r \in Runs : r \in DOMAIN w.runs => w.runs[r] \in Reports \cup {None}
  /\ \A r \in Runs : r \in DOMAIN w.retention => w.retention[r] \in Retained \cup {None}

LEMMA WrittenTyped ==
  ASSUME NEW s \in State, NEW w, Rows(w)
  PROVE  Written(s, w) \in State
  BY DEF Written, Overlaid, State, Rows

LEMMA BookkeptTyped ==
  ASSUME TypeOK, NEW s \in State, NEW body \in State
  PROVE  /\ Bookkept(s, body) \in State
         /\ Bookkept(s, body).runs = body.runs /\ Bookkept(s, body).records = body.records
         /\ \A r \in Runs :
              IF Dated(s, body, r)
              THEN Bookkept(s, body).retention[r] \in Retained /\ Bookkept(s, body).retention[r].stored = clock
              ELSE Bookkept(s, body).retention[r] = body.retention[r]
  <1> DEFINE kept == [r \in Runs |->
        IF Dated(s, body, r)
        THEN [stored |-> clock, held |-> body.retention[r] # None /\ body.retention[r].held]
        ELSE body.retention[r]]
  <1>1. Bookkept(s, body) = [body EXCEPT !.retention = kept]
    BY DEF Bookkept
  <1>2. \A r \in Runs : body.retention[r] \in Retained \cup {None}
    BY DEF State
  <1>3. \A r \in Runs :
          IF Dated(s, body, r) THEN kept[r] \in Retained /\ kept[r].stored = clock
          ELSE kept[r] = body.retention[r]
    <2> SUFFICES ASSUME NEW r \in Runs, Dated(s, body, r)
                 PROVE  kept[r] \in Retained /\ kept[r].stored = clock
      OBVIOUS
    <2>1. clock \in Nat
      BY DEF TypeOK
    <2>2. CASE body.retention[r] = None
      BY <2>1, <2>2, <1>2 DEF Retained
    <2>3. CASE body.retention[r] # None
      <3>1. body.retention[r].held \in BOOLEAN
        BY <2>3, <1>2 DEF Retained
      <3> QED BY <3>1, <2>1, <1>2 DEF Retained
    <2> QED BY <2>2, <2>3
  <1>4. kept \in [Runs -> Retained \cup {None}]
    BY <1>2, <1>3
  <1> HIDE DEF kept
  <1>5. body = [records |-> body.records, runs |-> body.runs, retention |-> body.retention]
    BY DEF State
  <1>6. Bookkept(s, body) = [records |-> body.records, runs |-> body.runs, retention |-> kept]
    BY <1>1, <1>5
  <1> QED BY <1>3, <1>4, <1>6 DEF State

(* Writing nothing changes nothing.                                        *)
LEMMA NothingWritten ==
  ASSUME TypeOK, NEW s \in State
  PROVE  Written(s, NoWrites) = s /\ Bookkept(s, s) = s
  <1>1. Written(s, NoWrites) \in State
    BY WrittenTyped DEF NoWrites, Rows
  <1>2. Written(s, NoWrites) = s
    BY <1>1 DEF Written, NoWrites, Overlaid, State
  <1>3. /\ Bookkept(s, s) \in State /\ Bookkept(s, s).runs = s.runs /\ Bookkept(s, s).records = s.records
        /\ \A r \in Runs : Bookkept(s, s).retention[r] = s.retention[r]
    BY BookkeptTyped DEF Dated
  <1>4. Bookkept(s, s).retention = s.retention
    BY <1>3 DEF State
  <1> QED BY <1>2, <1>3, <1>4 DEF State

-----------------------------------------------------------------------------
(* The ledgers.                                                            *)

(* Signing leaves what was signed, and a payload has one MAC.              *)
LEMMA Signing ==
  ASSUME TypeOK, SignedOnce, NEW payload \in Payload, NEW mac \in Nat, Signs(payload, mac)
  PROVE  /\ DOMAIN signed \subseteq DOMAIN signed' /\ \A m \in DOMAIN signed : signed'[m] = signed[m]
         /\ mac \in DOMAIN signed' /\ signed'[mac] = payload /\ mac # 0
         /\ signed' \in Seq(Payload) /\ SignedOnce'
         /\ \A m \in DOMAIN signed' : m \in DOMAIN signed \/ m = mac
  <1>1. signed \in Seq(Payload)
    BY DEF TypeOK
  <1>2. CASE mac \in DOMAIN signed /\ signed[mac] = payload /\ UNCHANGED signed
    BY <1>1, <1>2 DEF SignedOnce
  <1>3. CASE /\ \A m \in DOMAIN signed : signed[m] # payload
             /\ mac = Len(signed) + 1 /\ signed' = Append(signed, payload)
    <2>1. /\ DOMAIN signed = 1 .. Len(signed) /\ DOMAIN signed' = 1 .. Len(signed) + 1
          /\ \A m \in DOMAIN signed : signed'[m] = signed[m]
          /\ signed'[mac] = payload /\ Len(signed) \in Nat /\ signed' \in Seq(Payload)
      BY <1>1, <1>3
    <2> QED BY <1>1, <1>3, <2>1 DEF SignedOnce
  <1> QED BY <1>2, <1>3 DEF Signs

(* Taking books away, or entries off their end, keeps them in order.       *)
LEMMA FewerBooks ==
  ASSUME BooksInv, Known' \subseteq Known, UNCHANGED signed
  PROVE  BooksInv'
  BY DEF BooksInv, Chain, Honest, Accounted, SignedOnce, SignedExplains, OneHistory, LastBy, Changed, Tallied

LEMMA BooksTyped ==
  ASSUME TypeOK, NEW b \in Known
  PROVE  b.ledger \in Seq(Entry) /\ b.honest \in Seq(State)
  <1>1. CASE b = Books(ThisImage)
    BY <1>1 DEF Books, ThisImage, TypeOK
  <1>2. CASE \E x \in {saved} \ {None} : b = Books(x)
    BY <1>2 DEF Books, TypeOK, Image
  <1>3. CASE \E k \in Keepers : anchors[k] # None /\ b = Books(anchors[k].image)
    BY <1>3 DEF Books, TypeOK, Image, Anchor
  <1> QED BY <1>1, <1>2, <1>3 DEF Known

LEMMA LastTyped ==
  ASSUME TypeOK, ledger # <<>>
  PROVE  /\ Len(ledger) \in Nat \ {0} /\ Len(ledger) \in DOMAIN ledger
         /\ ledger[Len(ledger)].payload \in Payload /\ ledger[Len(ledger)].payload.state \in State
         /\ ledger[Len(ledger)].mac \in Nat /\ HeadOf \in Checkpoint
  <1>1. Len(ledger) \in Nat \ {0} /\ Len(ledger) \in DOMAIN ledger /\ ledger[Len(ledger)] \in Entry
    BY DEF TypeOK
  <1>2. ledger[Len(ledger)].payload \in Payload /\ ledger[Len(ledger)].mac \in Nat
    BY <1>1 DEF Entry, Mac
  <1>3. ledger[Len(ledger)].payload.state \in State
    BY <1>2 DEF Payload
  <1> QED BY <1>1, <1>2, <1>3 DEF HeadOf, Checkpoint, Mac

(* The entry a transaction appends.                                        *)
Aged(old, payload) ==
  \A r \in Runs :
    payload.state.runs[r] # None =>
      payload.state.retention[r].stored =
        IF payload.state.runs[r] = old.runs[r] THEN old.retention[r].stored ELSE payload.time
Committed(payload, mac) ==
  /\ payload \in Payload /\ mac \in Nat /\ Signs(payload, mac)
  /\ ledger' = Append(ledger, [payload |-> payload, mac |-> mac])
  /\ honest' = Append(SubSeq(honest, 1, Len(ledger)), payload.state)
  /\ payload.sequence = Len(ledger) + 1 /\ Tallied(payload.state)
  /\ ledger = <<>> => payload.previous = 0 /\ payload.state = Empty
  /\ ledger # <<>> =>
       LET last == ledger[Len(ledger)]
       IN  /\ payload.previous = last.mac
           /\ payload.changes = Changes(last.payload.state, payload.state)
           /\ Aged(last.payload.state, payload)

LEMMA CommitAppends ==
  ASSUME TypeOK, BooksInv, NEW payload, NEW mac, Committed(payload, mac)
  PROVE  /\ ledger \in Seq(Entry) /\ ledger' \in Seq(Entry) /\ Len(ledger) \in Nat
         /\ DOMAIN ledger = 1 .. Len(ledger) /\ DOMAIN ledger' = 1 .. Len(ledger) + 1
         /\ Len(ledger') = Len(ledger) + 1
         /\ \A n \in DOMAIN ledger : ledger'[n] = ledger[n]
         /\ ledger'[Len(ledger) + 1] = [payload |-> payload, mac |-> mac]
         /\ honest' \in Seq(State) /\ Len(honest') = Len(ledger) + 1
         /\ \A n \in DOMAIN ledger : honest'[n] = honest[n]
         /\ honest'[Len(ledger) + 1] = payload.state
  <1>1. ledger \in Seq(Entry) /\ [payload |-> payload, mac |-> mac] \in Entry
    BY DEF TypeOK, Committed, Entry, Mac
  <1>2. honest \in Seq(State) /\ Len(ledger) <= Len(honest) /\ payload.state \in State
    <2>1. Books(ThisImage) \in Known
      BY DEF Known
    <2> QED BY <2>1 DEF TypeOK, BooksInv, Honest, Books, ThisImage, Committed, Payload
  <1>3. ledger' = Append(ledger, [payload |-> payload, mac |-> mac])
    BY DEF Committed
  <1>4. honest' = Append(SubSeq(honest, 1, Len(ledger)), payload.state)
    BY DEF Committed
  <1>5. SubSeq(honest, 1, Len(ledger)) \in Seq(State) /\ Len(SubSeq(honest, 1, Len(ledger))) = Len(ledger)
        /\ \A n \in 1 .. Len(ledger) : SubSeq(honest, 1, Len(ledger))[n] = honest[n]
    BY <1>1, <1>2
  <1>6. /\ ledger' \in Seq(Entry) /\ Len(ledger) \in Nat
        /\ DOMAIN ledger = 1 .. Len(ledger) /\ DOMAIN ledger' = 1 .. Len(ledger) + 1
        /\ Len(ledger') = Len(ledger) + 1
        /\ \A n \in DOMAIN ledger : ledger'[n] = ledger[n]
        /\ ledger'[Len(ledger) + 1] = [payload |-> payload, mac |-> mac]
    BY <1>1, <1>3
  <1>7. /\ honest' \in Seq(State) /\ Len(honest') = Len(ledger) + 1
        /\ \A n \in 1 .. Len(ledger) : honest'[n] = honest[n]
        /\ honest'[Len(ledger) + 1] = payload.state
    BY <1>2, <1>4, <1>5
  <1> QED BY <1>1, <1>6, <1>7

(* The books in the file, before and after.                                *)
LEMMA OwnBooks ==
  /\ Books(ThisImage) \in Known
  /\ Books(ThisImage).ledger = ledger /\ Books(ThisImage).honest = honest
  BY DEF Known, Books, ThisImage

LEMMA CommitChains ==
  ASSUME TypeOK, BooksInv, NEW payload, NEW mac, Committed(payload, mac),
         NEW new, new = [ledger |-> ledger', honest |-> honest']
  PROVE  /\ SignedOnce' /\ SignedExplains'
         /\ \A b \in Known : Chain(b)'
         /\ Chain(new)'
  <1>a. /\ Len(ledger) \in Nat /\ DOMAIN ledger = 1 .. Len(ledger) /\ DOMAIN ledger' = 1 .. Len(ledger) + 1
        /\ \A n \in 1 .. Len(ledger) : ledger'[n] = ledger[n]
        /\ ledger'[Len(ledger) + 1] = [payload |-> payload, mac |-> mac]
    BY CommitAppends
  <1>1. Chain(Books(ThisImage))
    BY OwnBooks DEF BooksInv
  <1>2. /\ DOMAIN signed \subseteq DOMAIN signed' /\ \A m \in DOMAIN signed : signed'[m] = signed[m]
        /\ mac \in DOMAIN signed' /\ signed'[mac] = payload /\ SignedOnce'
        /\ \A m \in DOMAIN signed' : m \in DOMAIN signed \/ m = mac
    BY Signing DEF BooksInv, Committed
  <1>3. \A n \in DOMAIN ledger :
          /\ ledger[n].mac \in DOMAIN signed /\ signed[ledger[n].mac] = ledger[n].payload
          /\ ledger[n].payload.sequence = n
          /\ ledger[n].payload.previous = IF n = 1 THEN 0 ELSE ledger[n - 1].mac
    BY <1>1, OwnBooks DEF Chain
  <1>4. SignedExplains'
    <2> SUFFICES ASSUME NEW m \in DOMAIN signed', signed'[m].previous # 0
                 PROVE  /\ signed'[m].previous \in DOMAIN signed'
                        /\ signed'[m].changes = Changes(signed'[signed'[m].previous].state, signed'[m].state)
      BY DEF SignedExplains
    <2>1. CASE m \in DOMAIN signed
      BY <1>2, <2>1 DEF BooksInv, SignedExplains
    <2>2. CASE m = mac
      <3>1. /\ ledger # <<>> /\ payload.previous = ledger[Len(ledger)].mac
            /\ payload.changes = Changes(ledger[Len(ledger)].payload.state, payload.state)
        BY <1>2, <2>2 DEF Committed
      <3>2. Len(ledger) \in DOMAIN ledger
        BY <3>1 DEF TypeOK
      <3> QED BY <1>2, <1>3, <2>2, <3>1, <3>2
    <2> QED BY <1>2, <2>1, <2>2
  <1>5. \A b \in Known : Chain(b)'
    BY <1>2 DEF BooksInv, Chain
  <1>6. Chain(new)'
    <2> SUFFICES ASSUME NEW n \in DOMAIN ledger'
                 PROVE  /\ ledger'[n].mac \in DOMAIN signed' /\ signed'[ledger'[n].mac] = ledger'[n].payload
                        /\ ledger'[n].payload.sequence = n
                        /\ ledger'[n].payload.previous = IF n = 1 THEN 0 ELSE ledger'[n - 1].mac
      BY DEF Chain
    <2>1. CASE n \in DOMAIN ledger
      <3>1. ledger'[n] = ledger[n] /\ (n # 1 => n - 1 \in DOMAIN ledger)
        BY <1>a, <2>1
      <3>2. n # 1 => ledger'[n - 1] = ledger[n - 1]
        BY <1>a, <3>1
      <3> QED BY <1>2, <1>3, <2>1, <3>1, <3>2
    <2>2. CASE n = Len(ledger) + 1
      <3>1. ledger'[n] = [payload |-> payload, mac |-> mac] /\ payload.sequence = n
        BY <1>a, <2>2 DEF Committed
      <3>2. CASE ledger = <<>>
        BY <1>2, <2>2, <3>1, <3>2 DEF Committed
      <3>3. CASE ledger # <<>>
        <4>1. n # 1 /\ n - 1 = Len(ledger) /\ n - 1 \in DOMAIN ledger
          BY <1>a, <2>2, <3>3 DEF TypeOK
        <4>2. ledger'[n - 1] = ledger[Len(ledger)]
          BY <1>a, <4>1
        <4>3. payload.previous = ledger[Len(ledger)].mac
          BY <3>3 DEF Committed
        <4> QED BY <1>2, <3>1, <4>1, <4>2, <4>3
      <3> QED BY <3>2, <3>3
    <2> QED BY <1>a, <2>1, <2>2
  <1> QED BY <1>2, <1>4, <1>5, <1>6

LEMMA CommitHonest ==
  ASSUME TypeOK, BooksInv, NEW payload, NEW mac, Committed(payload, mac),
         NEW new, new = [ledger |-> ledger', honest |-> honest']
  PROVE  Honest(new)
  <1>1. Honest(Books(ThisImage))
    BY OwnBooks DEF BooksInv
  <1>2. \A n \in DOMAIN ledger : honest[n] = ledger[n].payload.state
    BY <1>1, OwnBooks DEF Honest
  <1>3. /\ Len(ledger) \in Nat /\ DOMAIN ledger = 1 .. Len(ledger) /\ DOMAIN ledger' = 1 .. Len(ledger) + 1
        /\ Len(ledger') = Len(ledger) + 1 /\ Len(honest') = Len(ledger) + 1
        /\ \A n \in 1 .. Len(ledger) : ledger'[n] = ledger[n] /\ honest'[n] = honest[n]
        /\ ledger'[Len(ledger) + 1] = [payload |-> payload, mac |-> mac]
        /\ honest'[Len(ledger) + 1] = payload.state
    BY CommitAppends
  <1> QED BY <1>2, <1>3 DEF Honest

(* An entry that repeats a MAC repeats the entry, and by its link the      *)
(* history before it.                                                      *)
LEMMA CommitRepeats ==
  ASSUME TypeOK, BooksInv, NEW payload, NEW mac, Committed(payload, mac),
         NEW b \in Known, NEW j \in DOMAIN b.ledger, b.ledger[j].mac = mac
  PROVE  j = Len(ledger) + 1 /\ \A n \in 1 .. j : b.ledger[n] = ledger'[n]
  <1>1. /\ mac \in DOMAIN signed /\ signed[mac] = b.ledger[j].payload /\ b.ledger[j].payload.sequence = j
        /\ b.ledger[j].payload.previous = IF j = 1 THEN 0 ELSE b.ledger[j - 1].mac
    BY DEF BooksInv, Chain
  <1>2. b.ledger[j].payload = payload
    <2>1. signed'[mac] = payload /\ signed'[mac] = signed[mac]
      BY <1>1, Signing DEF BooksInv, Committed
    <2> QED BY <1>1, <2>1
  <1>3. j = Len(ledger) + 1
    BY <1>1, <1>2 DEF Committed
  <1>4. b.ledger \in Seq(Entry)
    BY BooksTyped
  <1>5. b.ledger[j] = ledger'[j]
    <2>1. b.ledger[j] \in Entry
      BY <1>4
    <2>2. b.ledger[j] = [payload |-> payload, mac |-> mac]
      BY <1>2, <2>1 DEF Entry
    <2> QED BY <1>3, <2>2, CommitAppends
  <1>6. CASE j = 1
    BY <1>3, <1>5, <1>6
  <1>7. CASE j # 1
    <2>1. ledger # <<>> /\ j - 1 = Len(ledger) /\ j - 1 \in DOMAIN ledger /\ j - 1 \in DOMAIN b.ledger
      BY <1>3, <1>4, <1>7, CommitAppends
    <2>2. b.ledger[j - 1].mac = ledger[Len(ledger)].mac
      BY <1>1, <1>2, <1>7, <2>1 DEF Committed
    <2>3. OneHistory(b, Books(ThisImage))
      BY OwnBooks DEF BooksInv
    <2>4. \A n \in 1 .. j - 1 : b.ledger[n] = ledger[n]
      BY <2>1, <2>2, <2>3, OwnBooks DEF OneHistory
    <2>5. \A n \in 1 .. j - 1 : b.ledger[n] = ledger'[n]
      BY <2>1, <2>4, CommitAppends
    <2> QED BY <1>3, <1>5, <2>5, CommitAppends
  <1> QED BY <1>3, <1>6, <1>7

LEMMA CommitOneHistory ==
  ASSUME TypeOK, BooksInv, NEW payload, NEW mac, Committed(payload, mac),
         NEW new, new = [ledger |-> ledger', honest |-> honest'], NEW b \in Known
  PROVE  OneHistory(b, new) /\ OneHistory(new, b)
  <1>1. /\ Len(ledger) \in Nat /\ DOMAIN ledger = 1 .. Len(ledger) /\ DOMAIN ledger' = 1 .. Len(ledger) + 1
        /\ \A n \in 1 .. Len(ledger) : ledger'[n] = ledger[n]
        /\ ledger'[Len(ledger) + 1] = [payload |-> payload, mac |-> mac]
    BY CommitAppends
  <1>2. ASSUME NEW i \in DOMAIN b.ledger, NEW j \in DOMAIN ledger', b.ledger[i].mac = ledger'[j].mac
        PROVE  i = j /\ \A n \in 1 .. i : b.ledger[n] = ledger'[n]
    <2>1. CASE j \in 1 .. Len(ledger)
      <3>1. OneHistory(b, Books(ThisImage))
        BY OwnBooks DEF BooksInv
      <3>2. i = j /\ \A n \in 1 .. i : b.ledger[n] = ledger[n]
        BY <1>1, <1>2, <2>1, <3>1, OwnBooks DEF OneHistory
      <3> QED BY <1>1, <2>1, <3>2
    <2>2. CASE j = Len(ledger) + 1
      <3>1. b.ledger[i].mac = mac
        BY <1>1, <1>2, <2>2
      <3> QED BY <2>2, <3>1, CommitRepeats
    <2> QED BY <1>1, <2>1, <2>2
  <1>3. OneHistory(b, new)
    BY <1>2 DEF OneHistory
  <1>4. OneHistory(new, b)
    BY <1>2 DEF OneHistory
  <1> QED BY <1>3, <1>4

LEMMA CommitAlone ==
  ASSUME TypeOK, BooksInv, NEW payload, NEW mac, Committed(payload, mac),
         NEW new, new = [ledger |-> ledger', honest |-> honest']
  PROVE  OneHistory(new, new)
  <1>1. /\ Len(ledger) \in Nat /\ DOMAIN ledger = 1 .. Len(ledger) /\ DOMAIN ledger' = 1 .. Len(ledger) + 1
        /\ \A n \in 1 .. Len(ledger) : ledger'[n] = ledger[n]
        /\ ledger'[Len(ledger) + 1] = [payload |-> payload, mac |-> mac]
    BY CommitAppends
  <1>2. OneHistory(Books(ThisImage), new) /\ OneHistory(new, Books(ThisImage))
    BY OwnBooks, CommitOneHistory
  <1> SUFFICES ASSUME NEW i \in DOMAIN ledger', NEW j \in DOMAIN ledger', ledger'[i].mac = ledger'[j].mac
               PROVE  i = j
    BY DEF OneHistory
  <1>3. CASE i \in 1 .. Len(ledger)
    BY <1>1, <1>2, <1>3, OwnBooks DEF OneHistory
  <1>4. CASE j \in 1 .. Len(ledger)
    BY <1>1, <1>2, <1>4, OwnBooks DEF OneHistory
  <1> QED BY <1>1, <1>3, <1>4

(* A run is dated by the entry that last changed it.                       *)
LEMMA CommitAccounted ==
  ASSUME TypeOK, BooksInv, NEW payload, NEW mac, Committed(payload, mac),
         NEW new, new = [ledger |-> ledger', honest |-> honest']
  PROVE  Accounted(new)
  <1> DEFINE own == Books(ThisImage)
             top == Len(ledger) + 1
  <1>1. /\ Len(ledger) \in Nat /\ DOMAIN ledger = 1 .. Len(ledger) /\ DOMAIN ledger' = 1 .. Len(ledger) + 1
        /\ \A n \in 1 .. Len(ledger) : ledger'[n] = ledger[n]
        /\ ledger'[top] = [payload |-> payload, mac |-> mac]
    BY CommitAppends
  <1>2. Accounted(own) /\ own.ledger = ledger /\ new.ledger = ledger'
    BY OwnBooks DEF BooksInv
  <1>3. \A n \in 1 .. Len(ledger), r \in Runs : Changed(new, n, r) <=> Changed(own, n, r)
    BY <1>1, <1>2 DEF Changed
  <1>4. ASSUME NEW l \in 1 .. Len(ledger)
        PROVE  LET s == ledger'[l].payload.state
               IN  /\ Tallied(s)
                   /\ \A r \in Runs :
                        s.runs[r] # None =>
                          \E n \in 1 .. l : LastBy(new, n, l, r) /\ s.retention[r].stored = ledger'[n].payload.time
    <2> DEFINE s == ledger[l].payload.state
    <2>1. Tallied(s) /\ ledger'[l].payload.state = s
      BY <1>1, <1>2 DEF Accounted
    <2>2. ASSUME NEW r \in Runs, s.runs[r] # None
          PROVE  \E n \in 1 .. l : LastBy(new, n, l, r) /\ s.retention[r].stored = ledger'[n].payload.time
      <3>1. PICK n \in 1 .. l : LastBy(own, n, l, r) /\ s.retention[r].stored = ledger[n].payload.time
        BY <1>1, <1>2, <2>2 DEF Accounted
      <3>2. LastBy(new, n, l, r)
        BY <1>3, <3>1 DEF LastBy
      <3> QED BY <1>1, <3>1, <3>2
    <2> QED BY <2>1, <2>2
  <1>5. payload.state \in State
    BY DEF Committed, Payload
  <1>6. ASSUME NEW r \in Runs, payload.state.runs[r] # None
        PROVE  \E n \in 1 .. top : LastBy(new, n, top, r) /\ payload.state.retention[r].stored = ledger'[n].payload.time
    <2> DEFINE old == ledger[Len(ledger)].payload.state
    <2>1. ledger # <<>>
      BY <1>6 DEF Committed, Empty
    <2>2. Len(ledger) \in 1 .. Len(ledger) /\ old \in State
      BY <1>1, <2>1, LastTyped
    <2>3. /\ payload.changes = Changes(old, payload.state)
          /\ payload.state.retention[r].stored =
               IF payload.state.runs[r] = old.runs[r] THEN old.retention[r].stored ELSE payload.time
      BY <1>6, <2>1 DEF Committed, Aged
    <2>4. Changed(new, top, r) <=> old.runs[r] # payload.state.runs[r]
      BY <1>1, <1>2, <1>5, <2>2, <2>3, RunListed DEF Changed
    <2>5. CASE payload.state.runs[r] # old.runs[r]
      <3>1. LastBy(new, top, top, r)
        BY <1>1, <2>4, <2>5 DEF LastBy
      <3> QED BY <1>1, <2>3, <2>5, <3>1
    <2>6. CASE payload.state.runs[r] = old.runs[r]
      <3>1. PICK n \in 1 .. Len(ledger) :
              LastBy(own, n, Len(ledger), r) /\ old.retention[r].stored = ledger[n].payload.time
        BY <1>1, <1>2, <1>6, <2>2, <2>6 DEF Accounted
      <3>2. LastBy(new, n, top, r)
        <4>1. Changed(new, n, r) /\ \A m \in n + 1 .. Len(ledger) : ~Changed(new, m, r)
          BY <1>1, <1>3, <3>1 DEF LastBy
        <4>2. ~Changed(new, top, r)
          BY <2>4, <2>6
        <4>3. \A m \in n + 1 .. top : m \in n + 1 .. Len(ledger) \/ m = top
          BY <1>1
        <4> QED BY <4>1, <4>2, <4>3 DEF LastBy
      <3> QED BY <1>1, <2>3, <2>6, <3>1, <3>2
    <2> QED BY <2>5, <2>6
  <1>7. Tallied(payload.state)
    BY DEF Committed
  <1> SUFFICES ASSUME NEW l \in DOMAIN ledger'
               PROVE  LET s == ledger'[l].payload.state
                      IN  /\ Tallied(s)
                          /\ \A r \in Runs :
                               s.runs[r] # None =>
                                 \E n \in 1 .. l : LastBy(new, n, l, r) /\ s.retention[r].stored = ledger'[n].payload.time
    BY <1>2 DEF Accounted
  <1>8. CASE l = top
    BY <1>1, <1>6, <1>7, <1>8
  <1> QED BY <1>1, <1>4, <1>8

LEMMA CommitKeepsBooks ==
  ASSUME TypeOK, BooksInv, NEW payload, NEW mac, Committed(payload, mac),
         Known' \subseteq Known \cup {[ledger |-> ledger', honest |-> honest']}
  PROVE  BooksInv'
  <1>1. ASSUME NEW b \in Known'
        PROVE  Chain(b)' /\ Honest(b) /\ Accounted(b)
    <2>1. CASE b \in Known
      BY <2>1, CommitChains DEF BooksInv
    <2>2. CASE b = [ledger |-> ledger', honest |-> honest']
      BY <2>2, CommitChains, CommitHonest, CommitAccounted
    <2> QED BY <2>1, <2>2
  <1>2. ASSUME NEW b \in Known', NEW d \in Known'
        PROVE  OneHistory(b, d)
    <2>1. CASE b \in Known /\ d \in Known
      BY <2>1 DEF BooksInv
    <2>2. CASE b = [ledger |-> ledger', honest |-> honest'] /\ d = b
      BY <2>2, CommitAlone
    <2>3. CASE b = [ledger |-> ledger', honest |-> honest'] /\ d \in Known
      BY <2>3, CommitOneHistory
    <2>4. CASE d = [ledger |-> ledger', honest |-> honest'] /\ b \in Known
      BY <2>4, CommitOneHistory
    <2> QED BY <2>1, <2>2, <2>3, <2>4
  <1>3. SignedOnce' /\ SignedExplains'
    BY CommitChains
  <1>4. \A b \in Known' : Chain(b)' /\ Honest(b)' /\ Accounted(b)'
    BY <1>1 DEF Honest, Accounted, LastBy, Changed, Tallied
  <1>5. \A b, d \in Known' : OneHistory(b, d)'
    BY <1>2 DEF OneHistory
  <1> QED BY <1>3, <1>4, <1>5 DEF BooksInv

-----------------------------------------------------------------------------
(* A transaction's end.                                                    *)

(* A body deletes a run with its bookkeeping, and leaves the age of a run  *)
(* that it leaves.                                                         *)
Lawful(w) ==
  /\ Rows(w)
  /\ LET body == Written(state, w)
     IN  \A r \in Runs :
           /\ body.runs[r] = None => body.retention[r] = None
           /\ (body.runs[r] # None /\ body.runs[r] = state.runs[r]) =>
                body.retention[r] # None /\ body.retention[r].stored = state.retention[r].stored

(* What a transaction works on is what its ledger certifies.               *)
LEMMA WorksOnCertified ==
  ASSUME TypeOK, BooksInv, Opened, NEW c \in Requests, tx[c].phase = "open"
  PROVE  /\ tx[c].before = state /\ tx[c].head = HeadOf
         /\ ledger # <<>> /\ ledger[Len(ledger)].payload.state = state
         /\ honest[Len(ledger)] = state /\ state \in State /\ Tallied(state)
  <1>1. tx[c].before = state /\ tx[c].head = HeadOf /\ Verified
    BY DEF Opened
  <1>2. ledger # <<>> /\ ledger[Len(ledger)].payload.state = state
    BY <1>1 DEF Verified
  <1>3. Len(ledger) \in DOMAIN ledger
    BY <1>2, LastTyped
  <1>4. honest[Len(ledger)] = state /\ Tallied(state)
    BY <1>2, <1>3, OwnBooks DEF BooksInv, Honest, Accounted
  <1> QED BY <1>1, <1>2, <1>4 DEF TypeOK

LEMMA ExitWrites ==
  ASSUME TypeOK, BooksInv, Opened, NEW c \in Requests, NEW w, NEW event \in Events \cup {None},
         Exit(c, w, event), Lawful(w)
  PROVE  \/ UNCHANGED <<state, ledger, signed, honest>> /\ event = None
         \/ \E payload, mac : /\ Committed(payload, mac) /\ state' = payload.state
                              /\ event # None => payload.event = event
  <1> DEFINE body    == Written(state, w)
             after   == Bookkept(state, body)
             listed  == Changes(state, after)
             named   == IF event = None THEN "state_change" ELSE event
             payload == [sequence |-> Len(ledger) + 1, previous |-> ledger[Len(ledger)].mac, time |-> clock,
                         event |-> named, changes |-> listed, state |-> after]
  <1>1. /\ tx[c].phase = "open" /\ tx[c].before = state /\ tx[c].head = HeadOf
        /\ ledger # <<>> /\ ledger[Len(ledger)].payload.state = state
        /\ honest[Len(ledger)] = state /\ state \in State /\ Tallied(state)
    BY WorksOnCertified DEF Exit
  <1>2. body \in State
    BY <1>1, WrittenTyped DEF Lawful
  <1>3. /\ after \in State /\ after.runs = body.runs
        /\ \A r \in Runs :
             IF Dated(state, body, r) THEN after.retention[r] \in Retained /\ after.retention[r].stored = clock
             ELSE after.retention[r] = body.retention[r]
    BY <1>1, <1>2, BookkeptTyped
  <1>4. /\ state' = after
        /\ IF listed # {} \/ event # None
           THEN Appends(HeadOf, after, listed, named) /\ HonestlyWritten(w)
           ELSE UNCHANGED <<ledger, signed, honest>>
    BY <1>1 DEF Exit, Listed, Certified
  <1>5. CASE listed = {} /\ event = None
    BY <1>1, <1>3, <1>4, <1>5, Unlisted
  <1>6. CASE listed # {} \/ event # None
    <2>1. PICK mac \in 1 .. Len(signed) + 1 :
            Signs(payload, mac) /\ ledger' = Append(ledger, [payload |-> payload, mac |-> mac])
      BY <1>4, <1>6 DEF Appends, HeadOf
    <2>2. honest' = Append(SubSeq(honest, 1, Len(ledger)), after)
      BY <1>1, <1>4, <1>6 DEF HonestlyWritten
    <2>3. payload \in Payload
      <3>1. listed \in SUBSET Change
        BY <1>1, <1>3, ChangesTyped
      <3>2. /\ Len(ledger) + 1 \in Nat /\ ledger[Len(ledger)].mac \in Nat /\ clock \in Nat
        BY <1>1, LastTyped DEF TypeOK
      <3>3. named \in Events
        BY DEF Events
      <3> QED BY <1>3, <3>1, <3>2, <3>3 DEF Payload, Mac
    <2>4. ASSUME NEW r \in Runs
          PROVE  (after.runs[r] = None) <=> (after.retention[r] = None)
      <3>1. CASE Dated(state, body, r)
        <4>1. after.retention[r] \in Retained
          BY <1>3, <3>1
        <4> QED BY <1>3, <3>1, <4>1, RowsAssumption DEF Dated, Retained
      <3>2. CASE ~Dated(state, body, r)
        BY <1>3, <3>2 DEF Dated, Lawful
      <3> QED BY <3>1, <3>2
    <2>5. Aged(state, payload)
      <3> SUFFICES ASSUME NEW r \in Runs, after.runs[r] # None
                   PROVE  after.retention[r].stored =
                            IF after.runs[r] = state.runs[r] THEN state.retention[r].stored ELSE clock
        BY DEF Aged
      <3>1. CASE after.runs[r] = state.runs[r]
        BY <1>3, <3>1 DEF Dated, Lawful
      <3>2. CASE after.runs[r] # state.runs[r]
        BY <1>3, <3>2 DEF Dated
      <3> QED BY <3>1, <3>2
    <2>6. mac \in Nat
      BY DEF TypeOK
    <2>7. Committed(payload, mac)
      BY <1>1, <2>1, <2>2, <2>3, <2>4, <2>5, <2>6 DEF Committed, Tallied
    <2> QED BY <1>4, <2>7
  <1> QED BY <1>5, <1>6

-----------------------------------------------------------------------------
(* The operations.                                                         *)

LEMMA NoRows == DOMAIN NoWrites.records = {} /\ DOMAIN NoWrites.runs = {} /\ DOMAIN NoWrites.retention = {}
  BY DEF NoWrites

LEMMA TwoTables ==
  ASSUME NEW runs, NEW other
  PROVE  /\ [NoWrites EXCEPT !.runs = runs, !.records = other] =
              [records |-> other, runs |-> runs, retention |-> NoWrites.retention]
         /\ [NoWrites EXCEPT !.runs = runs, !.retention = other] =
              [records |-> NoWrites.records, runs |-> runs, retention |-> other]
  <1> DEFINE w == [NoWrites EXCEPT !.runs = runs]
  <1>1. w = [records |-> NoWrites.records, runs |-> runs, retention |-> NoWrites.retention]
    BY DEF NoWrites
  <1>2. /\ [NoWrites EXCEPT !.runs = runs, !.records = other] = [w EXCEPT !.records = other]
        /\ [NoWrites EXCEPT !.runs = runs, !.retention = other] = [w EXCEPT !.retention = other]
    OBVIOUS
  <1> HIDE DEF w
  <1>3. [w EXCEPT !.records = other] = [records |-> other, runs |-> runs, retention |-> NoWrites.retention]
    BY <1>1
  <1>4. [w EXCEPT !.retention = other] = [records |-> NoWrites.records, runs |-> runs, retention |-> other]
    BY <1>1
  <1> QED BY <1>2, <1>3, <1>4

LEMMA Overlay ==
  ASSUME NEW s \in State, NEW w, NEW r \in Runs
  PROVE  /\ Written(s, w).runs[r] = IF r \in DOMAIN w.runs THEN w.runs[r] ELSE s.runs[r]
         /\ Written(s, w).retention[r] = IF r \in DOMAIN w.retention THEN w.retention[r] ELSE s.retention[r]
  BY DEF Written, Overlaid, State

LEMMA LawfulWhen ==
  ASSUME TypeOK, Tallied(state), NEW w, Rows(w),
         \A r \in Runs :
           /\ r \in DOMAIN w.runs /\ w.runs[r] = None => r \in DOMAIN w.retention /\ w.retention[r] = None
           /\ r \in DOMAIN w.retention =>
                \/ w.retention[r] = None /\ r \in DOMAIN w.runs /\ w.runs[r] = None
                \/ /\ r \notin DOMAIN w.runs /\ w.retention[r] \in Retained /\ state.retention[r] # None
                   /\ w.retention[r].stored = state.retention[r].stored
  PROVE  Lawful(w)
  <1> state \in State
    BY DEF TypeOK
  <1> SUFFICES ASSUME NEW r \in Runs
               PROVE  LET body == Written(state, w)
                      IN  /\ body.runs[r] = None => body.retention[r] = None
                          /\ (body.runs[r] # None /\ body.runs[r] = state.runs[r]) =>
                               body.retention[r] # None /\ body.retention[r].stored = state.retention[r].stored
    BY DEF Lawful
  <1>1. (state.runs[r] = None) <=> (state.retention[r] = None)
    BY DEF Tallied
  <1>2. \A x \in Retained : x # None
    BY RowsAssumption DEF Retained
  <1> DEFINE runs == Written(state, w).runs[r]
             kept == Written(state, w).retention[r]
  <1>3. /\ runs = IF r \in DOMAIN w.runs THEN w.runs[r] ELSE state.runs[r]
        /\ kept = IF r \in DOMAIN w.retention THEN w.retention[r] ELSE state.retention[r]
    BY Overlay
  <1> HIDE DEF runs, kept
  <1>4. /\ runs = None => kept = None
        /\ (runs # None /\ runs = state.runs[r]) => kept # None /\ kept.stored = state.retention[r].stored
    BY <1>1, <1>2, <1>3
  <1> QED BY <1>4 DEF runs, kept

(* No run is deleted.                                                      *)
KeepsRuns(w) == \A r \in DOMAIN w.runs : w.runs[r] # None

LEMMA LawfulNothing ==
  ASSUME TypeOK, Tallied(state)
  PROVE  Lawful(NoWrites) /\ KeepsRuns(NoWrites)
  <1>1. Rows(NoWrites)
    BY NoRows DEF Rows, NoWrites
  <1> QED BY <1>1, NoRows, LawfulWhen DEF KeepsRuns

LEMMA LawfulReport ==
  ASSUME TypeOK, Tallied(state), NEW r \in Runs, NEW report \in Reports,
         NEW rows, \A i \in Items : i \in DOMAIN rows => rows[i] \in Values \cup {None}
  PROVE  LET w == [NoWrites EXCEPT !.runs = OneRow(r, report), !.records = rows]
         IN  Lawful(w) /\ KeepsRuns(w)
  <1> DEFINE w == [records |-> rows, runs |-> OneRow(r, report), retention |-> NoWrites.retention]
  <1>1. [NoWrites EXCEPT !.runs = OneRow(r, report), !.records = rows] = w
    BY TwoTables
  <1>2. DOMAIN w.runs = {r} /\ w.runs[r] = report /\ report # None
    BY RowsAssumption DEF OneRow
  <1>3. Rows(w)
    BY <1>2, NoRows DEF Rows
  <1>4. Lawful(w)
    BY <1>2, <1>3, NoRows, LawfulWhen
  <1>5. KeepsRuns(w)
    BY <1>2 DEF KeepsRuns
  <1> QED BY <1>1, <1>4, <1>5

LEMMA LawfulRecord ==
  ASSUME TypeOK, Tallied(state), NEW i \in Items, NEW v \in Values \cup {None}
  PROVE  LET w == [NoWrites EXCEPT !.records = OneRow(i, v)] IN Lawful(w) /\ KeepsRuns(w)
  <1> DEFINE w == [records |-> OneRow(i, v), runs |-> NoWrites.runs, retention |-> NoWrites.retention]
  <1>1. [NoWrites EXCEPT !.records = OneRow(i, v)] = w
    BY DEF NoWrites
  <1>2. Rows(w)
    BY NoRows DEF Rows, OneRow
  <1>3. Lawful(w)
    BY <1>2, NoRows, LawfulWhen
  <1>4. KeepsRuns(w)
    BY NoRows DEF KeepsRuns
  <1> QED BY <1>1, <1>3, <1>4

LEMMA LawfulHold ==
  ASSUME TypeOK, Tallied(state), NEW r \in Runs, state.runs[r] # None, NEW held \in BOOLEAN
  PROVE  LET w == [NoWrites EXCEPT !.retention =
                     IF state.retention[r] = None THEN <<>>
                     ELSE OneRow(r, [state.retention[r] EXCEPT !.held = held])]
         IN  Lawful(w) /\ KeepsRuns(w)
  <1> DEFINE row == [state.retention[r] EXCEPT !.held = held]
             w == [records |-> NoWrites.records, runs |-> NoWrites.runs, retention |-> OneRow(r, row)]
  <1>1. state.retention[r] \in Retained /\ state.retention[r] # None
    BY DEF Tallied, TypeOK, State
  <1>2. row \in Retained /\ row.stored = state.retention[r].stored
    BY <1>1 DEF Retained
  <1> HIDE DEF row
  <1>3. [NoWrites EXCEPT !.retention = OneRow(r, row)] = w
    BY DEF NoWrites
  <1>4. DOMAIN w.retention = {r} /\ w.retention[r] = row
    BY DEF OneRow
  <1>5. Rows(w)
    BY <1>2, <1>4, NoRows DEF Rows
  <1>6. Lawful(w)
    BY <1>1, <1>2, <1>4, <1>5, NoRows, LawfulWhen
  <1>7. KeepsRuns(w)
    BY NoRows DEF KeepsRuns
  <1> QED BY <1>1, <1>3, <1>6, <1>7 DEF row

LEMMA LawfulDeletion ==
  ASSUME TypeOK, Tallied(state), NEW plan \in Plan
  PROVE  Lawful(DeleteRuns(plan)) /\ DeleteRuns(plan).runs = [r \in plan.runs |-> None]
  <1> DEFINE gone == [r \in plan.runs |-> None]
             w == [records |-> NoWrites.records, runs |-> gone, retention |-> gone]
  <1>1. DeleteRuns(plan) = w
    BY TwoTables DEF DeleteRuns
  <1>2. Rows(w)
    BY NoRows DEF Rows
  <1>3. Lawful(w)
    BY <1>2, LawfulWhen
  <1> QED BY <1>1, <1>3

(* Each operation is a lawful body with its exit, and only the application *)
(* of a plan deletes runs.                                                 *)
ExitsLawfully(c) ==
  \E w : \E event \in Events \cup {None} :
    Exit(c, w, event) /\ Lawful(w) /\ (KeepsRuns(w) \/ ApplyRetention(c))

LEMMA OperationWrites ==
  ASSUME TypeOK, BooksInv, Opened, NEW c \in Requests, Operation(c)
  PROVE  /\ tx[c].phase = "open"
         /\ ExitsLawfully(c)
         /\ UNCHANGED <<clock, outside>>
  <1>1. tx[c].phase = "open"
    BY DEF Operation, PutRecord, SaveAnalysisRun, ProjectAnalysisRun, SetRetentionHold,
           PreviewRetention, ApplyRetention, RecordExport, IssueReceipt, RetainHead, Idle
  <1>2. Tallied(state)
    BY <1>1, WorksOnCertified
  <1>3. UNCHANGED <<clock, outside>>
    BY DEF Operation, PutRecord, SaveAnalysisRun, ProjectAnalysisRun, SetRetentionHold,
           PreviewRetention, ApplyRetention, RecordExport, IssueReceipt, RetainHead, Keeping
  <1>4. ASSUME NEW w, NEW event \in Events \cup {None}, Exit(c, w, event), Lawful(w) /\ KeepsRuns(w)
        PROVE  ExitsLawfully(c)
    BY <1>4 DEF ExitsLawfully
  <1>5. ASSUME NEW event \in Events \cup {None}, Exit(c, NoWrites, event) PROVE ExitsLawfully(c)
    BY <1>2, <1>4, <1>5, LawfulNothing
  <1>6. None \in Events \cup {None}
    OBVIOUS
  <1>7. ASSUME PutRecord(c) PROVE ExitsLawfully(c)
    <2>1. PICK i \in Items, v \in Values \cup {None} :
            Exit(c, [NoWrites EXCEPT !.records = OneRow(i, v)], None)
      BY <1>7 DEF PutRecord
    <2> QED BY <1>2, <1>4, <1>6, <2>1, LawfulRecord
  <1>8. ASSUME SaveAnalysisRun(c) PROVE ExitsLawfully(c)
    <2>1. PICK r \in Runs, report \in Reports :
            Exit(c, [NoWrites EXCEPT !.runs = OneRow(r, report)], None)
      BY <1>8 DEF SaveAnalysisRun
    <2>2. [NoWrites EXCEPT !.runs = OneRow(r, report)] =
            [NoWrites EXCEPT !.runs = OneRow(r, report), !.records = NoWrites.records]
      BY TwoTables DEF NoWrites
    <2>3. \A i \in Items : i \in DOMAIN NoWrites.records => NoWrites.records[i] \in Values \cup {None}
      BY NoRows
    <2> DEFINE w == [NoWrites EXCEPT !.runs = OneRow(r, report), !.records = NoWrites.records]
    <2>4. Lawful(w) /\ KeepsRuns(w)
      BY <1>2, <2>3, LawfulReport
    <2>5. Exit(c, w, None)
      BY <2>1, <2>2
    <2> HIDE DEF w
    <2> QED BY <1>4, <1>6, <2>4, <2>5
  <1>9. ASSUME ProjectAnalysisRun(c) PROVE ExitsLawfully(c)
    <2>1. PICK r \in Runs, report \in Reports, i \in Items, v \in Values :
            Exit(c, [NoWrites EXCEPT !.runs = OneRow(r, report), !.records = OneRow(i, v)], None)
      BY <1>9 DEF ProjectAnalysisRun
    <2>2. \A k \in Items : k \in DOMAIN OneRow(i, v) => OneRow(i, v)[k] \in Values \cup {None}
      BY DEF OneRow
    <2> DEFINE w == [NoWrites EXCEPT !.runs = OneRow(r, report), !.records = OneRow(i, v)]
    <2>3. Lawful(w) /\ KeepsRuns(w)
      BY <1>2, <2>2, LawfulReport
    <2>4. Exit(c, w, None)
      BY <2>1
    <2> HIDE DEF w
    <2> QED BY <1>4, <1>6, <2>3, <2>4
  <1>10. ASSUME SetRetentionHold(c) PROVE ExitsLawfully(c)
    <2>1. PICK r \in {q \in Runs : state.runs[q] # None}, held \in BOOLEAN :
            Exit(c, [NoWrites EXCEPT !.retention =
                       IF state.retention[r] = None THEN <<>>
                       ELSE OneRow(r, [state.retention[r] EXCEPT !.held = held])],
                 "retention_hold")
      BY <1>10 DEF SetRetentionHold, Holds
    <2> DEFINE w == [NoWrites EXCEPT !.retention =
                       IF state.retention[r] = None THEN <<>>
                       ELSE OneRow(r, [state.retention[r] EXCEPT !.held = held])]
    <2>2. Lawful(w) /\ KeepsRuns(w)
      BY <1>2, LawfulHold
    <2>3. Exit(c, w, "retention_hold")
      BY <2>1
    <2>4. "retention_hold" \in Events \cup {None}
      BY DEF Events
    <2> HIDE DEF w
    <2> QED BY <1>4, <2>2, <2>3, <2>4
  <1>11. ASSUME PreviewRetention(c) \/ IssueReceipt(c) \/ RetainHead(c) PROVE ExitsLawfully(c)
    BY <1>5, <1>6, <1>11 DEF PreviewRetention, IssueReceipt, RetainHead
  <1>12. ASSUME RecordExport(c) PROVE ExitsLawfully(c)
    <2>1. PICK digest \in Exports : Exit(c, NoWrites, digest)
      BY <1>12 DEF RecordExport, ExportEvent
    <2>2. digest \in Events \cup {None}
      BY DEF Events
    <2> QED BY <1>5, <2>1, <2>2
  <1>13. ASSUME ApplyRetention(c) PROVE ExitsLawfully(c)
    <2>1. PICK plan \in plans : Exit(c, DeleteRuns(plan), "retention_applied")
      BY <1>13 DEF ApplyRetention
    <2>2. "retention_applied" \in Events \cup {None} /\ plan \in Plan
      BY DEF Events, TypeOK
    <2> QED BY <1>2, <1>13, <2>1, <2>2, LawfulDeletion DEF ExitsLawfully
  <1>14. ExitsLawfully(c)
    BY <1>7, <1>8, <1>9, <1>10, <1>11, <1>12, <1>13 DEF Operation
  <1> QED BY <1>1, <1>3, <1>14

LEMMA NoEntry ==
  ASSUME TypeOK, BooksInv, Opened, NEW c \in Requests, Exit(c, NoWrites, None)
  PROVE  UNCHANGED <<state, ledger, signed, honest>>
  <1>1. tx[c].before = state /\ state \in State
    BY WorksOnCertified DEF Exit
  <1>2. Written(state, NoWrites) = state /\ Bookkept(state, state) = state
    BY <1>1, NothingWritten
  <1>3. Changes(state, state) = {}
    BY DEF Changes, Altered
  <1> QED BY <1>1, <1>2, <1>3 DEF Exit, Listed

(* An operation adds an entry or leaves the tables and their ledger.       *)
Rests       == UNCHANGED <<state, ledger, signed, honest>>
Enters      == \E payload, mac : Committed(payload, mac) /\ state' = payload.state
Extended    == /\ Len(ledger) <= Len(ledger') /\ \A n \in DOMAIN ledger : n \in DOMAIN ledger' /\ ledger'[n] = ledger[n]

LEMMA OperationEnters ==
  ASSUME TypeOK, BooksInv, Opened, NEW c \in Requests, Operation(c)
  PROVE  Rests \/ Enters
  BY OperationWrites, ExitWrites DEF ExitsLawfully, Rests, Enters

LEMMA EnteringKeepsTypes ==
  ASSUME TypeOK, BooksInv, Rests \/ Enters
  PROVE  /\ state' \in State /\ ledger' \in Seq(Entry) /\ signed' \in Seq(Payload) /\ honest' \in Seq(State)
         /\ Extended
         /\ ledger' # <<>> => ledger'[Len(ledger')].payload.state = state' \/ Rests
  <1>1. CASE Rests
    BY <1>1 DEF Rests, TypeOK, Extended
  <1>2. CASE Enters
    <2>1. PICK payload, mac : Committed(payload, mac) /\ state' = payload.state
      BY <1>2 DEF Enters
    <2>2. state' \in State
      BY <2>1 DEF Committed, Payload
    <2>3. signed' \in Seq(Payload)
      BY <2>1, Signing DEF Committed, BooksInv
    <2>4. /\ ledger' \in Seq(Entry) /\ honest' \in Seq(State) /\ Len(ledger) \in Nat
          /\ DOMAIN ledger = 1 .. Len(ledger) /\ DOMAIN ledger' = 1 .. Len(ledger) + 1
          /\ Len(ledger') = Len(ledger) + 1
          /\ \A n \in DOMAIN ledger : ledger'[n] = ledger[n]
          /\ ledger'[Len(ledger) + 1] = [payload |-> payload, mac |-> mac]
      BY <2>1, CommitAppends
    <2>5. Extended
      BY <2>4 DEF Extended
    <2> QED BY <2>1, <2>2, <2>3, <2>4, <2>5
  <1> QED BY <1>1, <1>2

LEMMA BooksStay ==
  ASSUME TypeOK, BooksInv, Rests \/ Enters, UNCHANGED <<saved, anchors>>
  PROVE  BooksInv'
  <1>1. Known' \subseteq Known \cup {[ledger |-> ledger', honest |-> honest']}
    BY DEF Known, Books, ThisImage
  <1>2. CASE Rests
    <2>1. Known' = Known
      BY <1>2 DEF Rests, Known, Books, ThisImage
    <2> QED BY <1>2, <2>1, FewerBooks DEF Rests
  <1>3. CASE Enters
    BY <1>1, <1>3, CommitKeepsBooks DEF Enters
  <1> QED BY <1>2, <1>3

(* Whoever ends a transaction held the lock.                               *)
LEMMA Releasing ==
  ASSUME TypeOK, Locked, Opened, NEW c \in Requests, tx[c].phase = "open", Release(c, "idle")
  PROVE  Locked' /\ Opened' /\ lock' \in Requests \cup {None} /\ tx' \in [Requests -> Tx]
  <1>1. lock = c /\ lock' = None /\ tx' = [tx EXCEPT ![c] = NoTx("idle")]
    BY DEF Locked, Release
  <1>2. NoTx("idle") \in Tx /\ NoTx("idle").phase = "idle"
    BY EmptyState DEF NoTx, Tx, NoHead, Checkpoint, Mac
  <1>3. tx' \in [Requests -> Tx]
    BY <1>1, <1>2 DEF TypeOK
  <1>4. \A d \in Requests : tx'[d].phase # "open"
    BY <1>1, <1>2 DEF Locked, TypeOK
  <1>5. None \notin Requests
    BY RowsAssumption
  <1> QED BY <1>1, <1>3, <1>4, <1>5 DEF Locked, Opened

LEMMA StaysUnaltered ==
  ASSUME TypeOK, BooksInv, Unaltered, Rests \/ Enters, UNCHANGED <<edits, strays>>
  PROVE  Unaltered'
  BY EnteringKeepsTypes DEF Unaltered, Rests

LEMMA ReceiptsStay ==
  ASSUME TypeOK, ReceiptBacked, Extended, UNCHANGED <<receipts, edits>>
  PROVE  ReceiptBacked'
  <1> SUFFICES ASSUME edits = 0, NEW receipt \in receipts
               PROVE  /\ receipt.head.sequence \in DOMAIN ledger'
                      /\ ledger'[receipt.head.sequence].mac = receipt.head.mac
                      /\ \E n \in 1 .. receipt.head.sequence : ledger'[n].payload.event = receipt.digest
    BY DEF ReceiptBacked
  <1>1. /\ receipt.head.sequence \in DOMAIN ledger /\ ledger[receipt.head.sequence].mac = receipt.head.mac
    BY DEF ReceiptBacked
  <1>2. PICK n \in 1 .. receipt.head.sequence : ledger[n].payload.event = receipt.digest
    BY DEF ReceiptBacked
  <1>3. n \in DOMAIN ledger
    BY <1>1 DEF TypeOK
  <1> QED BY <1>1, <1>2, <1>3 DEF Extended

LEMMA RecordsStay ==
  ASSUME TypeOK, Recorded, Extended, UNCHANGED edits,
         \A c \in Requests : exporting'[c] \in {exporting[c], None}
  PROVE  Recorded'
  BY DEF Recorded, Extended

LEMMA OperationStep ==
  ASSUME StoreInv, NEW c \in Requests, Operation(c)
  PROVE  StoreInv'
  <1> USE DEF StoreInv
  <1>1. tx[c].phase = "open" /\ UNCHANGED <<clock, unsigned, saved, strays, edits>>
    BY OperationWrites DEF outside
  <1>2. Rests \/ Enters
    BY OperationEnters
  <1>3. /\ state' \in State /\ ledger' \in Seq(Entry) /\ signed' \in Seq(Payload) /\ honest' \in Seq(State)
        /\ Extended
    BY <1>2, EnteringKeepsTypes
  <1>4. Release(c, "idle")
    BY OperationWrites DEF ExitsLawfully, Exit
  <1>5. Locked' /\ Opened' /\ lock' \in Requests \cup {None} /\ tx' \in [Requests -> Tx]
    BY <1>1, <1>4, Releasing
  <1>6. Unaltered'
    BY <1>1, <1>2, StaysUnaltered
  <1>7. ASSUME /\ exporting' \in [Requests -> Exports \cup {None}]
               /\ plans' \in SUBSET Plan /\ receipts' \in SUBSET Receipt
               /\ anchors' \in [Keepers -> Anchor \cup {None}]
        PROVE  TypeOK'
    BY <1>1, <1>3, <1>5, <1>7 DEF TypeOK
  <1>8. ASSUME UNCHANGED anchors
        PROVE  BooksInv' /\ Anchored'
    BY <1>1, <1>2, <1>8, BooksStay DEF Anchored
  <1>9. ASSUME PutRecord(c) \/ SaveAnalysisRun(c) \/ ProjectAnalysisRun(c) \/ SetRetentionHold(c) \/ ApplyRetention(c)
        PROVE  StoreInv'
    <2>1. UNCHANGED <<exporting, plans, receipts, anchors>>
      BY <1>9 DEF PutRecord, SaveAnalysisRun, ProjectAnalysisRun, SetRetentionHold, ApplyRetention, Keeping
    <2>2. TypeOK'
      BY <1>7, <2>1 DEF TypeOK
    <2>3. ReceiptBacked' /\ Recorded'
      BY <1>1, <1>3, <2>1, ReceiptsStay, RecordsStay
    <2> QED BY <1>5, <1>6, <1>8, <2>1, <2>2, <2>3
  <1>10. ASSUME PreviewRetention(c) PROVE StoreInv'
    <2>1. PICK before \in 1 .. clock : plans' = plans \cup {PlanFor(c, before)}
      BY <1>10 DEF PreviewRetention
    <2>2. UNCHANGED <<exporting, receipts, anchors>>
      BY <1>10 DEF PreviewRetention
    <2>3. PlanFor(c, before) \in Plan
      <3>1. before \in Nat /\ tx[c].head.mac \in Nat
        BY DEF TypeOK, Tx, Checkpoint, Mac
      <3>2. {r \in Expendable(state, before) :
               Cardinality({q \in Expendable(state, before) : q < r}) < PlanLimit} \in SUBSET Runs
        BY DEF Expendable
      <3> QED BY <3>1, <3>2 DEF PlanFor, Plan, Mac
    <2>4. TypeOK'
      BY <1>7, <2>1, <2>2, <2>3 DEF TypeOK
    <2>5. ReceiptBacked' /\ Recorded'
      BY <1>1, <1>3, <2>2, ReceiptsStay, RecordsStay
    <2> QED BY <1>5, <1>6, <1>8, <2>2, <2>4, <2>5
  <1>11. ASSUME RecordExport(c) PROVE StoreInv'
    <2>1. PICK digest \in Exports :
            Exit(c, NoWrites, digest) /\ exporting' = [exporting EXCEPT ![c] = digest]
      BY <1>11 DEF RecordExport, ExportEvent
    <2>2. UNCHANGED <<plans, receipts, anchors>>
      BY <1>11 DEF RecordExport
    <2>3. TypeOK'
      BY <1>7, <2>1, <2>2 DEF TypeOK
    <2>4. \E n \in DOMAIN ledger' : ledger'[n].payload.event = digest
      <3>1. digest \in Events /\ digest # None
        BY RowsAssumption DEF Events
      <3>2. Lawful(NoWrites)
        BY <1>1, WorksOnCertified, LawfulNothing
      <3>3. PICK payload, mac : Committed(payload, mac) /\ payload.event = digest
        BY <2>1, <3>1, <3>2, ExitWrites
      <3>4. /\ ledger'[Len(ledger) + 1] = [payload |-> payload, mac |-> mac] /\ Len(ledger) \in Nat
            /\ DOMAIN ledger' = 1 .. Len(ledger) + 1
        BY <3>3, CommitAppends
      <3> QED BY <3>3, <3>4
    <2>5. ReceiptBacked'
      BY <1>1, <1>3, <2>2, ReceiptsStay
    <2>6. Recorded'
      <3> SUFFICES ASSUME edits' = 0, NEW d \in Requests, exporting'[d] # None
                   PROVE  \E n \in DOMAIN ledger' : ledger'[n].payload.event = exporting'[d]
        BY DEF Recorded
      <3>1. CASE d = c
        BY <2>1, <2>4, <3>1 DEF TypeOK
      <3>2. CASE d # c
        BY <1>1, <1>3, <2>1, <3>2 DEF TypeOK, Recorded, Extended
      <3> QED BY <3>1, <3>2
    <2> QED BY <1>5, <1>6, <1>8, <2>2, <2>3, <2>5, <2>6
  <1>12. ASSUME IssueReceipt(c) PROVE StoreInv'
    <2> DEFINE receipt == [digest |-> exporting[c], head |-> tx[c].head]
    <2>1. /\ exporting[c] # None /\ receipts' = receipts \cup {receipt}
          /\ exporting' = [exporting EXCEPT ![c] = None] /\ UNCHANGED <<plans, anchors>>
          /\ Exit(c, NoWrites, None)
      BY <1>12 DEF IssueReceipt
    <2>2. UNCHANGED <<state, ledger, signed, honest>>
      BY <2>1, NoEntry
    <2>3. receipt \in Receipt
      BY <2>1 DEF Receipt, TypeOK, Tx
    <2>4. TypeOK'
      BY <1>7, <2>1, <2>3 DEF TypeOK
    <2>5. Recorded'
      BY <1>1, <1>3, <2>1, RecordsStay DEF TypeOK
    <2>6. ReceiptBacked'
      <3>1. tx[c].head = HeadOf /\ ledger # <<>>
        BY <1>1, WorksOnCertified
      <3>2. Len(ledger) \in Nat /\ DOMAIN ledger = 1 .. Len(ledger) /\ Len(ledger) \in DOMAIN ledger
        BY <3>1, LastTyped DEF TypeOK
      <3>3. edits = 0 =>
              /\ receipt.head.sequence = Len(ledger) /\ receipt.head.mac = ledger[Len(ledger)].mac
              /\ \E n \in 1 .. Len(ledger) : ledger[n].payload.event = receipt.digest
        BY <2>1, <3>1, <3>2 DEF Recorded, HeadOf
      <3> HIDE DEF receipt
      <3> QED BY <1>1, <2>1, <2>2, <3>2, <3>3 DEF ReceiptBacked
    <2> QED BY <1>5, <1>6, <1>8, <2>1, <2>4, <2>5, <2>6
  <1>13. ASSUME RetainHead(c) PROVE StoreInv'
    <2>1. PICK k \in Keepers :
            anchors' = [anchors EXCEPT ![k] = [head |-> tx[c].head, image |-> ThisImage]]
      BY <1>13 DEF RetainHead
    <2>2. UNCHANGED <<exporting, plans, receipts>> /\ Exit(c, NoWrites, None)
      BY <1>13 DEF RetainHead
    <2>3. UNCHANGED <<state, ledger, signed, honest>>
      BY <2>2, NoEntry
    <2>4. [head |-> tx[c].head, image |-> ThisImage] \in Anchor
      BY DEF Anchor, Image, ThisImage, TypeOK, Tx
    <2>5. TypeOK'
      BY <1>7, <2>1, <2>2, <2>4 DEF TypeOK
    <2>6. ReceiptBacked' /\ Recorded'
      BY <1>1, <1>3, <2>2, ReceiptsStay, RecordsStay
    <2>7. Anchored'
      <3>1. tx[c].head = HeadOf /\ ledger # <<>> /\ ledger[Len(ledger)].payload.state = state
        BY <1>1, WorksOnCertified
      <3> SUFFICES ASSUME NEW q \in Keepers, anchors'[q] # None
                   PROVE  LET image == anchors'[q].image
                          IN  /\ image.ledger # <<>>
                              /\ image.state = image.ledger[Len(image.ledger)].payload.state
                              /\ anchors'[q].head = [sequence |-> Len(image.ledger),
                                                     mac |-> image.ledger[Len(image.ledger)].mac]
        BY DEF Anchored
      <3>2. CASE q = k
        <4>1. anchors'[q] = [head |-> HeadOf, image |-> ThisImage]
          BY <2>1, <3>1, <3>2 DEF TypeOK
        <4> QED BY <3>1, <4>1 DEF ThisImage, HeadOf
      <3>3. CASE q # k
        BY <2>1, <3>3 DEF TypeOK, Anchored
      <3> QED BY <3>2, <3>3
    <2>8. BooksInv'
      <3>1. Known' \subseteq Known
        <4> SUFFICES ASSUME NEW b \in Known' PROVE b \in Known
          OBVIOUS
        <4>1. CASE b = Books(ThisImage)' \/ \E x \in {saved'} \ {None} : b = Books(x)
          BY <1>1, <2>3, <4>1 DEF Known, Books, ThisImage
        <4>2. CASE \E q \in Keepers : anchors'[q] # None /\ b = Books(anchors'[q].image)
          <5>1. PICK q \in Keepers : anchors'[q] # None /\ b = Books(anchors'[q].image)
            BY <4>2
          <5>2. CASE q = k
            <6>1. anchors'[q].image = ThisImage
              BY <2>1, <5>2 DEF TypeOK
            <6> QED BY <5>1, <6>1 DEF Known
          <5>3. CASE q # k
            BY <2>1, <5>1, <5>3 DEF Known, TypeOK
          <5> QED BY <5>2, <5>3
        <4> QED BY <4>1, <4>2 DEF Known, Books
      <3> QED BY <2>3, <3>1, FewerBooks
    <2> QED BY <1>5, <1>6, <2>5, <2>6, <2>7, <2>8
  <1> QED BY <1>9, <1>10, <1>11, <1>12, <1>13 DEF Operation

-----------------------------------------------------------------------------
(* Opening, beginning, failing.                                            *)

LEMMA StoreInit == Init => StoreInv
  <1> SUFFICES ASSUME Init PROVE StoreInv
    OBVIOUS
  <1> USE DEF Init
  <1>1. NoTx("off") \in Tx /\ NoTx("off").phase = "off"
    BY EmptyState DEF NoTx, Tx, NoHead, Checkpoint, Mac
  <1>2. TypeOK
    BY <1>1, EmptyState, LimitsAssumption DEF TypeOK
  <1>3. \A b \in Known : b.ledger = <<>>
    BY DEF Known, Books, ThisImage
  <1>4. \A b \in Known : Chain(b) /\ Accounted(b)
    BY <1>3 DEF Chain, Accounted
  <1>5. \A b \in Known : Honest(b)
    <2>1. \A b \in Known : b.honest = <<>>
      BY DEF Known, Books, ThisImage
    <2> QED BY <1>3, <2>1 DEF Honest
  <1>6. \A b, d \in Known : OneHistory(b, d)
    BY <1>3 DEF OneHistory
  <1>7. BooksInv
    BY <1>4, <1>5, <1>6 DEF BooksInv, SignedOnce, SignedExplains
  <1>8. Locked /\ Opened /\ Anchored /\ Unaltered /\ Recorded /\ ReceiptBacked
    BY <1>1, RowsAssumption DEF Locked, Opened, Anchored, Unaltered, Recorded, ReceiptBacked
  <1> QED BY <1>2, <1>7, <1>8 DEF StoreInv

(* A step that leaves the file, its copies and the anchors.                *)
LEMMA FileAlone ==
  ASSUME StoreInv, UNCHANGED <<state, ledger, signed, honest, saved, anchors, strays, edits, receipts>>
  PROVE  BooksInv' /\ Anchored' /\ Unaltered' /\ ReceiptBacked' /\ (Verified => Verified') /\ HeadOf' = HeadOf
  <1>1. Known' = Known
    BY DEF Known, Books, ThisImage
  <1>2. BooksInv'
    BY <1>1, FewerBooks DEF StoreInv
  <1> QED BY <1>2 DEF StoreInv, Anchored, Unaltered, ReceiptBacked, Verified, EntryValid, HeadOf

LEMMA BeginStep ==
  ASSUME StoreInv, NEW c \in Requests, Begin(c)
  PROVE  StoreInv'
  <1> USE DEF StoreInv
  <1>1. /\ lock = None /\ lock' = c /\ Verified
        /\ tx' = [tx EXCEPT ![c] = [phase |-> "open", before |-> state, head |-> HeadOf]]
        /\ UNCHANGED <<state, ledger, signed, exporting, plans, receipts, clock, anchors, honest,
                       unsigned, saved, strays, edits>>
    BY DEF Begin, Locks, database, outside
  <1>2. [phase |-> "open", before |-> state, head |-> HeadOf] \in Tx
    BY <1>1, LastTyped DEF TypeOK, Tx, Verified
  <1>3. TypeOK'
    BY <1>1, <1>2 DEF TypeOK
  <1>4. BooksInv' /\ Anchored' /\ Unaltered' /\ ReceiptBacked' /\ Verified' /\ HeadOf' = HeadOf
    BY <1>1, FileAlone
  <1>5. Recorded'
    BY <1>1 DEF Recorded
  <1>6. \A d \in Requests : d # c => tx[d].phase # "open" /\ tx'[d] = tx[d]
    BY <1>1, RowsAssumption DEF Locked, TypeOK
  <1>7. tx'[c] = [phase |-> "open", before |-> state, head |-> HeadOf]
    BY <1>1 DEF TypeOK
  <1>8. Locked' /\ Opened'
    BY <1>1, <1>4, <1>6, <1>7 DEF Locked, Opened
  <1> QED BY <1>3, <1>4, <1>5, <1>8

LEMMA FailStep ==
  ASSUME StoreInv, NEW c \in Requests, Fail(c)
  PROVE  StoreInv'
  <1> USE DEF StoreInv
  <1>1. PICK phase \in {"idle", "off"} : Release(c, phase)
    BY DEF Fail
  <1>2. /\ lock' = (IF lock = c THEN None ELSE lock) /\ tx' = [tx EXCEPT ![c] = NoTx(phase)]
        /\ exporting' = [exporting EXCEPT ![c] = None]
        /\ UNCHANGED <<state, ledger, signed, plans, receipts, clock, anchors, honest,
                       unsigned, saved, strays, edits>>
    BY <1>1 DEF Fail, Release, database, outside
  <1>3. NoTx(phase) \in Tx /\ NoTx(phase).phase # "open"
    BY EmptyState DEF NoTx, Tx, NoHead, Checkpoint, Mac
  <1>4. TypeOK'
    BY <1>2, <1>3 DEF TypeOK
  <1>5. BooksInv' /\ Anchored' /\ Unaltered' /\ ReceiptBacked' /\ (Verified => Verified') /\ HeadOf' = HeadOf
    BY <1>2, FileAlone
  <1>6. Recorded'
    BY <1>2 DEF TypeOK, Recorded
  <1>7. tx'[c].phase # "open" /\ \A d \in Requests : d # c => tx'[d] = tx[d]
    BY <1>2, <1>3 DEF TypeOK
  <1>8. Locked'
    BY <1>2, <1>7, RowsAssumption DEF Locked
  <1>9. Opened'
    BY <1>2, <1>5, <1>7 DEF Opened
  <1> QED BY <1>4, <1>5, <1>6, <1>8, <1>9

LEMMA StartStep ==
  ASSUME StoreInv, NEW c \in Requests, Start(c)
  PROVE  StoreInv'
  <1> USE DEF StoreInv
  <1>1. /\ tx[c].phase = "off" /\ lock = None /\ tx' = [tx EXCEPT ![c] = NoTx("idle")]
        /\ UNCHANGED <<state, lock, exporting, plans, receipts, clock, anchors, unsigned, saved, strays, edits>>
    BY DEF Start, outside
  <1>2. NoTx("idle") \in Tx /\ NoTx("idle").phase = "idle"
    BY EmptyState DEF NoTx, Tx, NoHead, Checkpoint, Mac
  <1>3. Rests \/ Enters
    <2>1. CASE ledger # <<>>
      BY <1>1, <2>1 DEF Start, Rests
    <2>2. CASE ledger = <<>>
      <3> DEFINE payload == [sequence |-> NoHead.sequence + 1, previous |-> NoHead.mac, time |-> clock,
                             event |-> "genesis", changes |-> {}, state |-> state]
      <3>1. state = Empty /\ Appends(NoHead, state, {}, "genesis") /\ honest' = <<Empty>>
        BY <2>2 DEF Start, Enrollable
      <3>2. PICK mac \in 1 .. Len(signed) + 1 :
              Signs(payload, mac) /\ ledger' = Append(ledger, [payload |-> payload, mac |-> mac])
        BY <3>1 DEF Appends
      <3>3. payload \in Payload
        BY DEF Payload, TypeOK, Mac, Events, NoHead
      <3>4. Len(ledger) = 0 /\ mac \in Nat
        BY <2>2 DEF TypeOK
      <3>5. honest' = Append(SubSeq(honest, 1, Len(ledger)), Empty)
        <4>1. SubSeq(honest, 1, 0) = <<>>
          BY DEF TypeOK
        <4> QED BY <3>1, <3>4, <4>1
      <3>6. Tallied(Empty)
        BY DEF Tallied, Empty
      <3>7. Committed(payload, mac) /\ state' = payload.state
        BY <1>1, <2>2, <3>1, <3>2, <3>3, <3>4, <3>5, <3>6 DEF Committed, NoHead
      <3> QED BY <3>7 DEF Enters
    <2> QED BY <2>1, <2>2
  <1>4. /\ state' \in State /\ ledger' \in Seq(Entry) /\ signed' \in Seq(Payload) /\ honest' \in Seq(State)
        /\ Extended
    BY <1>3, EnteringKeepsTypes
  <1>5. TypeOK'
    BY <1>1, <1>2, <1>4 DEF TypeOK
  <1>6. BooksInv' /\ Anchored'
    BY <1>1, <1>3, BooksStay DEF Anchored
  <1>7. Unaltered' /\ ReceiptBacked' /\ Recorded'
    BY <1>1, <1>3, <1>4, StaysUnaltered, ReceiptsStay, RecordsStay
  <1>8. \A d \in Requests : tx'[d].phase # "open"
    BY <1>1, <1>2, RowsAssumption DEF Locked, TypeOK
  <1>9. Locked' /\ Opened'
    BY <1>1, <1>8, RowsAssumption DEF Locked, Opened
  <1> QED BY <1>5, <1>6, <1>7, <1>9

-----------------------------------------------------------------------------
(* Everything else that reaches the file.                                  *)

(* While nobody is in a transaction, changes of the file meet no snapshot. *)
LEMMA NobodyIn ==
  ASSUME StoreInv, lock = None
  PROVE  \A c \in Requests : tx[c].phase # "open"
  BY RowsAssumption DEF StoreInv, Locked

LEMMA Unattended ==
  ASSUME StoreInv, lock = None, UNCHANGED <<lock, tx>>
  PROVE  Locked' /\ Opened'
  BY NobodyIn DEF StoreInv, Locked, Opened

(* A ledger without its last entry is in order still.                      *)
LEMMA PrefixBooks ==
  ASSUME StoreInv, ledger # <<>>, NEW d, d = [ledger |-> SubSeq(ledger, 1, Len(ledger) - 1), honest |-> honest]
  PROVE  /\ d.ledger \in Seq(Entry) /\ Chain(d) /\ Honest(d) /\ Accounted(d) /\ OneHistory(d, d)
         /\ \A b \in Known : OneHistory(b, d) /\ OneHistory(d, b)
  <1> DEFINE own == Books(ThisImage)
  <1>1. /\ own \in Known /\ own.ledger = ledger /\ own.honest = honest
        /\ Chain(own) /\ Honest(own) /\ Accounted(own) /\ OneHistory(own, own)
        /\ \A b \in Known : OneHistory(b, own) /\ OneHistory(own, b)
    BY OwnBooks DEF StoreInv, BooksInv
  <1>2. ledger \in Seq(Entry) /\ Len(ledger) \in Nat \ {0} /\ DOMAIN ledger = 1 .. Len(ledger)
    BY LastTyped DEF StoreInv, TypeOK
  <1>3. /\ d.ledger \in Seq(Entry) /\ Len(d.ledger) = Len(ledger) - 1 /\ DOMAIN d.ledger = 1 .. Len(ledger) - 1
        /\ \A n \in DOMAIN d.ledger : n \in DOMAIN ledger /\ d.ledger[n] = ledger[n]
    BY <1>2
  <1> HIDE DEF own
  <1>4. Chain(d)
    <2> SUFFICES ASSUME NEW n \in DOMAIN d.ledger
                 PROVE  /\ d.ledger[n].mac \in DOMAIN signed /\ signed[d.ledger[n].mac] = d.ledger[n].payload
                        /\ d.ledger[n].payload.sequence = n
                        /\ d.ledger[n].payload.previous = IF n = 1 THEN 0 ELSE d.ledger[n - 1].mac
      BY DEF Chain
    <2>1. n \in DOMAIN ledger /\ d.ledger[n] = ledger[n]
      BY <1>3
    <2>2. n # 1 => n - 1 \in DOMAIN d.ledger
      BY <1>2, <1>3
    <2>3. n # 1 => d.ledger[n - 1] = ledger[n - 1]
      BY <1>3, <2>2
    <2> QED BY <1>1, <2>1, <2>3 DEF Chain
  <1>5. Honest(d)
    <2>1. d.honest = honest
      OBVIOUS
    <2>2. Len(honest) \in Nat
      BY DEF StoreInv, TypeOK
    <2> QED BY <1>1, <1>2, <1>3, <2>1, <2>2 DEF Honest
  <1>6. Accounted(d)
    <2>1. \A n \in DOMAIN d.ledger, r \in Runs : Changed(d, n, r) <=> Changed(own, n, r)
      BY <1>1, <1>3 DEF Changed
    <2> SUFFICES ASSUME NEW l \in DOMAIN d.ledger
                 PROVE  LET s == d.ledger[l].payload.state
                        IN  /\ Tallied(s)
                            /\ \A r \in Runs :
                                 s.runs[r] # None =>
                                   \E n \in 1 .. l : LastBy(d, n, l, r) /\ s.retention[r].stored = d.ledger[n].payload.time
      BY DEF Accounted
    <2> DEFINE s == ledger[l].payload.state
    <2>2. l \in DOMAIN ledger /\ d.ledger[l].payload.state = s /\ Tallied(s)
      BY <1>1, <1>3 DEF Accounted
    <2>3. ASSUME NEW r \in Runs, s.runs[r] # None
          PROVE  \E n \in 1 .. l : LastBy(d, n, l, r) /\ s.retention[r].stored = d.ledger[n].payload.time
      <3>1. PICK n \in 1 .. l : LastBy(own, n, l, r) /\ s.retention[r].stored = ledger[n].payload.time
        BY <1>1, <2>2, <2>3 DEF Accounted
      <3>2. n \in DOMAIN d.ledger /\ \A m \in n + 1 .. l : m \in DOMAIN d.ledger
        BY <1>2, <1>3
      <3>3. LastBy(d, n, l, r)
        BY <2>1, <3>1, <3>2 DEF LastBy
      <3> QED BY <1>3, <3>1, <3>2, <3>3
    <2> QED BY <2>2, <2>3
  <1>7. ASSUME NEW b, OneHistory(b, own) PROVE OneHistory(b, d)
    <2> SUFFICES ASSUME NEW i \in DOMAIN b.ledger, NEW j \in DOMAIN d.ledger, b.ledger[i].mac = d.ledger[j].mac
                 PROVE  i = j /\ \A n \in 1 .. i : b.ledger[n] = d.ledger[n]
      BY DEF OneHistory
    <2>1. i = j /\ \A n \in 1 .. i : b.ledger[n] = ledger[n]
      BY <1>1, <1>3, <1>7 DEF OneHistory
    <2> QED BY <1>2, <1>3, <2>1
  <1>8. ASSUME NEW b, OneHistory(own, b) PROVE OneHistory(d, b)
    <2> SUFFICES ASSUME NEW i \in DOMAIN d.ledger, NEW j \in DOMAIN b.ledger, d.ledger[i].mac = b.ledger[j].mac
                 PROVE  i = j /\ \A n \in 1 .. i : d.ledger[n] = b.ledger[n]
      BY DEF OneHistory
    <2>1. i = j /\ \A n \in 1 .. i : ledger[n] = b.ledger[n]
      BY <1>1, <1>3, <1>8 DEF OneHistory
    <2>2. \A n \in 1 .. i : n \in DOMAIN d.ledger
      BY <1>2, <1>3
    <2> QED BY <1>3, <2>1, <2>2
  <1>9. OneHistory(d, d)
    BY <1>1, <1>7, <1>8
  <1> QED BY <1>1, <1>3, <1>4, <1>5, <1>6, <1>7, <1>8, <1>9

LEMMA Editings ==
  ASSUME StoreInv, Editing
  PROVE  /\ lock = None /\ edits' = edits + 1 /\ edits' \in 0 .. MaxEdits
         /\ (UNCHANGED strays => Unaltered') /\ Recorded' /\ ReceiptBacked'
  <1>1. lock = None /\ edits < MaxEdits /\ edits' = edits + 1 /\ edits \in 0 .. MaxEdits
    BY DEF Editing, StoreInv, TypeOK
  <1>2. edits' # 0 /\ edits' \in 0 .. MaxEdits
    BY <1>1, LimitsAssumption
  <1> QED BY <1>1, <1>2 DEF Unaltered, Recorded, ReceiptBacked

LEMMA OutsideStep ==
  ASSUME StoreInv,
         \/ \E u \in Outsiders : OpenUnsigned(u) \/ UnsignedWrite(u)
         \/ Tick \/ SaveCopy \/ PutBack \/ DropEntry \/ EditRow
  PROVE  StoreInv'
  <1> USE DEF StoreInv
  <1>1. ASSUME UNCHANGED <<state, ledger, signed, honest, lock, tx, exporting, plans, receipts, anchors, saved, strays, edits>>
        PROVE  BooksInv' /\ Anchored' /\ Unaltered' /\ ReceiptBacked' /\ Recorded' /\ Locked' /\ Opened'
    <2>1. BooksInv' /\ Anchored' /\ Unaltered' /\ ReceiptBacked' /\ (Verified => Verified') /\ HeadOf' = HeadOf
      BY <1>1, FileAlone
    <2> QED BY <1>1, <2>1 DEF Recorded, Locked, Opened
  <1>2. CASE Tick
    <2>1. /\ clock' = clock + 1
          /\ UNCHANGED <<state, ledger, signed, honest, lock, tx, exporting, plans, receipts, anchors,
                         unsigned, saved, strays, edits>>
      BY <1>2 DEF Tick, database, outside
    <2>2. TypeOK'
      BY <2>1 DEF TypeOK
    <2> QED BY <1>1, <2>1, <2>2
  <1>3. ASSUME NEW u \in Outsiders, OpenUnsigned(u) PROVE StoreInv'
    <2>1. /\ unsigned' = unsigned \cup {u}
          /\ UNCHANGED <<state, ledger, signed, honest, lock, tx, exporting, plans, receipts, anchors, clock,
                         saved, strays, edits>>
      BY <1>3 DEF OpenUnsigned, Elsewhere
    <2>2. TypeOK'
      BY <2>1 DEF TypeOK
    <2> QED BY <1>1, <2>1, <2>2
  <1>4. ASSUME UNCHANGED <<ledger, signed, honest, saved, anchors>>
        PROVE  BooksInv' /\ Anchored'
    <2>1. Known' = Known
      BY <1>4 DEF Known, Books, ThisImage
    <2> QED BY <1>4, <2>1, FewerBooks DEF Anchored
  <1>5. ASSUME NEW u \in Outsiders, UnsignedWrite(u) PROVE StoreInv'
    <2>1. /\ lock = None /\ strays < MaxStrays /\ strays' = strays + 1
          /\ UNCHANGED <<ledger, signed, honest, lock, tx, exporting, plans, receipts, anchors, clock,
                         unsigned, saved, edits>>
      BY <1>5 DEF UnsignedWrite, Elsewhere
    <2>2. state' \in State
      <3>1. CASE \E i \in Items, v \in Values \cup {None} : state' = [state EXCEPT !.records[i] = v]
        BY <3>1 DEF TypeOK, State
      <3>2. CASE \E r \in Runs, report \in Reports : state' = [state EXCEPT !.runs[r] = report]
        BY <3>2 DEF TypeOK, State
      <3> QED BY <1>5, <3>1, <3>2 DEF UnsignedWrite
    <2>3. strays \in 0 .. MaxStrays /\ strays' \in 0 .. MaxStrays /\ strays' # 0
      BY <2>1, LimitsAssumption DEF TypeOK
    <2>4. TypeOK'
      BY <2>1, <2>2, <2>3 DEF TypeOK
    <2>5. Unaltered' /\ Recorded' /\ ReceiptBacked'
      BY <2>1, <2>3 DEF Unaltered, Recorded, ReceiptBacked
    <2> QED BY <1>4, <2>1, <2>4, <2>5, Unattended
  <1>6. CASE SaveCopy
    <2>1. /\ saved' = ThisImage
          /\ UNCHANGED <<state, ledger, signed, honest, lock, tx, exporting, plans, receipts, anchors, clock,
                         unsigned, strays, edits>>
      BY <1>6 DEF SaveCopy, Elsewhere
    <2>2. TypeOK'
      BY <2>1 DEF TypeOK, ThisImage, Image
    <2>3. Known' \subseteq Known
      BY <2>1 DEF Known, Books, ThisImage
    <2>4. BooksInv'
      BY <2>1, <2>3, FewerBooks
    <2>5. Locked' /\ Opened'
      BY <2>1 DEF Locked, Opened, Verified, EntryValid, HeadOf
    <2>6. Anchored' /\ Unaltered' /\ Recorded' /\ ReceiptBacked'
      BY <2>1 DEF Anchored, Unaltered, Recorded, ReceiptBacked
    <2> QED BY <2>2, <2>4, <2>5, <2>6
  <1>7. CASE PutBack
    <2>1. /\ Editing /\ saved # None
          /\ state' = saved.state /\ ledger' = saved.ledger /\ honest' = saved.honest
          /\ UNCHANGED <<signed, lock, tx, exporting, plans, receipts, anchors, clock, unsigned, saved, strays>>
      BY <1>7 DEF PutBack, Elsewhere
    <2>2. TypeOK'
      BY <2>1, Editings DEF TypeOK, Image
    <2>3. Known' \subseteq Known
      BY <2>1 DEF Known, Books, ThisImage
    <2>4. BooksInv'
      BY <2>1, <2>3, FewerBooks
    <2>5. Anchored'
      BY <2>1 DEF Anchored
    <2> QED BY <2>1, <2>2, <2>4, <2>5, Editings, Unattended
  <1>8. CASE DropEntry
    <2>1. /\ Editing /\ ledger # <<>> /\ ledger' = SubSeq(ledger, 1, Len(ledger) - 1)
          /\ UNCHANGED <<state, honest, signed, lock, tx, exporting, plans, receipts, anchors, clock,
                         unsigned, saved, strays>>
      BY <1>8 DEF DropEntry, Elsewhere
    <2> DEFINE d == [ledger |-> SubSeq(ledger, 1, Len(ledger) - 1), honest |-> honest]
    <2>2. /\ d.ledger \in Seq(Entry) /\ Chain(d) /\ Honest(d) /\ Accounted(d) /\ OneHistory(d, d)
          /\ \A b \in Known : OneHistory(b, d) /\ OneHistory(d, b)
      BY <2>1, PrefixBooks
    <2>3. Known' \subseteq Known \cup {d}
      BY <2>1 DEF Known, Books, ThisImage
    <2>4. ledger' \in Seq(Entry)
      BY <2>1, <2>2
    <2> HIDE DEF d
    <2>5. TypeOK'
      BY <2>1, <2>4, Editings DEF TypeOK
    <2>6. \A b \in Known' : Chain(b) /\ Honest(b) /\ Accounted(b)
      BY <2>2, <2>3 DEF BooksInv
    <2>7. \A b, e \in Known' : OneHistory(b, e)
      BY <2>2, <2>3 DEF BooksInv
    <2>8. \A b \in Known' : Chain(b)' /\ Honest(b)' /\ Accounted(b)'
      <3>1. \A b \in Known' : Chain(b)'
        BY <2>1, <2>6 DEF Chain
      <3>2. \A b \in Known' : Honest(b)' /\ Accounted(b)'
        BY <2>6
      <3> QED BY <3>1, <3>2
    <2>9. \A b, e \in Known' : OneHistory(b, e)'
      BY <2>7 DEF OneHistory
    <2>10. BooksInv'
      BY <2>1, <2>8, <2>9 DEF BooksInv, SignedOnce, SignedExplains
    <2>11. Anchored'
      BY <2>1 DEF Anchored
    <2> QED BY <2>1, <2>5, <2>10, <2>11, Editings, Unattended
  <1>9. CASE EditRow
    <2>1. /\ Editing
          /\ UNCHANGED <<ledger, honest, signed, lock, tx, exporting, plans, receipts, anchors, clock,
                         unsigned, saved, strays>>
      BY <1>9 DEF EditRow, Elsewhere
    <2>2. state' \in State
      <3>1. CASE \E i \in Items, v \in Values \cup {None} : state' = [state EXCEPT !.records[i] = v]
        BY <3>1 DEF TypeOK, State
      <3>2. CASE \E r \in Runs : state' = [state EXCEPT !.runs[r] = None]
        BY <3>2 DEF TypeOK, State
      <3>3. CASE \E r \in {q \in Runs : state.retention[q] # None} : state' = [state EXCEPT !.retention[r].held = ~@]
        <4>1. PICK r \in {q \in Runs : state.retention[q] # None} : state' = [state EXCEPT !.retention[r].held = ~@]
          BY <3>3
        <4>2. state.retention[r] \in Retained
          BY <4>1 DEF TypeOK, State
        <4> DEFINE row == [state.retention[r] EXCEPT !.held = ~@]
        <4>3. row \in Retained
          BY <4>2 DEF Retained
        <4> DEFINE table == [state.retention EXCEPT ![r] = row]
        <4>4. state' = [state EXCEPT !.retention = table]
          BY <4>1
        <4> HIDE DEF row
        <4>5. table \in [Runs -> Retained \cup {None}]
          BY <4>3 DEF TypeOK, State
        <4> HIDE DEF table
        <4> QED BY <4>4, <4>5 DEF TypeOK, State
      <3> QED BY <1>9, <3>1, <3>2, <3>3 DEF EditRow
    <2>3. TypeOK'
      BY <2>1, <2>2, Editings DEF TypeOK
    <2> QED BY <1>4, <2>1, <2>3, Editings, Unattended
  <1> QED BY <1>2, <1>3, <1>5, <1>6, <1>7, <1>8, <1>9

LEMMA StoreStep == StoreInv /\ [Next]_vars => StoreInv'
  <1> SUFFICES ASSUME StoreInv, [Next]_vars PROVE StoreInv'
    OBVIOUS
  <1>1. CASE UNCHANGED vars
    <2>1. /\ UNCHANGED <<state, ledger, signed, honest, saved, anchors, strays, edits, receipts>>
          /\ UNCHANGED <<lock, tx, exporting, plans, clock, unsigned>>
      BY <1>1 DEF vars
    <2>2. BooksInv' /\ Anchored' /\ Unaltered' /\ ReceiptBacked' /\ (Verified => Verified') /\ HeadOf' = HeadOf
      BY <2>1, FileAlone
    <2>3. TypeOK'
      BY <2>1 DEF StoreInv, TypeOK
    <2> QED BY <2>1, <2>2, <2>3 DEF StoreInv, Recorded, Locked, Opened
  <1>2. CASE Next
    BY <1>2, StartStep, BeginStep, OperationStep, FailStep, OutsideStep DEF Next
  <1> QED BY <1>1, <1>2

LEMMA StoreHolds == Spec => []StoreInv
  BY StoreInit, StoreStep, PTL DEF Spec

-----------------------------------------------------------------------------
(* The promises.                                                           *)

(* Every reachable state is well typed.                                    *)
THEOREM StoreTyped == Spec => []TypeOK
  <1>1. StoreInv => TypeOK
    BY DEF StoreInv
  <1> QED BY <1>1, StoreHolds, PTL

(* From the lock to the commit a transaction works on what it verified     *)
(* (audited_store.py: _AuditedConnection), whoever else uses the file.     *)
THEOREM SnapshotsCurrent == Spec => []SnapshotCurrent
  <1>1. StoreInv => SnapshotCurrent
    BY DEF StoreInv, Opened, SnapshotCurrent
  <1> QED BY <1>1, StoreHolds, PTL

(* Legal operations never leave a store that its own verification refuses. *)
THEOREM NeverLocked == Spec => []NeverLockedOut
  <1>1. StoreInv => NeverLockedOut
    <2> SUFFICES ASSUME StoreInv, edits = 0, strays = 0, ledger # <<>> PROVE Verified
      BY DEF NeverLockedOut
    <2>1. Chain(Books(ThisImage))
      BY OwnBooks DEF StoreInv, BooksInv
    <2>2. \A n \in DOMAIN ledger : EntryValid(n)
      BY <2>1, OwnBooks DEF Chain, EntryValid
    <2> QED BY <2>2 DEF StoreInv, Unaltered, Verified
  <1> QED BY <1>1, StoreHolds, PTL

(* The signed changes of every entry are the difference of the states      *)
(* certified by it and the entry before.                                   *)
THEOREM LedgerExplained == Spec => []LedgerExplains
  <1>1. StoreInv => LedgerExplains
    <2> SUFFICES ASSUME StoreInv, Verified, NEW n \in 2 .. Len(ledger)
                 PROVE  ledger[n].payload.changes =
                          Changes(ledger[n - 1].payload.state, ledger[n].payload.state)
      BY DEF LedgerExplains
    <2>1. n \in DOMAIN ledger /\ n - 1 \in DOMAIN ledger /\ n # 1
      BY DEF StoreInv, TypeOK
    <2>2. EntryValid(n) /\ EntryValid(n - 1)
      BY <2>1 DEF Verified
    <2>3. /\ ledger[n].mac \in DOMAIN signed /\ signed[ledger[n].mac] = ledger[n].payload
          /\ ledger[n].payload.previous = ledger[n - 1].mac
          /\ ledger[n - 1].mac \in DOMAIN signed /\ signed[ledger[n - 1].mac] = ledger[n - 1].payload
      BY <2>1, <2>2 DEF EntryValid
    <2>4. ledger[n - 1].mac # 0
      BY <2>3 DEF StoreInv, TypeOK
    <2> QED BY <2>3, <2>4 DEF StoreInv, BooksInv, SignedExplains
  <1> QED BY <1>1, StoreHolds, PTL

(* A store that verifies holds what signed operations alone made of it.    *)
THEOREM NothingCertified == Spec => []NothingSilentlyCertified
  <1>1. StoreInv => NothingSilentlyCertified
    <2> SUFFICES ASSUME StoreInv, Verified PROVE state = honest[Len(ledger)]
      BY DEF NothingSilentlyCertified
    <2>1. ledger # <<>> /\ ledger[Len(ledger)].payload.state = state
      BY DEF Verified
    <2>2. Len(ledger) \in DOMAIN ledger
      BY <2>1, LastTyped DEF StoreInv
    <2> QED BY <2>1, <2>2, OwnBooks DEF StoreInv, BooksInv, Honest
  <1> QED BY <1>1, StoreHolds, PTL

(* The head kept outside stands for one history: what verifies under it is *)
(* what it stood for.                                                      *)
THEOREM AnchorsFaithful == Spec => []AnchorFaithful
  <1>1. StoreInv => AnchorFaithful
    <2> SUFFICES ASSUME StoreInv, Verified, NEW k \in Keepers, anchors[k] # None, HeadOf = anchors[k].head
                 PROVE  state = anchors[k].image.state /\ ledger = anchors[k].image.ledger
      BY DEF AnchorFaithful, MatchesHead
    <2> DEFINE image == anchors[k].image
    <2>1. /\ image.ledger # <<>> /\ image.state = image.ledger[Len(image.ledger)].payload.state
          /\ HeadOf = [sequence |-> Len(image.ledger), mac |-> image.ledger[Len(image.ledger)].mac]
      BY DEF StoreInv, Anchored
    <2>2. ledger # <<>> /\ ledger[Len(ledger)].payload.state = state
      BY DEF Verified
    <2>3. image.ledger \in Seq(Entry) /\ ledger \in Seq(Entry)
      BY DEF StoreInv, TypeOK, Anchor, Image
    <2>4. Len(ledger) = Len(image.ledger) /\ ledger[Len(ledger)].mac = image.ledger[Len(ledger)].mac
      BY <2>1 DEF HeadOf
    <2>5. OneHistory(Books(ThisImage), Books(image))
      BY DEF StoreInv, BooksInv, Known
    <2>6. \A i \in DOMAIN ledger, j \in DOMAIN image.ledger :
            ledger[i].mac = image.ledger[j].mac => \A n \in 1 .. i : ledger[n] = image.ledger[n]
      BY <2>5 DEF OneHistory, Books, ThisImage
    <2> HIDE DEF image
    <2>7. Len(ledger) \in DOMAIN ledger /\ Len(ledger) \in DOMAIN image.ledger
      BY <2>1, <2>2, <2>3, <2>4
    <2>8. \A n \in 1 .. Len(ledger) : ledger[n] = image.ledger[n]
      BY <2>4, <2>6, <2>7
    <2>9. ledger = image.ledger
      BY <2>3, <2>4, <2>8
    <2> QED BY <2>1, <2>2, <2>9 DEF image
  <1> QED BY <1>1, StoreHolds, PTL

(* Retention follows the runs, and a run's age is that of the entry which  *)
(* last changed it.                                                        *)
THEOREM RetentionAccounted == Spec => []RetentionAccounts
  <1>1. StoreInv => RetentionAccounts
    <2> SUFFICES ASSUME StoreInv, Verified, NEW r \in Runs
                 PROVE  /\ (state.runs[r] = None) <=> (state.retention[r] = None)
                        /\ state.runs[r] # None =>
                             state.retention[r].stored = ledger[LastChange(r)].payload.time
      BY DEF RetentionAccounts
    <2>1. ledger # <<>> /\ ledger[Len(ledger)].payload.state = state
      BY DEF Verified
    <2>2. Len(ledger) \in DOMAIN ledger /\ Len(ledger) \in Nat /\ DOMAIN ledger = 1 .. Len(ledger)
      BY <2>1, LastTyped DEF StoreInv, TypeOK
    <2> DEFINE own == Books(ThisImage)
    <2>3. Accounted(own) /\ own.ledger = ledger
      BY OwnBooks DEF StoreInv, BooksInv
    <2>4. Tallied(state)
      BY <2>1, <2>2, <2>3 DEF Accounted
    <2>5. ASSUME state.runs[r] # None
          PROVE  state.retention[r].stored = ledger[LastChange(r)].payload.time
      <3>1. PICK n \in 1 .. Len(ledger) :
              LastBy(own, n, Len(ledger), r) /\ state.retention[r].stored = ledger[n].payload.time
        BY <2>1, <2>2, <2>3, <2>5 DEF Accounted
      <3> DEFINE Is(m) == /\ \E x \in ledger[m].payload.changes : x.table = "runs" /\ x.id = r
                          /\ \A l \in m + 1 .. Len(ledger) :
                               \A x \in ledger[l].payload.changes : x.table # "runs" \/ x.id # r
      <3>2. n \in DOMAIN ledger /\ Is(n)
        BY <2>2, <2>3, <3>1 DEF LastBy, Changed
      <3>3. ASSUME NEW m \in DOMAIN ledger, Is(m) PROVE m = n
        <4>1. ~(m < n)
          <5> SUFFICES ASSUME m < n PROVE FALSE
            OBVIOUS
          <5>1. n \in m + 1 .. Len(ledger)
            BY <2>2, <3>2
          <5> QED BY <3>2, <3>3, <5>1
        <4>2. ~(n < m)
          <5> SUFFICES ASSUME n < m PROVE FALSE
            OBVIOUS
          <5>1. m \in n + 1 .. Len(ledger)
            BY <2>2, <3>2
          <5> QED BY <3>2, <3>3, <5>1
        <4> QED BY <2>2, <3>2, <4>1, <4>2
      <3>4. LastChange(r) = CHOOSE m \in DOMAIN ledger : Is(m)
        BY DEF LastChange
      <3> HIDE DEF Is
      <3>5. LastChange(r) = n
        BY <3>2, <3>3, <3>4
      <3> QED BY <3>1, <3>5
    <2> QED BY <2>4, <2>5 DEF Tallied
  <1> QED BY <1>1, StoreHolds, PTL

(* The head a receipt quotes is in the ledger, after the export's entry.   *)
THEOREM ReceiptsBacked == Spec => []ReceiptBacked
  <1>1. StoreInv => ReceiptBacked
    BY DEF StoreInv
  <1> QED BY <1>1, StoreHolds, PTL

(* What an operation makes of the runs is what its body wrote.             *)
LEMMA ExitRuns ==
  ASSUME StoreInv, NEW c \in Requests, NEW w, NEW event, Exit(c, w, event), Lawful(w), NEW r \in Runs
  PROVE  state'.runs[r] = IF r \in DOMAIN w.runs THEN w.runs[r] ELSE state.runs[r]
  <1>1. tx[c].before = state /\ state \in State
    BY WorksOnCertified DEF StoreInv, Exit
  <1>2. state' = Bookkept(state, Written(state, w))
    BY <1>1 DEF Exit
  <1>3. Written(state, w) \in State
    BY <1>1, WrittenTyped DEF Lawful
  <1>4. state'.runs = Written(state, w).runs
    BY <1>1, <1>2, <1>3, BookkeptTyped DEF StoreInv
  <1> QED BY <1>1, <1>4, Overlay

(* A run that goes, and the plan it goes under.                            *)
Disappears(r) == edits' = edits /\ state.runs[r] # None /\ state'.runs[r] = None
Planned(r) ==
  \E plan \in plans :
    /\ r \in plan.runs /\ r \in Expendable(state, plan.before)
    /\ signed[plan.head].state = state /\ ledger[Len(ledger)].mac = plan.head

LEMMA DeletionPlanned ==
  ASSUME StoreInv, [Next]_vars, NEW r \in Runs, Disappears(r)
  PROVE  Planned(r)
  <1>1. ASSUME UNCHANGED state PROVE FALSE
    BY <1>1 DEF Disappears
  <1>2. ASSUME Editing PROVE FALSE
    BY <1>2 DEF Disappears, Editing, StoreInv, TypeOK
  <1>3. ASSUME NEW u \in Outsiders, UnsignedWrite(u) PROVE FALSE
    <2>1. CASE \E i \in Items, v \in Values \cup {None} : state' = [state EXCEPT !.records[i] = v]
      BY <2>1 DEF Disappears, StoreInv, TypeOK, State
    <2>2. CASE \E q \in Runs, report \in Reports : state' = [state EXCEPT !.runs[q] = report]
      BY <2>2, RowsAssumption DEF Disappears, StoreInv, TypeOK, State
    <2> QED BY <1>3, <2>1, <2>2 DEF UnsignedWrite
  <1>4. ASSUME NEW c \in Requests, Operation(c) PROVE Planned(r)
    <2>1. tx[c].phase = "open"
      BY <1>4, OperationWrites DEF StoreInv
    <2>2. ApplyRetention(c)
      <3>1. PICK w : \E event \in Events \cup {None} :
              Exit(c, w, event) /\ Lawful(w) /\ (KeepsRuns(w) \/ ApplyRetention(c))
        BY <1>4, OperationWrites DEF StoreInv, ExitsLawfully
      <3>2. state'.runs[r] = IF r \in DOMAIN w.runs THEN w.runs[r] ELSE state.runs[r]
        BY <3>1, ExitRuns
      <3> QED BY <3>1, <3>2 DEF Disappears, KeepsRuns
    <2>3. PICK plan \in plans :
            plan = PlanFor(c, plan.before) /\ Exit(c, DeleteRuns(plan), "retention_applied")
      BY <2>2 DEF ApplyRetention, SamePlan
    <2>4. tx[c].head = HeadOf /\ ledger # <<>> /\ Tallied(state) /\ Verified
      BY <2>1, WorksOnCertified DEF StoreInv, Opened
    <2>5. Lawful(DeleteRuns(plan)) /\ DeleteRuns(plan).runs = [q \in plan.runs |-> None]
      BY <2>4, LawfulDeletion DEF StoreInv, TypeOK
    <2>6. state'.runs[r] = IF r \in DOMAIN DeleteRuns(plan).runs THEN DeleteRuns(plan).runs[r] ELSE state.runs[r]
      BY <2>3, <2>5, ExitRuns
    <2>7. r \in plan.runs
      BY <2>5, <2>6 DEF Disappears
    <2>8. plan.runs \subseteq Expendable(state, plan.before) /\ plan.head = ledger[Len(ledger)].mac
      <3>1. \A before : /\ PlanFor(c, before).runs \subseteq Expendable(state, before)
                        /\ PlanFor(c, before).head = tx[c].head.mac
        BY DEF PlanFor
      <3>2. tx[c].head.mac = ledger[Len(ledger)].mac
        BY <2>4 DEF HeadOf
      <3> QED BY <2>3, <3>1, <3>2
    <2>9. signed[ledger[Len(ledger)].mac].state = state
      <3>1. Len(ledger) \in DOMAIN ledger /\ ledger[Len(ledger)].payload.state = state
        BY <2>4, LastTyped DEF StoreInv, Verified
      <3> QED BY <2>4, <3>1 DEF Verified, EntryValid
    <2> QED BY <2>7, <2>8, <2>9 DEF Planned
  <1>5. CASE UNCHANGED vars
    BY <1>1, <1>5 DEF vars
  <1>6. CASE Tick \/ SaveCopy \/ \E u \in Outsiders : OpenUnsigned(u)
    BY <1>1, <1>6 DEF Tick, SaveCopy, OpenUnsigned, database
  <1>7. CASE PutBack \/ DropEntry \/ EditRow
    BY <1>2, <1>7 DEF PutBack, DropEntry, EditRow
  <1>8. ASSUME NEW c \in Requests, Start(c) \/ Begin(c) \/ Fail(c) PROVE FALSE
    BY <1>1, <1>8 DEF Start, Begin, Fail, database
  <1> QED BY <1>3, <1>4, <1>5, <1>6, <1>7, <1>8 DEF Next

(* Without an edit of the file a run disappears only under a plan that was *)
(* previewed on this very state, completed, not held and old enough        *)
(* (retention apply, audited_store.py).                                    *)
THEOREM DeletionBound == Spec => RetentionBinding
  <1>1. StoreInv /\ [Next]_vars =>
          [\A r \in Runs :
             (edits' = edits /\ state.runs[r] # None /\ state'.runs[r] = None) =>
               \E plan \in plans :
                 /\ r \in plan.runs /\ r \in Expendable(state, plan.before)
                 /\ signed[plan.head].state = state
                 /\ ledger[Len(ledger)].mac = plan.head]_vars
    BY DeletionPlanned DEF Disappears, Planned
  <1> QED BY <1>1, StoreHolds, PTL DEF Spec, RetentionBinding

-----------------------------------------------------------------------------
(* The serial store.                                                       *)

Untouched == edits = 0 /\ strays = 0

LEMMA ShownGrows ==
  ASSUME NEW entries \in Seq(Entry), NEW entry
  PROVE  /\ Shown(Append(entries, entry)) =
              Append(Shown(entries), [event |-> entry.payload.event, time |-> entry.payload.time,
                                      tables |-> entry.payload.state])
         /\ Shown(entries) = <<>> <=> entries = <<>>
  <1> DEFINE one(e) == [event |-> e.payload.event, time |-> e.payload.time, tables |-> e.payload.state]
             S == {one(e) : e \in Entry}
             new == Append(entries, entry)
  <1>1. Len(entries) \in Nat /\ DOMAIN entries = 1 .. Len(entries)
    OBVIOUS
  <1>2. Shown(entries) \in [1 .. Len(entries) -> S] /\ \A n \in 1 .. Len(entries) : Shown(entries)[n] = one(entries[n])
    BY <1>1 DEF Shown
  <1>3. Shown(entries) \in Seq(S) /\ Len(Shown(entries)) = Len(entries)
    BY <1>1, <1>2
  <1>4. /\ DOMAIN new = 1 .. Len(entries) + 1 /\ new[Len(entries) + 1] = entry
        /\ \A n \in 1 .. Len(entries) : new[n] = entries[n]
    BY <1>1
  <1>5. Shown(new) = [n \in 1 .. Len(entries) + 1 |-> one(new[n])]
    BY <1>4 DEF Shown
  <1> HIDE DEF new
  <1>6. Append(Shown(entries), one(entry)) =
          [n \in 1 .. Len(entries) + 1 |-> IF n <= Len(entries) THEN one(entries[n]) ELSE one(entry)]
    BY <1>1, <1>2, <1>3
  <1>7. ASSUME NEW n \in 1 .. Len(entries) + 1
        PROVE  one(new[n]) = IF n <= Len(entries) THEN one(entries[n]) ELSE one(entry)
    <2>1. CASE n <= Len(entries)
      <3>1. new[n] = entries[n]
        BY <1>1, <1>4, <2>1
      <3> QED BY <2>1, <3>1
    <2>2. CASE ~(n <= Len(entries))
      <3>1. new[n] = entry
        BY <1>1, <1>4, <2>2
      <3> QED BY <2>2, <3>1
    <2> QED BY <2>1, <2>2
  <1>8. Shown(new) = Append(Shown(entries), one(entry))
    <2> HIDE DEF one
    <2> QED BY <1>5, <1>6, <1>7
  <1>9. Shown(entries) = <<>> <=> entries = <<>>
    BY <1>1, <1>3
  <1> QED BY <1>8, <1>9 DEF new

(* What an exit makes of the tables.                                       *)
Exited(w) == Bookkept(state, Written(state, w))

LEMMA ExitLogs ==
  ASSUME StoreInv, NEW c \in Requests, NEW w, NEW event \in Events \cup {None}, Exit(c, w, event), Lawful(w)
  PROVE  /\ ledger # <<>> /\ Shown(ledger) # <<>> /\ state' = Exited(w)
         /\ \/ event = None /\ UNCHANGED <<state, ledger>>
            \/ /\ event # None \/ Exited(w) # state
               /\ Shown(ledger)' = Append(Shown(ledger),
                                          [event  |-> IF event = None THEN "state_change" ELSE event,
                                           time   |-> clock, tables |-> Exited(w)])
  <1> DEFINE after == Exited(w)
             named == IF event = None THEN "state_change" ELSE event
  <1>1. /\ tx[c].before = state /\ tx[c].head = HeadOf /\ ledger # <<>> /\ state \in State
    BY WorksOnCertified DEF StoreInv, Exit
  <1>2. /\ state' = after
        /\ IF Changes(state, after) # {} \/ event # None
           THEN Appends(HeadOf, after, Changes(state, after), named)
           ELSE UNCHANGED <<ledger, signed, honest>>
    BY <1>1 DEF Exit, Listed, Certified, Exited
  <1>3. after \in State
    BY <1>1, WrittenTyped, BookkeptTyped DEF StoreInv, Lawful, Exited
  <1>4. Shown(ledger) # <<>>
    BY <1>1, ShownGrows DEF StoreInv, TypeOK
  <1> HIDE DEF after, named
  <1>5. Changes(state, state) = {}
    BY DEF Changes, Altered
  <1>6. CASE Changes(state, after) = {} /\ event = None
    BY <1>1, <1>2, <1>3, <1>4, <1>6, Unlisted DEF after
  <1>7. CASE Changes(state, after) # {} \/ event # None
    <2>1. PICK payload, mac : /\ payload.event = named /\ payload.time = clock /\ payload.state = after
                              /\ ledger' = Append(ledger, [payload |-> payload, mac |-> mac])
      <3> DEFINE payload == [sequence |-> HeadOf.sequence + 1, previous |-> HeadOf.mac,
                             time |-> clock, event |-> named, changes |-> Changes(state, after), state |-> after]
      <3>1. PICK mac : ledger' = Append(ledger, [payload |-> payload, mac |-> mac])
        BY <1>2, <1>7 DEF Appends
      <3>2. payload.event = named /\ payload.time = clock /\ payload.state = after
        OBVIOUS
      <3> HIDE DEF payload
      <3> QED BY <3>1, <3>2
    <2> DEFINE entry == [payload |-> payload, mac |-> mac]
    <2>2. entry.payload = payload /\ ledger' = Append(ledger, entry)
      BY <2>1
    <2> HIDE DEF entry
    <2>3. Shown(ledger') = Append(Shown(ledger), [event |-> named, time |-> clock, tables |-> after])
      BY <2>1, <2>2, ShownGrows DEF StoreInv, TypeOK
    <2>4. event # None \/ after # state
      BY <1>5, <1>7
    <2>5. Shown(ledger)' = Shown(ledger')
      BY DEF Shown
    <2> QED BY <1>1, <1>2, <1>4, <2>3, <2>4, <2>5 DEF after, named
  <1> QED BY <1>6, <1>7

(* ... row by row.                                                         *)
LEMMA ExitedRows ==
  ASSUME StoreInv, Tallied(state), NEW w, Rows(w)
  PROVE  /\ Exited(w) \in State
         /\ Exited(w).records = Overlaid(state.records, w.records)
         /\ Exited(w).runs = Overlaid(state.runs, w.runs)
         /\ \A r \in Runs :
              LET kept == Overlaid(state.retention, w.retention)[r]
              IN  Exited(w).retention[r] =
                    IF Overlaid(state.runs, w.runs)[r] \notin {None, state.runs[r]}
                    THEN [stored |-> clock, held |-> kept # None /\ kept.held]
                    ELSE kept
  <1> DEFINE body == Written(state, w)
  <1>1. state \in State
    BY DEF StoreInv, TypeOK
  <1>2. body \in State
    BY <1>1, WrittenTyped
  <1>3. /\ body.records = Overlaid(state.records, w.records) /\ body.runs = Overlaid(state.runs, w.runs)
        /\ body.retention = Overlaid(state.retention, w.retention)
    BY DEF Written
  <1> HIDE DEF body
  <1>4. Exited(w) = Bookkept(state, body)
    BY DEF Exited, body
  <1>5. /\ Exited(w) \in State /\ Exited(w).runs = body.runs /\ Exited(w).records = body.records
    BY <1>1, <1>2, <1>4, BookkeptTyped DEF StoreInv
  <1>6. body = [records |-> body.records, runs |-> body.runs, retention |-> body.retention]
    BY <1>2 DEF State
  <1>7. Exited(w).retention =
          [r \in Runs |-> IF Dated(state, body, r)
                          THEN [stored |-> clock, held |-> body.retention[r] # None /\ body.retention[r].held]
                          ELSE body.retention[r]]
    BY <1>4, <1>6 DEF Bookkept
  <1> QED BY <1>3, <1>5, <1>7 DEF Dated

LEMMA SameTables ==
  ASSUME NEW a \in State, NEW b,
         b = [records |-> b.records, runs |-> b.runs, retention |-> b.retention],
         b.records = [i \in Items |-> b.records[i]], b.runs = [r \in Runs |-> b.runs[r]],
         b.retention = [r \in Runs |-> b.retention[r]],
         \A i \in Items : a.records[i] = b.records[i],
         \A r \in Runs : a.runs[r] = b.runs[r] /\ a.retention[r] = b.retention[r]
  PROVE  a = b
  <1>1. /\ a = [records |-> a.records, runs |-> a.runs, retention |-> a.retention]
        /\ a.records = [i \in Items |-> a.records[i]] /\ a.runs = [r \in Runs |-> a.runs[r]]
        /\ a.retention = [r \in Runs |-> a.retention[r]]
    BY DEF State
  <1>2. a.records = b.records
    BY <1>1
  <1>3. a.runs = b.runs
    BY <1>1
  <1>4. a.retention = b.retention
    BY <1>1
  <1> QED BY <1>1, <1>2, <1>3, <1>4

LEMMA ExitedRecord ==
  ASSUME StoreInv, Tallied(state), NEW i \in Items, NEW v \in Values \cup {None}
  PROVE  LET w == [NoWrites EXCEPT !.records = OneRow(i, v)]
         IN  Lawful(w) /\ Exited(w) = Serial!WithRecord(state, i, v)
  <1> DEFINE w == [records |-> OneRow(i, v), runs |-> NoWrites.runs, retention |-> NoWrites.retention]
             b == Serial!WithRecord(state, i, v)
  <1>1. [NoWrites EXCEPT !.records = OneRow(i, v)] = w
    BY DEF NoWrites
  <1>2. Lawful(w)
    BY <1>1, LawfulRecord DEF StoreInv
  <1>3. state \in State
    BY DEF StoreInv, TypeOK
  <1>4. /\ b = [records |-> [state.records EXCEPT ![i] = v], runs |-> state.runs, retention |-> state.retention]
    BY <1>3 DEF Serial!WithRecord, State
  <1>5. /\ w.records = OneRow(i, v) /\ DOMAIN w.runs = {} /\ DOMAIN w.retention = {}
    BY NoRows
  <1> HIDE DEF w, b
  <1>6. /\ Exited(w) \in State
        /\ Exited(w).records = Overlaid(state.records, OneRow(i, v))
        /\ Exited(w).runs = state.runs
        /\ \A r \in Runs : Exited(w).retention[r] = state.retention[r]
    <2>1. Overlaid(state.runs, w.runs) = state.runs /\ Overlaid(state.retention, w.retention) = state.retention
      BY <1>3, <1>5 DEF Overlaid, State
    <2>2. Rows(w)
      BY <1>2 DEF Lawful
    <2>3. /\ Exited(w) \in State
          /\ Exited(w).records = Overlaid(state.records, w.records)
          /\ Exited(w).runs = Overlaid(state.runs, w.runs)
          /\ \A r \in Runs :
               LET kept == Overlaid(state.retention, w.retention)[r]
               IN  Exited(w).retention[r] =
                     IF Overlaid(state.runs, w.runs)[r] \notin {None, state.runs[r]}
                     THEN [stored |-> clock, held |-> kept # None /\ kept.held]
                     ELSE kept
      BY <2>2, ExitedRows
    <2> QED BY <1>5, <2>1, <2>3
  <1>7. \A k \in Items : Exited(w).records[k] = [state.records EXCEPT ![i] = v][k]
    BY <1>3, <1>6 DEF Overlaid, OneRow, State
  <1>8. Exited(w) = b
    <2>1. /\ b = [records |-> b.records, runs |-> b.runs, retention |-> b.retention]
          /\ b.records = [state.records EXCEPT ![i] = v] /\ b.runs = state.runs /\ b.retention = state.retention
      BY <1>4
    <2>2. /\ b.records = [k \in Items |-> b.records[k]] /\ b.runs = [r \in Runs |-> b.runs[r]]
          /\ b.retention = [r \in Runs |-> b.retention[r]]
      BY <1>3, <2>1 DEF State
    <2> QED BY <1>6, <1>7, <2>1, <2>2, SameTables
  <1> QED BY <1>1, <1>2, <1>8 DEF b

(* A report and, with it or not, other rows.                               *)
LEMMA ExitedReport ==
  ASSUME StoreInv, Tallied(state), NEW r \in Runs, NEW report \in Reports,
         NEW rows, \A i \in Items : i \in DOMAIN rows => rows[i] \in Values \cup {None}
  PROVE  LET w == [NoWrites EXCEPT !.runs = OneRow(r, report), !.records = rows]
             t == Serial!WithReport(r, report)
         IN  /\ Lawful(w) /\ Exited(w) \in State /\ Exited(w).records = Overlaid(state.records, rows)
             /\ t \in State /\ t.records = state.records
             /\ \A q \in Runs : Exited(w).runs[q] = t.runs[q] /\ Exited(w).retention[q] = t.retention[q]
  <1> DEFINE w == [records |-> rows, runs |-> OneRow(r, report), retention |-> NoWrites.retention]
             t == Serial!WithReport(r, report)
             held == state.retention[r] # None /\ state.retention[r].held
             dated == [stored |-> clock, held |-> held]
  <1>1. [NoWrites EXCEPT !.runs = OneRow(r, report), !.records = rows] = w
    BY TwoTables
  <1>2. Lawful(w)
    <2>1. Lawful([NoWrites EXCEPT !.runs = OneRow(r, report), !.records = rows])
      BY LawfulReport DEF StoreInv
    <2> QED BY <1>1, <2>1, Zenon
  <1>3. /\ state \in State /\ clock \in Nat
        /\ state = [records |-> state.records, runs |-> state.runs, retention |-> state.retention]
        /\ state.runs \in [Runs -> Reports \cup {None}] /\ state.retention \in [Runs -> Retained \cup {None}]
    BY DEF StoreInv, TypeOK, State
  <1>4. Rows(w)
    BY <1>2 DEF Lawful
  <1>5. w.records = rows /\ w.runs = OneRow(r, report) /\ DOMAIN w.retention = {}
    BY NoRows
  <1> HIDE DEF w
  <1>6. /\ Exited(w) \in State /\ Exited(w).records = Overlaid(state.records, rows)
        /\ Exited(w).runs = Overlaid(state.runs, OneRow(r, report))
        /\ \A q \in Runs :
             LET kept == Overlaid(state.retention, w.retention)[q]
             IN  Exited(w).retention[q] =
                   IF Overlaid(state.runs, OneRow(r, report))[q] \notin {None, state.runs[q]}
                   THEN [stored |-> clock, held |-> kept # None /\ kept.held]
                   ELSE kept
    BY <1>4, <1>5, ExitedRows
  <1>7. \A q \in Runs : /\ Overlaid(state.runs, OneRow(r, report))[q] = IF q = r THEN report ELSE state.runs[q]
                        /\ Overlaid(state.retention, w.retention)[q] = state.retention[q]
    BY <1>3, <1>5 DEF Overlaid, OneRow
  <1>8. report # None
    BY RowsAssumption
  <1>9. \A q \in Runs :
          /\ Exited(w).runs[q] = IF q = r THEN report ELSE state.runs[q]
          /\ Exited(w).retention[q] = IF q = r /\ report # state.runs[r] THEN dated ELSE state.retention[q]
    BY <1>6, <1>7, <1>8
  <1>10. dated \in Retained
    <2>1. held \in BOOLEAN
      BY <1>3 DEF Retained
    <2> QED BY <1>3, <2>1 DEF Retained
  <1>11. /\ t \in State /\ t.records = state.records
         /\ \A q \in Runs :
              /\ t.runs[q] = IF q = r THEN report ELSE state.runs[q]
              /\ t.retention[q] = IF q = r /\ report # state.runs[r] THEN dated ELSE state.retention[q]
    <2>1. CASE report = state.runs[r]
      BY <1>3, <2>1 DEF Serial!WithReport
    <2>2. CASE report # state.runs[r]
      <3>1. t = [state EXCEPT !.runs[r] = report, !.retention[r] = dated]
        BY <2>2 DEF Serial!WithReport
      <3> HIDE DEF t, dated
      <3>2. t = [records |-> state.records, runs |-> [state.runs EXCEPT ![r] = report],
                 retention |-> [state.retention EXCEPT ![r] = dated]]
        BY <1>3, <3>1
      <3>3. [state.runs EXCEPT ![r] = report] \in [Runs -> Reports \cup {None}]
        BY <1>3
      <3>4. [state.retention EXCEPT ![r] = dated] \in [Runs -> Retained \cup {None}]
        BY <1>3, <1>10
      <3> QED BY <1>3, <2>2, <3>2, <3>3, <3>4 DEF State
    <2> QED BY <2>1, <2>2
  <1> QED BY <1>1, <1>2, <1>6, <1>9, <1>11

LEMMA ExitedRun ==
  ASSUME StoreInv, Tallied(state), NEW r \in Runs, NEW report \in Reports
  PROVE  LET w == [NoWrites EXCEPT !.runs = OneRow(r, report)]
         IN  Lawful(w) /\ Exited(w) = Serial!WithReport(r, report)
  <1> DEFINE w == [NoWrites EXCEPT !.runs = OneRow(r, report), !.records = NoWrites.records]
             t == Serial!WithReport(r, report)
  <1>1. [NoWrites EXCEPT !.runs = OneRow(r, report)] = w
    BY TwoTables DEF NoWrites
  <1>2. \A i \in Items : i \in DOMAIN NoWrites.records => NoWrites.records[i] \in Values \cup {None}
    BY NoRows
  <1>3. /\ Lawful(w) /\ Exited(w) \in State /\ Exited(w).records = Overlaid(state.records, NoWrites.records)
        /\ t \in State /\ t.records = state.records
        /\ \A q \in Runs : Exited(w).runs[q] = t.runs[q] /\ Exited(w).retention[q] = t.retention[q]
    BY <1>2, ExitedReport, ZenonT(30)
  <1> HIDE DEF w, t
  <1>4. Overlaid(state.records, NoWrites.records) = state.records
    BY NoRows DEF StoreInv, TypeOK, Overlaid, State
  <1>5. Exited(w) = t
    BY <1>3, <1>4, SameTables DEF State
  <1> QED BY <1>1, <1>3, <1>5 DEF t

LEMMA ExitedProjection ==
  ASSUME StoreInv, Tallied(state), NEW r \in Runs, NEW report \in Reports, NEW i \in Items, NEW v \in Values
  PROVE  LET w == [NoWrites EXCEPT !.runs = OneRow(r, report), !.records = OneRow(i, v)]
         IN  Lawful(w) /\ Exited(w) = Serial!WithRecord(Serial!WithReport(r, report), i, v)
  <1> DEFINE w == [NoWrites EXCEPT !.runs = OneRow(r, report), !.records = OneRow(i, v)]
             t == Serial!WithReport(r, report)
             b == Serial!WithRecord(t, i, v)
  <1>1. \A k \in Items : k \in DOMAIN OneRow(i, v) => OneRow(i, v)[k] \in Values \cup {None}
    BY DEF OneRow
  <1>2. /\ Lawful(w) /\ Exited(w) \in State /\ Exited(w).records = Overlaid(state.records, OneRow(i, v))
        /\ t \in State /\ t.records = state.records
        /\ \A q \in Runs : Exited(w).runs[q] = t.runs[q] /\ Exited(w).retention[q] = t.retention[q]
    BY <1>1, ExitedReport, ZenonT(30)
  <1> HIDE DEF w, t
  <1>3. b = [records |-> [t.records EXCEPT ![i] = v], runs |-> t.runs, retention |-> t.retention]
    BY <1>2 DEF Serial!WithRecord, State
  <1>4. /\ state.records \in [Items -> Values \cup {None}]
    BY DEF StoreInv, TypeOK, State
  <1>5. /\ b = [records |-> b.records, runs |-> b.runs, retention |-> b.retention]
        /\ b.records = [state.records EXCEPT ![i] = v] /\ b.runs = t.runs /\ b.retention = t.retention
    BY <1>2, <1>3
  <1> HIDE DEF b
  <1>6. /\ b.records = [k \in Items |-> b.records[k]] /\ b.runs = [q \in Runs |-> b.runs[q]]
        /\ b.retention = [q \in Runs |-> b.retention[q]]
    BY <1>2, <1>4, <1>5 DEF State
  <1>7. \A k \in Items : Exited(w).records[k] = b.records[k]
    BY <1>2, <1>4, <1>5 DEF Overlaid, OneRow
  <1>8. Exited(w) = b
    BY <1>2, <1>5, <1>6, <1>7, SameTables
  <1> QED BY <1>2, <1>8 DEF w, t, b

LEMMA ExitedHold ==
  ASSUME StoreInv, Tallied(state), NEW r \in Runs, state.runs[r] # None, NEW held \in BOOLEAN
  PROVE  LET w == [NoWrites EXCEPT !.retention =
                     IF state.retention[r] = None THEN <<>>
                     ELSE OneRow(r, [state.retention[r] EXCEPT !.held = held])]
         IN  Lawful(w) /\ Exited(w) = [state EXCEPT !.retention[r].held = held]
  <1> DEFINE kept == [state.retention[r] EXCEPT !.held = held]
             w == [records |-> NoWrites.records, runs |-> NoWrites.runs, retention |-> OneRow(r, kept)]
             b == [records |-> state.records, runs |-> state.runs,
                   retention |-> [state.retention EXCEPT ![r] = kept]]
  <1>1. /\ state \in State /\ state.retention[r] # None
        /\ state = [records |-> state.records, runs |-> state.runs, retention |-> state.retention]
        /\ state.records \in [Items -> Values \cup {None}]
        /\ state.runs \in [Runs -> Reports \cup {None}] /\ state.retention \in [Runs -> Retained \cup {None}]
    BY DEF StoreInv, TypeOK, State, Tallied
  <1>2. [NoWrites EXCEPT !.retention = IF state.retention[r] = None THEN <<>>
                                       ELSE OneRow(r, [state.retention[r] EXCEPT !.held = held])] = w
    BY <1>1 DEF NoWrites
  <1>3. Lawful(w)
    <2>1. Lawful([NoWrites EXCEPT !.retention = IF state.retention[r] = None THEN <<>>
                                       ELSE OneRow(r, [state.retention[r] EXCEPT !.held = held])])
      BY LawfulHold DEF StoreInv
    <2> QED BY <1>2, <2>1, Zenon
  <1>4. Rows(w)
    BY <1>3 DEF Lawful
  <1>5. DOMAIN w.records = {} /\ DOMAIN w.runs = {} /\ w.retention = OneRow(r, kept)
    BY NoRows
  <1>6. [state EXCEPT !.retention[r].held = held] = b
    BY <1>1
  <1> HIDE DEF w, kept
  <1>7. /\ Exited(w) \in State
        /\ Exited(w).records = Overlaid(state.records, w.records)
        /\ Exited(w).runs = Overlaid(state.runs, w.runs)
        /\ \A q \in Runs :
             LET old == Overlaid(state.retention, w.retention)[q]
             IN  Exited(w).retention[q] =
                   IF Overlaid(state.runs, w.runs)[q] \notin {None, state.runs[q]}
                   THEN [stored |-> clock, held |-> old # None /\ old.held]
                   ELSE old
    BY <1>4, ExitedRows
  <1>8. Overlaid(state.records, w.records) = state.records /\ Overlaid(state.runs, w.runs) = state.runs
    BY <1>1, <1>5 DEF Overlaid
  <1>9. \A q \in Runs : Overlaid(state.retention, w.retention)[q] = IF q = r THEN kept ELSE state.retention[q]
    BY <1>1, <1>5 DEF Overlaid, OneRow
  <1>10. /\ Exited(w).records = b.records /\ Exited(w).runs = b.runs
         /\ \A q \in Runs : Exited(w).retention[q] = b.retention[q]
    BY <1>1, <1>7, <1>8, <1>9
  <1>11. /\ b = [records |-> b.records, runs |-> b.runs, retention |-> b.retention]
         /\ b.records = [i \in Items |-> b.records[i]] /\ b.runs = [q \in Runs |-> b.runs[q]]
         /\ b.retention = [q \in Runs |-> b.retention[q]]
    BY <1>1
  <1> HIDE DEF b
  <1>12. Exited(w) = b
    BY <1>7, <1>10, <1>11, SameTables
  <1> QED BY <1>2, <1>3, <1>6, <1>12

LEMMA ExitedDeletion ==
  ASSUME StoreInv, Tallied(state), NEW plan \in Plan
  PROVE  Lawful(DeleteRuns(plan)) /\ Exited(DeleteRuns(plan)) = Serial!Without(plan.runs)
  <1> DEFINE gone == [r \in plan.runs |-> None]
             w == [records |-> NoWrites.records, runs |-> gone, retention |-> gone]
             b == [records   |-> state.records,
                   runs      |-> [r \in Runs |-> IF r \in plan.runs THEN None ELSE state.runs[r]],
                   retention |-> [r \in Runs |-> IF r \in plan.runs THEN None ELSE state.retention[r]]]
  <1>1. /\ state \in State
        /\ state = [records |-> state.records, runs |-> state.runs, retention |-> state.retention]
        /\ state.records \in [Items -> Values \cup {None}]
        /\ state.runs \in [Runs -> Reports \cup {None}] /\ state.retention \in [Runs -> Retained \cup {None}]
    BY DEF StoreInv, TypeOK, State
  <1>2. DeleteRuns(plan) = w
    BY TwoTables DEF DeleteRuns
  <1>3. Lawful(w)
    BY <1>2, LawfulDeletion, Zenon DEF StoreInv
  <1>4. Rows(w)
    BY <1>3 DEF Lawful
  <1>5. DOMAIN w.records = {} /\ w.runs = gone /\ w.retention = gone
    BY NoRows
  <1>6. Serial!Without(plan.runs) = b
    <2> DEFINE x == [r \in Runs |-> IF r \in plan.runs THEN None ELSE state.runs[r]]
               y == [r \in Runs |-> IF r \in plan.runs THEN None ELSE state.retention[r]]
    <2>1. Serial!Without(plan.runs) = [state EXCEPT !.runs = x, !.retention = y]
      BY Zenon DEF Serial!Without
    <2>2. b = [records |-> state.records, runs |-> x, retention |-> y]
      OBVIOUS
    <2> HIDE DEF x, y, b
    <2> QED BY <1>1, <2>1, <2>2
  <1> HIDE DEF w
  <1>7. /\ Exited(w) \in State
        /\ Exited(w).records = Overlaid(state.records, w.records)
        /\ Exited(w).runs = Overlaid(state.runs, w.runs)
        /\ \A q \in Runs :
             LET old == Overlaid(state.retention, w.retention)[q]
             IN  Exited(w).retention[q] =
                   IF Overlaid(state.runs, w.runs)[q] \notin {None, state.runs[q]}
                   THEN [stored |-> clock, held |-> old # None /\ old.held]
                   ELSE old
    BY <1>4, ExitedRows
  <1>8. Overlaid(state.records, w.records) = state.records
    BY <1>1, <1>5 DEF Overlaid
  <1>9. \A q \in Runs :
          /\ Overlaid(state.runs, w.runs)[q] = IF q \in plan.runs THEN None ELSE state.runs[q]
          /\ Overlaid(state.retention, w.retention)[q] = IF q \in plan.runs THEN None ELSE state.retention[q]
    BY <1>1, <1>5 DEF Overlaid
  <1>10. /\ Exited(w).records = b.records
         /\ \A q \in Runs : Exited(w).runs[q] = b.runs[q] /\ Exited(w).retention[q] = b.retention[q]
    BY <1>1, <1>7, <1>8, <1>9
  <1>11. /\ b = [records |-> b.records, runs |-> b.runs, retention |-> b.retention]
         /\ b.records = [i \in Items |-> b.records[i]] /\ b.runs = [q \in Runs |-> b.runs[q]]
         /\ b.retention = [q \in Runs |-> b.retention[q]]
    BY <1>1
  <1> HIDE DEF b
  <1>12. Exited(w) = b
    BY <1>7, <1>10, <1>11, SameTables
  <1> QED BY <1>2, <1>3, <1>6, <1>12

(* A plan's cutoff has passed.                                             *)
PlansPast == \A plan \in plans : plan.before <= clock

LEMMA PlansStep == StoreInv /\ PlansPast /\ [Next]_vars => PlansPast'
  <1> SUFFICES ASSUME StoreInv, PlansPast, [Next]_vars PROVE PlansPast'
    OBVIOUS
  <1>1. clock \in Nat /\ \A plan \in plans : plan.before \in Nat
    BY DEF StoreInv, TypeOK, Plan
  <1>2. ASSUME UNCHANGED <<plans, clock>> PROVE PlansPast'
    BY <1>2 DEF PlansPast
  <1>3. CASE Tick
    BY <1>1, <1>3 DEF Tick, PlansPast
  <1>4. ASSUME NEW c \in Requests, PreviewRetention(c) PROVE PlansPast'
    <2>1. PICK before \in 1 .. clock : plans' = plans \cup {PlanFor(c, before)}
      BY <1>4 DEF PreviewRetention
    <2>2. UNCHANGED clock /\ PlanFor(c, before).before = before
      BY <1>4 DEF PreviewRetention, PlanFor
    <2> QED BY <1>1, <2>1, <2>2 DEF PlansPast
  <1>5. CASE UNCHANGED vars
    BY <1>2, <1>5 DEF vars
  <1>6. ASSUME NEW c \in Requests, Start(c) \/ Begin(c) \/ Fail(c) PROVE PlansPast'
    BY <1>2, <1>6 DEF Start, Begin, Fail
  <1>7. ASSUME NEW c \in Requests, Operation(c) PROVE PlansPast'
    BY <1>2, <1>4, <1>7 DEF Operation, PutRecord, SaveAnalysisRun, ProjectAnalysisRun, SetRetentionHold,
           ApplyRetention, RecordExport, IssueReceipt, RetainHead, Keeping
  <1>8. ASSUME \/ \E u \in Outsiders : OpenUnsigned(u) \/ UnsignedWrite(u)
               \/ SaveCopy \/ PutBack \/ DropEntry \/ EditRow
        PROVE PlansPast'
    BY <1>2, <1>8 DEF OpenUnsigned, UnsignedWrite, SaveCopy, PutBack, DropEntry, EditRow, Elsewhere
  <1> QED BY <1>3, <1>5, <1>6, <1>7, <1>8 DEF Next

(* Each operation is one whole step of the serial store, or changes        *)
(* nothing.                                                                *)
LEMMA OperationSerial ==
  ASSUME StoreInv, PlansPast, NEW c \in Requests, Operation(c)
  PROVE  [Serial!Next]_(Serial!vars)
  <1> DEFINE Same == UNCHANGED <<state, ledger, clock>>
             Goal == [Serial!Next]_(Serial!vars)
  <1>1. /\ tx[c].phase = "open" /\ clock' = clock /\ Tallied(state)
    BY OperationWrites, WorksOnCertified DEF StoreInv
  <1>2. ASSUME Same PROVE Goal
    BY <1>2 DEF Serial!vars, Shown
  <1>3. ASSUME NEW w, Exit(c, w, None), Lawful(w)
        PROVE  Same \/ Serial!Change(Exited(w))
    BY <1>1, <1>3, ExitLogs DEF Serial!Change, Serial!Logs
  <1>4. ASSUME NEW w, NEW event \in Events, event # None, Exit(c, w, event), Lawful(w)
        PROVE  Shown(ledger) # <<>> /\ Serial!Logs(event, Exited(w))
    BY <1>1, <1>4, ExitLogs DEF Serial!Logs
  <1>5. Lawful(NoWrites) /\ Exited(NoWrites) = state
    BY <1>1, LawfulNothing, NothingWritten DEF StoreInv, TypeOK, Exited
  <1> HIDE DEF Same, Goal
  <1>6. ASSUME PutRecord(c) PROVE Goal
    <2>1. PICK i \in Items, v \in Values \cup {None} :
            Exit(c, [NoWrites EXCEPT !.records = OneRow(i, v)], None)
      BY <1>6 DEF PutRecord
    <2> DEFINE w == [NoWrites EXCEPT !.records = OneRow(i, v)]
    <2>2. Exit(c, w, None) /\ Lawful(w) /\ Exited(w) = Serial!WithRecord(state, i, v)
      BY <1>1, <2>1, ExitedRecord
    <2> HIDE DEF w
    <2>3. Same \/ Serial!Change(Serial!WithRecord(state, i, v))
      BY <1>3, <2>2
    <2>4. ASSUME Serial!Change(Serial!WithRecord(state, i, v)) PROVE Goal
      BY <2>4, Zenon DEF Serial!Put, Serial!Next, Goal
    <2> QED BY <1>2, <2>3, <2>4
  <1>7. ASSUME SaveAnalysisRun(c) PROVE Goal
    <2>1. PICK r \in Runs, report \in Reports : Exit(c, [NoWrites EXCEPT !.runs = OneRow(r, report)], None)
      BY <1>7 DEF SaveAnalysisRun
    <2> DEFINE w == [NoWrites EXCEPT !.runs = OneRow(r, report)]
    <2>2. Exit(c, w, None) /\ Lawful(w) /\ Exited(w) = Serial!WithReport(r, report)
      BY <1>1, <2>1, ExitedRun
    <2> HIDE DEF w
    <2>3. Same \/ Serial!Change(Serial!WithReport(r, report))
      BY <1>3, <2>2
    <2>4. ASSUME Serial!Change(Serial!WithReport(r, report)) PROVE Goal
      BY <2>4, Zenon DEF Serial!Save, Serial!Next, Goal
    <2> QED BY <1>2, <2>3, <2>4
  <1>8. ASSUME ProjectAnalysisRun(c) PROVE Goal
    <2>1. PICK r \in Runs, report \in Reports, i \in Items, v \in Values :
            Exit(c, [NoWrites EXCEPT !.runs = OneRow(r, report), !.records = OneRow(i, v)], None)
      BY <1>8 DEF ProjectAnalysisRun
    <2> DEFINE w == [NoWrites EXCEPT !.runs = OneRow(r, report), !.records = OneRow(i, v)]
               b == Serial!WithRecord(Serial!WithReport(r, report), i, v)
    <2>2. Exit(c, w, None) /\ Lawful(w) /\ Exited(w) = b
      BY <1>1, <2>1, ExitedProjection
    <2> HIDE DEF w
    <2>3. Same \/ Serial!Change(b)
      BY <1>3, <2>2
    <2>4. ASSUME Serial!Change(b) PROVE Goal
      BY <2>4, Zenon DEF Serial!Project, Serial!Next, Goal
    <2> QED BY <1>2, <2>3, <2>4
  <1>9. ASSUME SetRetentionHold(c) PROVE Goal
    <2>1. PICK r \in {q \in Runs : state.runs[q] # None}, held \in BOOLEAN :
            Exit(c, [NoWrites EXCEPT !.retention =
                       IF state.retention[r] = None THEN <<>>
                       ELSE OneRow(r, [state.retention[r] EXCEPT !.held = held])],
                 "retention_hold")
      BY <1>9 DEF SetRetentionHold, Holds
    <2> DEFINE w == [NoWrites EXCEPT !.retention =
                       IF state.retention[r] = None THEN <<>>
                       ELSE OneRow(r, [state.retention[r] EXCEPT !.held = held])]
               b == [state EXCEPT !.retention[r].held = held]
    <2>2. Exit(c, w, "retention_hold") /\ Lawful(w) /\ Exited(w) = b
      BY <1>1, <2>1, ExitedHold
    <2>3. "retention_hold" \in Events /\ "retention_hold" # None
      BY EventsAssumption DEF Events
    <2> HIDE DEF w
    <2>4. Shown(ledger) # <<>> /\ Serial!Logs("retention_hold", b)
      BY <1>4, <2>2, <2>3
    <2> QED BY <2>4, Zenon DEF Serial!Hold, Serial!Next, Goal
  <1>10. ASSUME ApplyRetention(c) PROVE Goal
    <2>1. PICK plan \in plans :
            plan = PlanFor(c, plan.before) /\ Exit(c, DeleteRuns(plan), "retention_applied")
      BY <1>10 DEF ApplyRetention, SamePlan
    <2>2. /\ plan \in Plan /\ plan.before \in Nat /\ clock \in Nat /\ plan.before <= clock
      BY DEF StoreInv, TypeOK, Plan, PlansPast
    <2>3. Lawful(DeleteRuns(plan)) /\ Exited(DeleteRuns(plan)) = Serial!Without(plan.runs)
      BY <1>1, <2>2, ExitedDeletion
    <2>4. "retention_applied" \in Events /\ "retention_applied" # None
      BY EventsAssumption DEF Events
    <2>5. Shown(ledger) # <<>> /\ Serial!Logs("retention_applied", Serial!Without(plan.runs))
      BY <1>4, <2>1, <2>3, <2>4
    <2>6. plan.runs \subseteq Expendable(state, plan.before)
      <3>1. \A before : PlanFor(c, before).runs \subseteq Expendable(state, before)
        BY DEF PlanFor
      <3> QED BY <2>1, <3>1
    <2>7. Expendable(state, plan.before) \subseteq Serial!Expendable
      <3>1. \A r \in Runs : state.retention[r] # None => state.retention[r].stored \in Nat
        BY DEF StoreInv, TypeOK, State, Retained
      <3> QED BY <2>2, <3>1 DEF Expendable, Serial!Expendable
    <2>8. plan.runs \in SUBSET Serial!Expendable
      BY <2>6, <2>7
    <2> QED BY <2>5, <2>8, Zenon DEF Serial!Apply, Serial!Next, Goal
  <1>11. ASSUME RecordExport(c) PROVE Goal
    <2>1. PICK digest \in Exports : Exit(c, NoWrites, digest)
      BY <1>11 DEF RecordExport, ExportEvent
    <2>2. digest \in Events /\ digest # None
      BY RowsAssumption DEF Events
    <2>3. Shown(ledger) # <<>> /\ Serial!Logs(digest, state)
      BY <1>4, <1>5, <2>1, <2>2
    <2> QED BY <2>3, Zenon DEF Serial!Export, Serial!Next, Goal
  <1>12. ASSUME PreviewRetention(c) \/ IssueReceipt(c) \/ RetainHead(c) PROVE Goal
    <2>1. Exit(c, NoWrites, None)
      BY <1>12 DEF PreviewRetention, IssueReceipt, RetainHead
    <2> QED BY <1>1, <1>2, <2>1, NoEntry DEF StoreInv, Same
  <1>13. Goal
    BY <1>6, <1>7, <1>8, <1>9, <1>10, <1>11, <1>12 DEF Operation
  <1> QED BY <1>13 DEF Goal

LEMMA StartSerial ==
  ASSUME StoreInv, Untouched, NEW c \in Requests, Start(c)
  PROVE  [Serial!Next]_(Serial!vars)
  <1>1. UNCHANGED <<state, clock>>
    BY DEF Start
  <1>2. CASE ledger = <<>>
    <2>1. Appends(NoHead, state, {}, "genesis")
      BY <1>2 DEF Start
    <2>2. PICK payload, mac : /\ payload.event = "genesis" /\ payload.time = clock /\ payload.state = state
                              /\ ledger' = Append(ledger, [payload |-> payload, mac |-> mac])
      BY <2>1 DEF Appends
    <2> DEFINE entry == [payload |-> payload, mac |-> mac]
    <2>3. entry.payload = payload /\ ledger' = Append(ledger, entry)
      BY <2>2
    <2> HIDE DEF entry
    <2>4. /\ Shown(ledger') = Append(Shown(ledger), [event |-> "genesis", time |-> clock, tables |-> state])
          /\ Shown(ledger) = <<>>
      BY <1>2, <2>2, <2>3, ShownGrows DEF StoreInv, TypeOK
    <2>5. Shown(ledger)' = Shown(ledger')
      BY DEF Shown
    <2>6. Serial!Enrol
      BY <1>1, <2>4, <2>5 DEF Serial!Enrol, Serial!Logs
    <2> QED BY <2>6 DEF Serial!Next
  <1>3. CASE ledger # <<>>
    <2>1. UNCHANGED ledger
      BY <1>3 DEF Start
    <2> QED BY <1>1, <2>1 DEF Serial!vars, Shown
  <1> QED BY <1>2, <1>3

LEMMA SerialStep ==
  ASSUME StoreInv, PlansPast, Untouched, Untouched', [Next]_vars
  PROVE  [Serial!Next]_(Serial!vars)
  <1>1. ASSUME UNCHANGED <<state, ledger, clock>> PROVE [Serial!Next]_(Serial!vars)
    BY <1>1 DEF Serial!vars, Shown
  <1>2. ASSUME Editing \/ \E u \in Outsiders : UnsignedWrite(u) PROVE FALSE
    BY <1>2 DEF Untouched, Editing, UnsignedWrite
  <1>3. CASE UNCHANGED vars
    BY <1>1, <1>3 DEF vars
  <1>4. ASSUME NEW c \in Requests, Begin(c) \/ Fail(c) PROVE UNCHANGED <<state, ledger, clock>>
    BY <1>4 DEF Begin, Fail, database
  <1>5. ASSUME SaveCopy \/ \E u \in Outsiders : OpenUnsigned(u) PROVE UNCHANGED <<state, ledger, clock>>
    BY <1>5 DEF SaveCopy, OpenUnsigned, Elsewhere
  <1>6. CASE PutBack \/ DropEntry \/ EditRow
    BY <1>2, <1>6 DEF PutBack, DropEntry, EditRow
  <1>7. CASE Tick
    <2>1. UNCHANGED <<state, ledger>> /\ clock' = clock + 1
      BY <1>7 DEF Tick, database
    <2>2. Serial!Tick
      BY <2>1 DEF Serial!Tick, Shown
    <2> QED BY <2>2 DEF Serial!Next
  <1> QED BY <1>1, <1>2, <1>3, <1>4, <1>5, <1>6, <1>7, OperationSerial, StartSerial DEF Next

(* The signed store implements the serial one as long as nobody edits its  *)
(* file (audited_store.py: the lock, the photograph, the bookkeeping and   *)
(* the entry of a transaction are one step to whoever reads the store).    *)
THEOREM ImplementsSerial == Spec => ([]Untouched => SerialStore)
  <1>1. Init => Serial!Init /\ PlansPast
    BY DEF Init, Serial!Init, Shown, PlansPast, Empty
  <1>2. Spec => []PlansPast
    BY <1>1, StoreHolds, PlansStep, PTL DEF Spec
  <1>3. StoreInv /\ PlansPast /\ Untouched /\ Untouched' /\ [Next]_vars => [Serial!Next]_(Serial!vars)
    BY SerialStep
  <1> QED BY <1>1, <1>2, <1>3, StoreHolds, PTL DEF Spec, SerialStore, Serial!Spec
=============================================================================
