---------------------------- MODULE PublicSuffix ----------------------------
(***************************************************************************)
(* The registrable part of a domain under a public suffix snapshot.  A     *)
(* domain is the sequence of its labels; a line of the snapshot is a rule, *)
(* marked "" (exact), "*" (any label before it) or "!" (an exception), or  *)
(* unreadable: a star or a mark inside it, or nothing after its mark.      *)
(***************************************************************************)
EXTENDS Integers, Sequences, FiniteSetsExt

Ruled(snapshot, mark) == {l.labels : l \in {r \in snapshot : r.mark = mark}}
SnapshotReads(snapshot) ==
  /\ \A l \in snapshot : l.mark \in {"", "*", "!"}
  /\ Ruled(snapshot, "") # {}

(* The longest rule decides, a wildcard takes one label more, an exception *)
(* ends the search; a name that is all suffix stands for itself.           *)
RegistrablePart(snapshot, domain) ==
  LET n == Len(domain)
      ending(k) == SubSeq(domain, n - k + 1, n)
      under(mark) == {k \in 1..n : ending(k) \in Ruled(snapshot, mark)}
      suffixes == {1} \cup under("") \cup {k + 1 : k \in under("*") \ {n}}
  IN  IF under("!") # {} THEN ending(Max(under("!")))
      ELSE ending(Min({n, Max(suffixes) + 1}))
=============================================================================
