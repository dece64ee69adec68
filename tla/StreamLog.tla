------------------------------ MODULE StreamLog ------------------------------
(***************************************************************************)
(* What continuous ingestion promises an analyst, with no processes, locks,*)
(* memory or crashes in it: a log that takes the producer's lines exactly  *)
(* once and in order, a batch at a time, each with the verdict the policy  *)
(* gives it; and an analyst store that shows the findings of a committed   *)
(* prefix of the log, lags it by at most one batch and never goes back.    *)
(* ContinuousIngestion implements it.                                      *)
(***************************************************************************)
EXTENDS StreamPolicy

CONSTANT BatchRecords     (* lines committed at a time, at most            *)

VARIABLES
  source,   (* complete lines written so far                               *)
  log,      (* committed lines, each with its outcome                      *)
  view,     (* how many committed lines the analyst store reflects         *)
  shown     (* the accepted lines whose evidence it shows                  *)

vars == <<source, log, view, shown>>

Init ==
  /\ source = <<>>
  /\ log = <<>>
  /\ view = 0
  /\ shown = {}

Produce ==
  /\ \E line \in Lines : source' = Append(source, line)
  /\ UNCHANGED <<log, view, shown>>

(* The log's next k entries.                                               *)
Judged(k) ==
  [i \in 1 .. k |-> [raw     |-> source[Len(log) + i],
                     outcome |-> Verdict(source, Len(log) + i)]]

(* Nothing is consumed while a delivery is outstanding.                    *)
Commit ==
  /\ view = Len(log)
  /\ \E k \in 1 .. BatchRecords :
       /\ Len(log) + k <= Len(source)
       /\ log' = log \o Judged(k)
  /\ UNCHANGED <<source, view, shown>>

Deliver ==
  /\ view < Len(log)
  /\ view' = Len(log)
  /\ shown' = {n \in 1 .. Len(log) : log[n].outcome = Accepted}
  /\ UNCHANGED <<source, log>>

Next == Produce \/ Commit \/ Deliver

Spec == Init /\ [][Next]_vars
=============================================================================
