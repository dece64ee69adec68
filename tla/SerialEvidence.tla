--------------------------- MODULE SerialEvidence ---------------------------
(***************************************************************************)
(* What a signed evidence store promises while nobody but its repositories *)
(* touches the file, with no locks, transactions, photographs, signatures, *)
(* failures or rival processes in it: one table state, and a log in which  *)
(* every change is dated, named and certified the moment it happens.       *)
(* AuditedStore implements it.                                             *)
(***************************************************************************)
EXTENDS Integers, Sequences

CONSTANTS Items, Values, Runs, Reports, Completed, Exports, None

VARIABLES
  tables,   (* incident, alert, feedback and runtime-state rows; runs; and *)
            (* since when each run is kept, and whether it is on hold      *)
  log,      (* every change: what it was, when, and what it made           *)
  now

vars == <<tables, log, now>>

Init ==
  /\ tables = [records   |-> [i \in Items |-> None],
               runs      |-> [r \in Runs |-> None],
               retention |-> [r \in Runs |-> None]]
  /\ log = <<>>
  /\ now = 1

(* A change is made, dated, named and certified in one step.               *)
Logs(event, after) ==
  /\ tables' = after
  /\ log' = Append(log, [event |-> event, time |-> now, tables |-> after])
  /\ UNCHANGED now

Enrol == log = <<>> /\ Logs("genesis", tables)

(* What changes nothing is not logged.                                     *)
Change(after) == log # <<>> /\ after # tables /\ Logs("state_change", after)

WithRecord(s, i, v) == [s EXCEPT !.records[i] = v]

(* A report that is new or altered is as old as this; a hold on it stays.  *)
WithReport(r, report) ==
  IF report = tables.runs[r] THEN tables
  ELSE [tables EXCEPT
          !.runs[r]      = report,
          !.retention[r] = [stored |-> now,
                            held   |-> tables.retention[r] # None /\ tables.retention[r].held]]

Put     == \E i \in Items, v \in Values \cup {None} : Change(WithRecord(tables, i, v))
Save    == \E r \in Runs, report \in Reports : Change(WithReport(r, report))
Project == \E r \in Runs, report \in Reports, i \in Items, v \in Values :
             Change(WithRecord(WithReport(r, report), i, v))

Hold ==
  /\ log # <<>>
  /\ \E r \in {q \in Runs : tables.runs[q] # None}, held \in BOOLEAN :
       Logs("retention_hold", [tables EXCEPT !.retention[r].held = held])

(* A run goes only when it is complete, kept since before now and not on   *)
(* hold, and what is kept about it goes with it.                           *)
Expendable ==
  {r \in Runs : /\ tables.runs[r] \in Completed
                /\ tables.retention[r].stored < now /\ ~tables.retention[r].held}

Without(gone) ==
  [tables EXCEPT !.runs      = [r \in Runs |-> IF r \in gone THEN None ELSE @[r]],
                 !.retention = [r \in Runs |-> IF r \in gone THEN None ELSE @[r]]]

Apply ==
  /\ log # <<>>
  /\ \E gone \in SUBSET Expendable : Logs("retention_applied", Without(gone))

Export == log # <<>> /\ \E digest \in Exports : Logs(digest, tables)

Tick == now' = now + 1 /\ UNCHANGED <<tables, log>>

Next == Enrol \/ Put \/ Save \/ Project \/ Hold \/ Apply \/ Export \/ Tick

Spec == Init /\ [][Next]_vars
=============================================================================
