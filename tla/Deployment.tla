----------------------------- MODULE Deployment -----------------------------
(***************************************************************************)
(* What an analysis session is started with: the operator's contract, if   *)
(* one is named, decides its network and policy and forbids a model;       *)
(* without one the session takes the model named or bundled and the        *)
(* policy in the project.  The files change while it starts.               *)
(***************************************************************************)
EXTENDS ModelPromotion

CONSTANTS
  Contracts,     (* what the contract's path may hold                      *)
  Policies,      (* what the policy's path may hold                        *)
  Unreadable(_), (* a rule of a policy is not one                          *)
  Datasets       (* what train-dns may be given: sequences of rows         *)

VARIABLES
  contract,      (* what the contract's path holds                         *)
  policy,        (* what the policy's path holds                           *)
  opening,       (* a session that has not yet read its policy             *)
  session,       (* the last session started                               *)
  swapped        (* the policy changed after its digest was checked        *)

service == <<contract, policy, opening, session, swapped>>

NoModel == [kind |-> "none"]
Closed  == [step |-> "closed"]

(* Boundaries are networks, none twice and none within another.            *)
Disjoint(networks) == \A i, j \in DOMAIN networks : i # j => networks[i] \cap networks[j] = {}
ContractValid(c) ==
  /\ c.wellformed /\ c.networks # <<>> /\ Disjoint(c.networks)
  /\ ~c.calibrated /\ c.passive /\ c.model = NoModel
Unhashed(c) == c.pins \in Policies
Pinned(c) == policy = c.pins

(* One bad rule or address spoils the whole policy.                        *)
PolicyReads(p) == \A r \in p.trusted \cup p.bulk \cup p.scanners : ~Unreadable(r)

(* A research candidate is refused; any other object is taken for a model. *)
Loadable(a) == a.kind \notin {"unwritten", "torn", "candidate"}

DeploymentInit ==
  /\ contract \in Contracts /\ policy \in Policies
  /\ opening = Closed /\ session = Closed /\ swapped = FALSE

(* The contract is in force when the environment names it: it tolerates no *)
(* second authority, neither a model nor a network list.                   *)
StartUnderContract ==
  /\ opening = Closed /\ ContractValid(contract) /\ Pinned(contract)
  /\ opening' = [step |-> "opening", contract |-> contract, model |-> NoModel]
  /\ swapped' = FALSE /\ UNCHANGED <<contract, policy, session>> /\ UNCHANGED research
StartWithModel(path) ==
  /\ opening = Closed /\ Loadable(disk[path])
  /\ opening' = [step |-> "opening", contract |-> Closed, model |-> disk[path]]
  /\ swapped' = FALSE /\ UNCHANGED <<contract, policy, session>> /\ UNCHANGED research
(* The bundled model may be absent, but is read whole or not at all.       *)
StartUnmodelled ==
  /\ opening = Closed /\ disk[Demo] = Unwritten
  /\ opening' = [step |-> "opening", contract |-> Closed, model |-> NoModel]
  /\ swapped' = FALSE /\ UNCHANGED <<contract, policy, session>> /\ UNCHANGED research
(* The policy is read again, after its digest was checked.                 *)
ReadPolicy ==
  /\ opening # Closed
  /\ session' = IF ~PolicyReads(policy) THEN session
                ELSE [step |-> "open", contract |-> opening.contract, model |-> opening.model,
                       policy |-> policy, swapped |-> swapped]
  /\ opening' = Closed
  /\ UNCHANGED <<contract, policy, swapped>> /\ UNCHANGED research

EditContract ==
  /\ Change /\ \E c \in Contracts \ {contract} : contract' = c
  /\ UNCHANGED <<manifest, spoiled, disk, policy, opening, session, swapped>>
EditPolicy ==
  /\ Change /\ \E p \in Policies \ {policy} : policy' = p
  /\ swapped' = (swapped \/ opening # Closed)
  /\ UNCHANGED <<manifest, spoiled, disk, contract, opening, session>>

(* train-dns writes its model in place, an earlier one lost at once, but   *)
(* only after the rows were read, trained on and evaluated.                *)
DatasetReads(rows) ==
  /\ \A r \in Range(rows) : r.label \in {0, 1} /\ r.split \in Splits
  /\ \A i, j \in DOMAIN rows : rows[i].domain = rows[j].domain => i = j
  /\ \A r, t \in Range(rows) : r.label = 1 /\ t.label = 1 /\ r.family = t.family => r.split = t.split
Trainable(rows) == {r.label : r \in {t \in Range(rows) : t.split = "train"}} = {0, 1}
Scorable(rows) == \E r \in Range(rows) : r.split = "test"
Trained(rows) == [kind |-> "trained", rows |-> rows]
Retrain(w, rows) ==
  /\ worker[w] = Resting /\ DatasetReads(rows) /\ Trainable(rows) /\ Scorable(rows)
  /\ disk' = [disk EXCEPT ![Demo] = Torn]
  /\ worker' = [worker EXCEPT ![w] = [step |-> "writing", out |-> Demo, artifact |-> Trained(rows)]]
  /\ UNCHANGED <<manifest, spoiled, kills, changes>> /\ UNCHANGED service

DeploymentNext ==
  \/ PromotionNext /\ UNCHANGED service
  \/ StartUnderContract \/ StartUnmodelled \/ ReadPolicy \/ EditContract \/ EditPolicy
  \/ \E p \in Research \cup {Demo} : StartWithModel(p)
  \/ \E w \in Workers, rows \in Datasets : Retrain(w, rows)

DeploymentSpec == PromotionInit /\ DeploymentInit /\ [][DeploymentNext]_<<research, service>>

-----------------------------------------------------------------------------
(* Properties.                                                             *)

(* A session under a contract has no model and runs the policy the         *)
(* contract pins, unless the file changed between its digest and its use;  *)
(* a session without one never runs a research candidate, an approved      *)
(* model it runs has earned it, and one that was trained here was scored   *)
(* on names and malicious families it did not train on (deployment_config, *)
(* dns_model.load, dns_training.py).                                       *)
Apart(rows) ==
  \A r, t \in Range(rows) :
    r.split = "train" /\ t.split = "test" =>
      r.domain # t.domain /\ (r.label = 1 /\ t.label = 1 => r.family # t.family)
SessionAuthority ==
  session # Closed =>
    IF session.contract # Closed
    THEN session.model = NoModel /\ (session.policy = session.contract.pins \/ session.swapped)
    ELSE /\ session.model.kind # "candidate"
         /\ session.model.kind = "model" => Earned(session.model)
         /\ session.model.kind = "trained" => Apart(session.model.rows)
=============================================================================
