---------------------------- MODULE StageContract ---------------------------
(***************************************************************************)
(* What a stage made of many items (fields to extract, rules to evaluate)   *)
(* promises to the pipeline, for each pass over the items: results come one *)
(* at a time and each item at most once, a pass that is done has a result   *)
(* for every item, and nothing comes after the end.                         *)
(***************************************************************************)
CONSTANTS Passes, Items

VARIABLES results,   \* items with a result, per pass
          outcome    \* "idle", "open", "done" or "failed", per pass

contractVars == <<results, outcome>>

ContractInit ==
  /\ results = [p \in Passes |-> {}]
  /\ outcome = [p \in Passes |-> "idle"]

Open(p) ==
  /\ outcome[p] = "idle"
  /\ outcome' = [outcome EXCEPT ![p] = "open"]
  /\ UNCHANGED results

Record(p, i) ==
  /\ outcome[p] = "open"
  /\ i \notin results[p]
  /\ results' = [results EXCEPT ![p] = @ \cup {i}]
  /\ UNCHANGED outcome

Finish(p) ==
  /\ outcome[p] \in {"idle", "open"}
  /\ results[p] = Items
  /\ outcome' = [outcome EXCEPT ![p] = "done"]
  /\ UNCHANGED results

(* A pass fails alone; a restart ends all that are open. *)
Abort(some) ==
  /\ \A p \in some : outcome[p] = "open"
  /\ outcome' = [p \in Passes |-> IF p \in some THEN "failed" ELSE outcome[p]]
  /\ UNCHANGED results

ContractNext ==
  \/ \E p \in Passes : Open(p) \/ Finish(p) \/ \E i \in Items : Record(p, i)
  \/ \E some \in SUBSET Passes : Abort(some)

ContractSpec == ContractInit /\ [][ContractNext]_contractVars
=============================================================================
