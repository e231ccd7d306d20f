-------------------------------- MODULE KOfN --------------------------------
(***************************************************************************)
(* What a K of N multisig promises (README, "Each address may have the     *)
(* same weight (K of N), or some may have extra voting power"): a proposal *)
(* runs at most once, and only after members of enough weight approved it, *)
(* each counted once.  It knows neither blocks nor tallies nor ballots.    *)
(***************************************************************************)
EXTENDS Weights

CONSTANTS Member, Id

VARIABLES
    weight,      \* the weight of each member
    needed,      \* the weight that approves a proposal
    approvers,   \* proposal -> the members who approved it
    stage        \* proposal -> "voting", "approved", "dropped" or "done"

kvars == <<weight, needed, approvers, stage>>

Enough(S) == WeightSum(weight, S) >= needed

KInit ==
    /\ DOMAIN weight \subseteq Member
    /\ weight \in [DOMAIN weight -> U64]
    /\ needed \in U64 \ {0}
    /\ approvers = [id \in {} |-> {}]
    /\ stage = [id \in {} |-> "voting"]

Record(id, S, st) ==
    /\ approvers' = [i \in DOMAIN approvers \cup {id} |->
                        IF i = id THEN S ELSE approvers[i]]
    /\ stage' = [i \in DOMAIN stage \cup {id} |->
                        IF i = id THEN st ELSE stage[i]]
    /\ UNCHANGED <<weight, needed>>

\* A vote that is not enough may be given up at any time.
Outcome(S) == IF Enough(S) THEN {"approved"} ELSE {"voting", "dropped"}

Create(id, m) ==
    /\ id \notin DOMAIN stage
    /\ m \in DOMAIN weight
    /\ \E st \in Outcome({m}) : Record(id, {m}, st)

Approve(id, m) ==
    /\ id \in DOMAIN stage
    /\ stage[id] = "voting"
    /\ m \in DOMAIN weight \ approvers[id]
    /\ \E st \in Outcome(approvers[id] \cup {m}) :
          Record(id, approvers[id] \cup {m}, st)

Drop(id) ==
    /\ id \in DOMAIN stage
    /\ stage[id] = "voting"
    /\ Record(id, approvers[id], "dropped")

Run(id) ==
    /\ id \in DOMAIN stage
    /\ stage[id] = "approved"
    /\ Record(id, approvers[id], "done")

KNext ==
    \E id \in Id :
        \/ \E m \in Member : Create(id, m) \/ Approve(id, m)
        \/ Drop(id)
        \/ Run(id)

KSpec == KInit /\ [][KNext]_kvars
=============================================================================
