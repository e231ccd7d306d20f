---------------------------- MODULE OnceOrNever ----------------------------
(***************************************************************************)
(* What the README promises of execution: a proposal that is approved      *)
(* takes effect as a whole and once, or it stays approved and can be tried *)
(* again; nothing in between is ever visible.  It knows neither calls nor  *)
(* transactions, messages that fail or messages that call back.            *)
(***************************************************************************)
EXTENDS Integers

CONSTANT Id

VARIABLES
    stage,     \* proposal -> "voting", "approved", "dropped" or "done"
    size,      \* proposal -> how many effects it has
    effects    \* proposal -> how many of them happened

ovars == <<stage, size, effects>>

OInit ==
    /\ stage = [id \in {} |-> "voting"]
    /\ size = [id \in {} |-> 0]
    /\ effects = [id \in {} |-> 0]

\* One step may vote and execute: the effects of one proposal may bring
\* about the approval, or the effects, of another.
Later(st) ==
    CASE st = "voting"   -> {"voting", "approved", "dropped", "done"}
      [] st = "approved" -> {"approved", "done"}
      [] OTHER           -> {st}

Step(ids) ==
    /\ DOMAIN stage \subseteq ids
    /\ DOMAIN stage' = ids
    /\ DOMAIN size' = ids
    /\ \A id \in DOMAIN stage :
          /\ stage'[id] \in Later(stage[id])
          /\ size'[id] = size[id]
    /\ effects' = [id \in ids |-> IF stage'[id] = "done" THEN size'[id] ELSE 0]

ONext == \E ids \in SUBSET Id : Step(ids)

OSpec == OInit /\ [][ONext]_ovars
=============================================================================
