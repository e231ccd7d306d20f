---------------------------- MODULE MultisigKOfN ----------------------------
(***************************************************************************)
(* Multisig, created with an AbsoluteCount threshold, implements KOfN.     *)
(***************************************************************************)
EXTENDS MultisigProperties

StageOf(status) ==
    CASE status = "Open"     -> "voting"
      [] status = "Passed"   -> "approved"
      [] status = "Executed" -> "done"
      [] OTHER               -> "dropped"

Abstract == INSTANCE KOfN
    WITH Member    <- Addr,
         Id        <- 1 .. MaxProposals,
         weight    <- voters,
         needed    <- config.threshold.weight,
         approvers <- [id \in DOMAIN proposals |-> VotersFor(id, "Yes")],
         stage     <- [id \in DOMAIN proposals |->
                          StageOf(proposals[id].status)]

(***************************************************************************)
(* A contract with an AbsoluteCount threshold behaves like a K of N        *)
(* multisig: its proposals are approved by the recount of the Yes ballots  *)
(* reaching the required weight and in no other way, voting stops at that  *)
(* moment, and what was approved is run once, whenever that happens.       *)
(***************************************************************************)
ImplementsKOfN == Abstract!KSpec
=============================================================================
