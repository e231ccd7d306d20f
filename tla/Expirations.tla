---------------------------- MODULE Expirations ----------------------------
(***************************************************************************)
(* contracts/src/expiration.rs: points in time given by a block height or  *)
(* a block time, durations of either kind, and their partial order.        *)
(* A block is a record [height, time].  Sums, multiples and successors of  *)
(* durations (Add, Mul, plus_one) are left out: no handler computes any.   *)
(***************************************************************************)
EXTENDS Weights

Block == [height : U64, time : U64]

AtHeight(h) == [kind |-> "AtHeight", at |-> h]
AtTime(t) == [kind |-> "AtTime", at |-> t]
Never == [kind |-> "Never", at |-> 0]

FiniteExpiration == [kind : {"AtHeight", "AtTime"}, at : U64]
Expiration == FiniteExpiration \cup {Never}

Duration == [kind : {"Height", "Time"}, len : U64]

----------------------------------------------------------------------------
\* Expiration::is_expired
IsExpired(e, blk) ==
    \/ e.kind = "AtHeight" /\ blk.height >= e.at
    \/ e.kind = "AtTime" /\ blk.time >= e.at

\* Duration::after; the addition must fit a u64 (AfterFits), else it aborts.
After(d, blk) ==
    IF d.kind = "Height" THEN AtHeight(blk.height + d.len)
                         ELSE AtTime(blk.time + d.len)

AfterFits(d, blk) == After(d, blk).at \in U64

(***************************************************************************)
(* Expiration::partial_cmp as the two answers execute_propose asks for:    *)
(* None (a finite height against a finite time) and Some(Greater).         *)
(***************************************************************************)
Incomparable(e, f) ==
    /\ e.kind # f.kind
    /\ "Never" \notin {e.kind, f.kind}

IsGreater(e, f) ==
    \/ e.kind = "Never" /\ f.kind # "Never"
    \/ e.kind = f.kind /\ e.at > f.at

=============================================================================
