------------------------- MODULE ClaimReplayInvariant -----------------------
(* The inductive invariants behind AcceptedAtMostOnce, AcceptedInTime and     *)
(* ReplayHasWitness.                                                         *)
EXTENDS ClaimReplay

(* A call past the early checks presented its claim within its interval,     *)
(* widened by the skew on both sides.                                        *)
PresentedInInterval(r) ==
    InFlight(r) \/ fresh[r] =>
        /\ now[r] <= clock
        /\ NotExpired(claim[r], now[r])
        /\ Begun(claim[r], now[r])
        /\ claim[r].exp <= claim[r].iat + MaxValidity

(* A call in flight lags behind the clock by at most MaxLatency. *)
InTime(r) == InFlight(r) => clock <= now[r] + MaxLatency

(* The tracker holds the nonce a call recorded until Retention has passed.   *)
Remembered(r) ==
    fresh[r] =>
        \/ [nonce |-> claim[r].nonce, at |-> now[r]] \in seen[PartitionOf(claim[r])]
        \/ now[r] + Retention < clock

(* Only a call that the tracker called fresh is accepted or walks a chain.   *)
FreshFirst(r) ==
    /\ result[r] = "Accepted" \/ phase[r] = "chain" => fresh[r]
    /\ phase[r] \in {"idle", "resolving", "recording"} => ~fresh[r]
    /\ phase[r] # "done" => result[r] = None

(* What the invariant says of the one call r. *)
CallInv(r) == PresentedInInterval(r) /\ InTime(r) /\ Remembered(r) /\ FreshFirst(r)

(* Every nonce the tracker holds was put there by a call that found it fresh, *)
(* for its own issuer and key.                                               *)
SeenIsRecorded ==
    \A p \in Partition : \A e \in seen[p] :
        \E q \in Request :
            fresh[q] /\ PartitionOf(claim[q]) = p /\ claim[q].nonce = e.nonce

(* What holds whatever the tracker's retention is.                           *)
BaseInv ==
    /\ TypeOK
    /\ \A r \in Request : CallInv(r)
    /\ SeenIsRecorded
    /\ ReplayHasWitness

(* Of the calls that present one claim, one at most finds it fresh.          *)
FreshAtMostOnce ==
    \A r, q \in Request : fresh[r] /\ fresh[q] /\ claim[r] = claim[q] => r = q

(* What a tracker with a sufficient retention adds.                          *)
IInv == BaseInv /\ FreshAtMostOnce
=============================================================================
