----------------------------- MODULE ChainWalk ------------------------------
(***************************************************************************)
(* Delegation across services: receipts signed hop by hop                  *)
(* (src/wire/receipt.rs), carried in a delegated capability claim and      *)
(* walked by the receiver (verify_attribution_chain and verify_hop of      *)
(* src/verification.rs, step 14 of verify_capability_claim).               *)
(*                                                                         *)
(* Every hop awaits the DID document of the principal that signed it, so   *)
(* documents change while a walk is under way: keys rotate into the        *)
(* rotation history, and old ones leave it.  A signature is modelled by    *)
(* the key that made it and the fields it covers; one under an algorithm   *)
(* that is not accepted is one that no published key verifies.  The reason *)
(* and the time of a hop, which the receipt covers too, are left out.      *)
(***************************************************************************)
EXTENDS DidDocuments, Sequences, FiniteSets

CONSTANTS
    Cap,             \* capability kinds
    MaxDepth,        \* MAX_CHAIN_DEPTH
    Hop              \* the hops that hosts may append to a chain

ASSUME WalkAssumption ==
    /\ MaxDepth \in Nat
    /\ Hop \subseteq [signer : Service \cup User, to : Service \cup User,
                     recipient : Service \cup User,
                     stated : SUBSET Cap, granted : SUBSET Cap]

VARIABLES
    chain,      \* AttributionChainWire of the claim: origin and entries
    authority,  \* origin_authorized_capabilities, from the caller
    claim,      \* issuer and capabilities of the claim that carries the chain
    hop,        \* the hop being verified
    walk        \* where the verification stands, and its verdict

claimVars == <<chain, authority, claim>>
walkVars  == <<docVars, claimVars, hop, walk>>

(* AttributionPrincipal is an Identity: a service with the id of its key, or  *)
(* a user.                                                                    *)
Receipt == [signer : Principal, key : Key, recipient : Identity,
            granted : SUBSET Cap]
Entry   == [principal : Identity, granted : SUBSET Cap, receipt : Receipt]

(* ReceiptVerificationFailure, and what step 14 adds. *)
Failures == {"SignatureInvalid", "PreviousPrincipalUnresolvable",
             "KeyNotInRotationHistory", "CapabilityExpansion", "ClaimExceedsChainTail"}

(* Every variable stays in its type. *)
WalkTypeOK ==
    /\ DocTypeOK
    /\ chain.origin \in Identity
    /\ chain.entries \in Seq(Entry)
    /\ authority \in SUBSET Cap
    /\ claim \in [issuer : Identity, capabilities : SUBSET Cap]
    /\ hop \in 1 .. MaxDepth + 1
    /\ walk \in {"building", "walking", "Accepted", "consumed"} \cup Failures

NoClaim == [issuer |-> <<CHOOSE s \in Service : TRUE, 0>>, capabilities |-> {}]

WalkInit ==
    /\ DocInit
    /\ chain \in [origin : Principal \X {0}, entries : {<<>>}]
    /\ authority \in SUBSET Cap
    /\ claim = NoClaim
    /\ hop = 1
    /\ walk = "building"

-----------------------------------------------------------------------------
(* Building the chain and the claim. *)

(* The principal of the hop before: the origin for the first one. *)
PrincipalBefore(i) == IF i = 1 THEN chain.origin ELSE chain.entries[i - 1].principal

(* sign_delegation_receipt: p signs, under its current key, a grant to q.     *)
(* The payload names the principal before as the one that grants, whoever     *)
(* signs: one that names another is not what the receiver rebuilds.           *)
Signed(p, q, caps) ==
    [signer |-> p, key |-> newest[p], recipient |-> q, granted |-> caps]

(* The chain grows by a hop.  It is assembled by hosts: any principal may     *)
(* have signed the receipt, the last one of the chain if it is honest, and    *)
(* the entry may state other capabilities, or another recipient, than the     *)
(* receipt covers.  Chains deeper than MAX_CHAIN_DEPTH are not built:         *)
(* decode_claim_origin refuses them before the walk.                          *)
Delegate(h) ==
    /\ walk = "building"
    /\ Len(chain.entries) < MaxDepth
    /\ chain' = [chain EXCEPT !.entries =
                    Append(@, [principal |-> As(h.to), granted |-> h.stated,
                               receipt |-> Signed(h.signer, As(h.recipient), h.granted)])]
    /\ UNCHANGED <<docVars, authority, claim, hop, walk>>

(* CapabilityClaim::new_delegated, decoded by the receiver: the chain is not  *)
(* empty, and the claim has passed the checks that come before the walk.      *)
PresentClaim(s, caps) ==
    /\ walk = "building"
    /\ chain.entries # <<>>
    /\ claim' = [issuer |-> As(s), capabilities |-> caps]
    /\ walk' = "walking"
    /\ UNCHANGED <<docVars, chain, authority, hop>>

-----------------------------------------------------------------------------
(* verify_attribution_chain: one step per hop, each with its own document.    *)

(* DelegationReceiptPayload, rebuilt from the entry, is what was signed. *)
Covers(r, e) == r.recipient = e.principal /\ r.granted = e.granted

(* Mutation of ReceiptVerifies: tried under the keys of the hop's own         *)
(* principal, and not of the one before it.                                   *)
ReceiptVerifiesByItself(e, p) ==
    /\ e.receipt.signer = Did(e.principal)
    /\ e.receipt.key \in Published(Did(e.principal))
    /\ Covers(e.receipt, e)

(* verify_delegation_receipt, tried under every key of p's document: one of   *)
(* them made the signature, and over what was rebuilt.  A key is its          *)
(* principal's own, with its number.                                          *)
ReceiptVerifies(e, p) ==
    /\ e.receipt.signer = p
    /\ e.receipt.key \in Published(p)
    /\ Covers(e.receipt, e)

(* Mutation of AuthorizedBefore: every hop is measured against the origin. *)
AuthorizedByOrigin(i) == authority

(* previous_authorized: what hop i may grant at most. *)
AuthorizedBefore(i) == IF i = 1 THEN authority ELSE chain.entries[i - 1].granted

(* The document of the hop's signer has arrived. *)
VerifyHop ==
    LET e == chain.entries[hop]
        verdict == IF ~ReceiptVerifies(e, Did(PrincipalBefore(hop))) THEN "SignatureInvalid"
                   ELSE IF ~(e.granted \subseteq AuthorizedBefore(hop))
                        THEN "CapabilityExpansion"
                   ELSE "walking"
    IN  /\ walk = "walking"
        /\ hop <= Len(chain.entries)
        /\ walk' = verdict
        /\ hop' = IF verdict = "walking" THEN hop + 1 ELSE hop
        /\ UNCHANGED <<docVars, claimVars>>

(* The resolver answers with an error, or with a document that lists no key   *)
(* of the receipt's algorithm.                                                *)
HopNotResolved ==
    /\ walk = "walking"
    /\ hop <= Len(chain.entries)
    /\ walk' \in {"PreviousPrincipalUnresolvable", "KeyNotInRotationHistory"}
    /\ UNCHANGED <<docVars, claimVars, hop>>

(* What the last hop granted. *)
ChainTail == chain.entries[Len(chain.entries)].granted

(* The whole chain is verified: the claim may not exceed its tail. *)
FinishWalk ==
    /\ walk = "walking"
    /\ hop = Len(chain.entries) + 1
    /\ walk' = IF claim.capabilities \subseteq ChainTail THEN "Accepted"
               ELSE "ClaimExceedsChainTail"
    /\ UNCHANGED <<docVars, claimVars, hop>>

(* Evidence is moved into the context that is made from it. *)
Consume ==
    /\ walk' = "consumed"
    /\ chain' = [chain EXCEPT !.entries = <<>>]
    /\ claim' = NoClaim
    /\ authority' = {}
    /\ hop' = 1
    /\ UNCHANGED docVars

WalkNext ==
    \/ \E p \in Principal : (RotateKey(p) \/ RetireKey(p)) /\ UNCHANGED <<claimVars, hop, walk>>
    \/ \E h \in Hop : Delegate(h)
    \/ \E s \in Service, caps \in SUBSET Cap : PresentClaim(s, caps)
    \/ VerifyHop
    \/ HopNotResolved
    \/ FinishWalk

-----------------------------------------------------------------------------
(* Properties *)

(* Hop i is what its principal granted: signed by the principal before, to    *)
(* this very recipient, for these very capabilities.                          *)
GrantedAt(i) ==
    LET e == chain.entries[i]
    IN  /\ e.receipt.signer = Did(PrincipalBefore(i))
        /\ e.receipt.recipient = e.principal
        /\ e.receipt.granted = e.granted

(* A verified chain only ever narrows: its claim asks for no capability that  *)
(* the origin's authority and every single hop, signed by the principal       *)
(* before, did not grant - whoever else signed hops and whatever hosts put    *)
(* into the chain, and however the documents changed during the walk.         *)
AcceptedIsGranted ==
    walk = "Accepted" =>
        \A i \in DOMAIN chain.entries :
            /\ GrantedAt(i)
            /\ claim.capabilities \subseteq chain.entries[i].granted
            /\ chain.entries[i].granted \subseteq authority

(* A receipt is found invalid for a reason that outlives rotations: hop i is  *)
(* no grant of the principal before, or the key that signed it has left that  *)
(* principal's document.  And every hop before the one that fails was         *)
(* granted.                                                                   *)
RefusalHasCause ==
    /\ walk = "SignatureInvalid" =>
           \/ ~GrantedAt(hop)
           \/ chain.entries[hop].receipt.key < oldest[Did(PrincipalBefore(hop))]
    /\ walk \in Failures => \A i \in 1 .. hop - 1 : GrantedAt(i)
=============================================================================
