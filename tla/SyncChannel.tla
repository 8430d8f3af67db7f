----------------------------- MODULE SyncChannel ----------------------------
(***************************************************************************)
(* Sync channels between services: the handshake Hello, Accept or Reject,  *)
(* Established (src/wire/handshake.rs, the verify_sync functions of        *)
(* src/verification.rs) and the capability claims that travel on a channel *)
(* afterwards (verify_sync_message).                                       *)
(*                                                                         *)
(* The network loses, delays, duplicates, reorders and mangles messages,   *)
(* and delivers them to another connection than they were meant for: what  *)
(* was sent stays in net and can be delivered any time, or never.  A       *)
(* signature is its signer and the input that was signed; a verification   *)
(* that fails returns an error and leaves nothing behind.  Every call here *)
(* finds the document of its counterparty at once: HelloReplay and         *)
(* ClaimReplay model what can happen while it is awaited.                  *)
(***************************************************************************)
EXTENDS DidDocuments, FiniteSets

CONSTANTS
    Conn,         \* connections; each carries one handshake
    Ends,         \* the pairs of services a connection may join
    Federation,   \* the services resolved as PeerKind::Federation
    Window,       \* the time windows an initiator may ask for
    Unbounded,    \* time_window: None
    DefaultWindow,\* DEFAULT_FEDERATION_TIME_WINDOW
    Skew,         \* max_clock_skew
    MaxClaims,    \* bound on the claims sent on a connection
    MaxRejects,   \* bound on the rejections sent
    MaxTime       \* bound on the clock

ASSUME ChannelAssumption ==
    /\ Ends \subseteq {e \in Service \X Service : e[1] # e[2]}
    /\ Unbounded \notin Window \cup (Nat \X Nat)
    /\ DefaultWindow \in Nat /\ Skew \in Nat /\ MaxClaims \in Nat
    /\ MaxRejects \in Nat /\ MaxTime \in Nat

VARIABLES
    ends,       \* who opened each connection, and towards whom
    clock,      \* SystemTime::now() of all of them
    net,        \* every message that was sent
    phase,      \* where the initiator stands
    response,   \* the VerifiedSyncResponse it holds
    pending,    \* what the responder keeps of the hello it accepted
    bound,      \* the connections whose Established the responder verified
    helloSeen,  \* the responders' handshake nonce trackers
    claimSeen,  \* the responders' claim nonce trackers
    delivered,  \* the claims of VerifiedSyncMessages, with their connection
    mismatched  \* the claims that ended in PeerIdentityMismatch, and where

initiatorVars == <<phase, response>>
responderVars == <<pending, bound, helloSeen>>
messageVars   == <<claimSeen, delivered, mismatched>>
vars == <<docVars, ends, clock, net, initiatorVars, responderVars, messageVars>>

Initiator(c) == ends[c][1]
Responder(c) == ends[c][2]

(* No evidence, no signature. *)
None == [kind |-> "none"]

Phases == {"closed", "waiting", "Accepted", "Rejected"}

(* Everyone keeps to its phases, and only what is pending becomes bound. *)
TypeOK ==
    /\ DocTypeOK
    /\ ends \in [Conn -> Ends]
    /\ clock \in Nat
    /\ phase \in [Conn -> Phases]
    /\ \A c \in Conn : phase[c] \in {"Accepted", "Rejected"} <=> response[c] # None
    /\ \A c \in bound : pending[c] # None
    /\ \A c \in Conn : pending[c] # None =>
          \E s \in helloSeen : s = <<Responder(c), pending[c].peer, pending[c].nonce>>

Init ==
    /\ DocInit
    /\ ends \in [Conn -> Ends]
    /\ clock = 0
    /\ net = {}
    /\ phase = [c \in Conn |-> "closed"]
    /\ response = [c \in Conn |-> None]
    /\ pending = [c \in Conn |-> None]
    /\ bound = {} /\ helloSeen = {} /\ claimSeen = {}
    /\ delivered = {} /\ mismatched = {}

Tick ==
    /\ clock < MaxTime
    /\ clock' = clock + 1
    /\ UNCHANGED <<docVars, ends, net, initiatorVars, responderVars, messageVars>>

-----------------------------------------------------------------------------
(* What is signed: every input starts with the domain tag of its message. *)

HelloInput(m) ==
    [domain |-> "hello", identity |-> m.identity, nonce |-> m.nonce,
     scope |-> m.scope, at |-> m.at]

(* Mutation of AcceptInput: the negotiated scope is not signed. *)
AcceptInputWithoutScope(m) ==
    [domain |-> "accept", identity |-> m.identity, session |-> m.session, at |-> m.at]

AcceptInput(m) ==
    [domain |-> "accept", identity |-> m.identity, session |-> m.session,
     scope |-> m.scope, at |-> m.at]

RejectInput(m) ==
    [domain |-> "reject", reason |-> m.reason, identity |-> m.identity, at |-> m.at]

(* Mutation of EstablishedInput: the session id is not signed. *)
EstablishedInputWithoutSession(m, r) ==
    [domain |-> "established", responder |-> r, at |-> m.at]

(* The responder's identity is signed but not sent. *)
EstablishedInput(m, r) ==
    [domain |-> "established", session |-> m.session, responder |-> r, at |-> m.at]

(* sign_handshake_payload, under the current key of the identity. *)
Sign(identity, input) == [signer |-> identity, input |-> input]

SentBy(m, input) == [m EXCEPT !.signature = Sign(m.identity, input)]

(* verify_handshake_signature under the key the identity names, which the     *)
(* document must still list (select_handshake_signing_key).                   *)
Authentic(m, input) ==
    /\ KeyId(m.identity) \in Published(Did(m.identity))
    /\ m.signature = Sign(m.identity, input)

(* check_at_window. *)
Recent(m) == m.at <= clock + Skew /\ clock <= m.at + Skew

(* What may arrive: what was sent, or a mangled form of it.  The session id   *)
(* of a claim is the channel's: no signature covers it.                       *)
Mangled(m) ==
    CASE m.kind \in {"Hello", "Accept"} -> {[m EXCEPT !.scope = w] : w \in Window}
      [] m.kind \in {"Established", "Claim"} ->
            {[m EXCEPT !.session = pending[c].session] :
                c \in {d \in Conn : pending[d] # None}}
      [] OTHER -> {}

Arriving == net \cup UNION {Mangled(m) : m \in net}

Of(kind) == {m \in Arriving : m.kind = kind}

-----------------------------------------------------------------------------
(* Hello *)

(* The initiator opens the connection with a fresh nonce: the connection's.   *)
SendHello(c, w) ==
    LET m == [kind |-> "Hello", identity |-> As(Initiator(c)), nonce |-> c,
              scope |-> w, at |-> clock, signature |-> None]
    IN  /\ phase[c] = "closed"
        /\ phase' = [phase EXCEPT ![c] = "waiting"]
        /\ net' = net \cup {SentBy(m, HelloInput(m))}
        /\ UNCHANGED <<docVars, ends, clock, response, responderVars, messageVars>>

(* verify_sync_hello up to its nonce tracker. *)
HelloVerifies(m) == Recent(m) /\ Authentic(m, HelloInput(m))

Seen(c, m) == <<Responder(c), m.identity, m.nonce>>

Earlier(t) == IF t < DefaultWindow THEN 0 ELSE t - DefaultWindow

(* VerifiedSyncHello::narrowed_scope *)
Narrowed(m) ==
    IF m.scope = Unbounded /\ Did(m.identity) \in Federation
    THEN <<Earlier(clock), clock>> ELSE m.scope

(* derive_session_id, over the nonce and the responder's fresh entropy: no    *)
(* two connections yield the same id.                                         *)
SessionId(c, m) == <<Responder(c), m.nonce, c>>

(* The responder verifies the hello, records its nonce and answers with a     *)
(* session over the narrowed scope.                                           *)
AcceptHello(c, m) ==
    LET a == [kind |-> "Accept", identity |-> As(Responder(c)), session |-> SessionId(c, m),
              scope |-> Narrowed(m), at |-> clock, signature |-> None]
    IN  /\ pending[c] = None
        /\ HelloVerifies(m)
        /\ Seen(c, m) \notin helloSeen
        /\ helloSeen' = helloSeen \cup {Seen(c, m)}
        /\ pending' = [pending EXCEPT ![c] =
                          [peer |-> m.identity, nonce |-> m.nonce, asked |-> m.scope,
                           session |-> a.session, scope |-> a.scope]]
        /\ net' = net \cup {SentBy(a, AcceptInput(a))}
        /\ UNCHANGED <<docVars, ends, clock, initiatorVars, bound, messageVars>>

(* The nonce was seen before, or the responder does not want the session.     *)
RejectHello(c, m) ==
    \E reason \in {"HandshakeNonceReplay", "PolicyDenied"} :
        LET j == [kind |-> "Reject", identity |-> As(Responder(c)), reason |-> reason,
                  at |-> clock, signature |-> None]
        IN  /\ Cardinality({o \in net : o.kind = "Reject"}) < MaxRejects
            /\ HelloVerifies(m)
            /\ reason = "HandshakeNonceReplay" <=> Seen(c, m) \in helloSeen
            /\ reason = "PolicyDenied" => pending[c] = None
            /\ helloSeen' = helloSeen \cup {Seen(c, m)}
            /\ net' = net \cup {SentBy(j, RejectInput(j))}
            /\ UNCHANGED <<docVars, ends, clock, initiatorVars, pending, bound, messageVars>>

-----------------------------------------------------------------------------
(* The initiator takes the response: verify_sync_response. *)

(* CounterpartyIdentityMismatch *)
FromExpected(c, m) == Did(m.identity) = Responder(c)

(* verify_sync_accept, and the Established the initiator sends after it.      *)
TakeAccept(c, m) ==
    LET e == [kind |-> "Established", session |-> m.session, at |-> clock,
              signature |-> None]
        signature == Sign(As(Initiator(c)), EstablishedInput(e, m.identity))
    IN  /\ phase[c] = "waiting"
        /\ FromExpected(c, m)
        /\ Recent(m)
        /\ Authentic(m, AcceptInput(m))
        /\ phase' = [phase EXCEPT ![c] = "Accepted"]
        /\ response' = [response EXCEPT ![c] = m]
        /\ net' = net \cup {[e EXCEPT !.signature = signature]}
        /\ UNCHANGED <<docVars, ends, clock, responderVars, messageVars>>

(* verify_sync_reject *)
TakeReject(c, m) ==
    /\ phase[c] = "waiting"
    /\ FromExpected(c, m)
    /\ Recent(m)
    /\ Authentic(m, RejectInput(m))
    /\ phase' = [phase EXCEPT ![c] = "Rejected"]
    /\ response' = [response EXCEPT ![c] = m]
    /\ UNCHANGED <<docVars, ends, clock, net, responderVars, messageVars>>

-----------------------------------------------------------------------------
(* verify_sync_established: under the key of the hello, which the message     *)
(* does not name, and for the responder's own identity.  The responder binds  *)
(* the session when the id is the one it is waiting for on this connection.   *)
TakeEstablished(c, m) ==
    /\ pending[c] # None
    /\ c \notin bound
    /\ Recent(m)
    /\ \E k \in Key :
          m.signature = Sign(pending[c].peer, EstablishedInput(m, <<Responder(c), k>>))
    /\ m.session = pending[c].session
    /\ bound' = bound \cup {c}
    /\ UNCHANGED <<docVars, ends, clock, net, initiatorVars, pending, helloSeen, messageVars>>

-----------------------------------------------------------------------------
(* Claims on a bound channel. *)

ClaimInput(m) ==
    [domain |-> "claim", identity |-> m.identity, nonce |-> m.nonce, audience |-> m.audience]

(* CapabilityClaim::new, by the initiator of an accepted session. *)
SendClaim(c, n) ==
    LET m == [kind |-> "Claim", session |-> response[c].session, identity |-> As(Initiator(c)),
              nonce |-> <<c, n>>, audience |-> Responder(c), signature |-> None]
    IN  /\ phase[c] = "Accepted"
        /\ \A o \in net : o.kind = "Claim" => o.nonce # m.nonce
        /\ net' = net \cup {SentBy(m, ClaimInput(m))}
        /\ UNCHANGED <<docVars, ends, clock, initiatorVars, responderVars, messageVars>>

Claim(m) == <<Did(m.identity), m.nonce>>

(* Mutation of Burned: the nonce is recorded once the peer has been checked.  *)
BurnedIfDelivered(c, m) ==
    IF m.identity = pending[c].peer THEN {<<Responder(c), m.identity, m.nonce>>} ELSE {}

(* verify_capability_claim records the nonce of the claim before anyone looks *)
(* at the session it came on.                                                 *)
Burned(c, m) == {<<Responder(c), m.identity, m.nonce>>}

(* PeerIdentityMismatch: another service, or another of its keys. *)
SamePeer(c, m) == m.identity = pending[c].peer

(* verify_sync_message on the session table's entry for m.session. *)
TakeClaim(c, m) ==
    /\ c \in bound
    /\ m.session = pending[c].session
    /\ m.audience = Responder(c)
    /\ Authentic(m, ClaimInput(m))
    /\ <<Responder(c), m.identity, m.nonce>> \notin claimSeen
    /\ claimSeen' = claimSeen \cup Burned(c, m)
    /\ IF SamePeer(c, m)
       THEN delivered' = delivered \cup {<<c, Claim(m)>>} /\ UNCHANGED mismatched
       ELSE mismatched' = mismatched \cup {<<c, Claim(m)>>} /\ UNCHANGED delivered
    /\ UNCHANGED <<docVars, ends, clock, net, initiatorVars, responderVars>>

-----------------------------------------------------------------------------
Rotate(p) ==
    /\ RotateKey(p) \/ RetireKey(p)
    /\ UNCHANGED <<ends, clock, net, initiatorVars, responderVars, messageVars>>

Next ==
    \/ Tick
    \/ \E p \in Service : Rotate(p)
    \/ \E c \in Conn :
          \/ \E w \in Window \cup {Unbounded} : SendHello(c, w)
          \/ \E m \in Of("Hello") : AcceptHello(c, m) \/ RejectHello(c, m)
          \/ \E m \in Of("Accept") : TakeAccept(c, m)
          \/ \E m \in Of("Reject") : TakeReject(c, m)
          \/ \E m \in Of("Established") : TakeEstablished(c, m)
          \/ \E n \in 1 .. MaxClaims : SendClaim(c, n)
          \/ \E m \in Of("Claim") : TakeClaim(c, m)

Spec == Init /\ [][Next]_vars

-----------------------------------------------------------------------------
(* Properties *)

(* Nobody is told what its counterparty did not say: a response an initiator  *)
(* holds was sent, as it is, by the service it called; a hello a responder    *)
(* accepted was sent, as it is, by the peer it is booked under.               *)
EvidenceIsGenuine ==
    \A c \in Conn :
        /\ response[c] # None =>
              response[c] \in net /\ Did(response[c].identity) = Responder(c)
        /\ pending[c] # None =>
              \E m \in net : /\ m.kind = "Hello" /\ m.identity = pending[c].peer
                             /\ m.nonce = pending[c].nonce /\ m.scope = pending[c].asked

(* Both ends agree on a bound session: its peer verified an accept for this   *)
(* session from this responder, over the scope the responder keeps, whatever  *)
(* was lost, repeated, mangled or delivered elsewhere in between.  And it is  *)
(* narrower than what was asked for: a federation peer's scope is bounded.    *)
SessionAgreement ==
    \A c \in bound :
        /\ \E d \in Conn :
              /\ Initiator(d) = Did(pending[c].peer)
              /\ phase[d] = "Accepted"
              /\ response[d].session = pending[c].session
              /\ response[d].scope = pending[c].scope
              /\ Did(response[d].identity) = Responder(c)
        /\ pending[c].asked # Unbounded => pending[c].scope = pending[c].asked
        /\ Did(pending[c].peer) \in Federation => pending[c].scope # Unbounded

(* A claim settles once: it is delivered in at most one session, whose peer   *)
(* issued it; and one that was refused because it came under another key is   *)
(* refused for good, also in a session that was opened under that key.        *)
ClaimsSettleOnce ==
    /\ \A x \in delivered : x[2][1] = Did(pending[x[1]].peer)
    /\ \A x, y \in delivered : x[2] = y[2] => x = y
    /\ \A x \in delivered, y \in mismatched :
          x[2] = y[2] => Responder(x[1]) # Responder(y[1])

(* src/wire/handshake.rs says of SyncTimeWindow that the verifier rejects     *)
(* inverted windows at its entry point: no accepted scope has one.            *)
InvertedWindowRejected ==
    \A c \in Conn : pending[c] # None /\ pending[c].asked # Unbounded =>
        pending[c].asked[1] <= pending[c].asked[2]
=============================================================================
