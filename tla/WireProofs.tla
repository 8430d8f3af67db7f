------------------------------ MODULE WireProofs -----------------------------
(***************************************************************************)
(* Proofs about what services send each other, in two parts that share no  *)
(* variable:                                                               *)
(*                                                                         *)
(*  - SyncChannel, for any services, any number of connections between     *)
(*    them and any network: the evidence both ends hold is genuine, they   *)
(*    agree on the session they bind, and a claim settles once;            *)
(*  - WireForms, for any messages, any changes to their forms on the way   *)
(*    and any bounds: what is accepted was signed, field by field; a       *)
(*    handshake message has one form; and an honest form is read.          *)
(***************************************************************************)
EXTENDS SyncChannel, WireForms, TLAPS

-----------------------------------------------------------------------------
(* SyncChannel: the inductive invariant, in parts. *)

Functional ==
    /\ ends \in [Conn -> Ends] /\ clock \in Nat
    /\ phase \in [Conn -> Phases]
    /\ response = [c \in Conn |-> response[c]]
    /\ pending = [c \in Conn |-> pending[c]]

EndsInv ==
    /\ \A c \in Conn : phase[c] \in {"Accepted", "Rejected"} <=> response[c] # None
    /\ \A c \in bound : c \in Conn /\ pending[c] # None

(* What is in the network was sent: a hello with a signature over it, by the  *)
(* key it names.                                                              *)
SentHello(m) ==
    m = [kind |-> "Hello", identity |-> m.identity, nonce |-> m.nonce, scope |-> m.scope,
         at |-> m.at, signature |-> Sign(m.identity, HelloInput(m))]

(* An accept likewise, and for a session that a responder keeps. *)
SentAccept(m) ==
    /\ m = [kind |-> "Accept", identity |-> m.identity, session |-> m.session,
            scope |-> m.scope, at |-> m.at, signature |-> Sign(m.identity, AcceptInput(m))]
    /\ \E c \in Conn : /\ pending[c] # None
                       /\ m.session = pending[c].session /\ m.scope = pending[c].scope

(* An established by an initiator that has verified an accept of the session. *)
SentEstablished(m) ==
    /\ m = [kind |-> "Established", session |-> m.session, at |-> m.at,
            signature |-> m.signature]
    /\ \E d \in Conn :
          /\ phase[d] = "Accepted"
          /\ Did(m.signature.signer) = Initiator(d)
          /\ m.signature.input.session = response[d].session
          /\ m.signature.input.responder = response[d].identity

SentClaim(m) ==
    m = [kind |-> "Claim", session |-> m.session, identity |-> m.identity,
         nonce |-> m.nonce, audience |-> m.audience, signature |-> m.signature]

Sent(m) ==
    \/ m.kind = "Hello" /\ SentHello(m)
    \/ m.kind = "Accept" /\ SentAccept(m)
    \/ m.kind = "Reject"
    \/ m.kind = "Established" /\ SentEstablished(m)
    \/ m.kind = "Claim" /\ SentClaim(m)

(* No two claims in the network share a nonce. *)
NoncesFresh ==
    \A m, o \in net : m.kind = "Claim" /\ o.kind = "Claim" /\ m.nonce = o.nonce => m = o

ResponseInv(c) ==
    /\ phase[c] = "Accepted" => response[c].kind = "Accept"
    /\ phase[c] \in {"Accepted", "Rejected"} =>
          response[c] \in net /\ Did(response[c].identity) = Responder(c)

PendingInv(c) ==
    pending[c] # None =>
        /\ pending[c].session = <<Responder(c), pending[c].nonce, c>>
        /\ \E m \in net : /\ m.kind = "Hello" /\ m.identity = pending[c].peer
                          /\ m.nonce = pending[c].nonce /\ m.scope = pending[c].asked
        /\ pending[c].asked # Unbounded => pending[c].scope = pending[c].asked
        /\ Did(pending[c].peer) \in Federation => pending[c].scope # Unbounded

(* The initiator at the other end of a bound session. *)
Agrees(d, c) ==
    /\ Initiator(d) = Did(pending[c].peer)
    /\ phase[d] = "Accepted"
    /\ response[d].session = pending[c].session
    /\ response[d].scope = pending[c].scope
    /\ Did(response[d].identity) = Responder(c)

BoundInv == \A c \in bound : \E d \in Conn : Agrees(d, c)

(* A settled claim was sent, to that responder, which has burned its nonce.   *)
Settled(x) ==
    /\ x[1] \in Conn
    /\ \E m \in net : /\ m.kind = "Claim" /\ x[2] = Claim(m)
                      /\ m.audience = Responder(x[1])
                      /\ <<m.audience, m.identity, m.nonce>> \in claimSeen

SettledInv ==
    /\ \A x \in delivered \cup mismatched : Settled(x)
    /\ \A x \in delivered : x[1] \in bound
    /\ ClaimsSettleOnce

IInv ==
    /\ Functional
    /\ EndsInv
    /\ \A m \in net : Sent(m)
    /\ NoncesFresh
    /\ \A c \in Conn : ResponseInv(c) /\ PendingInv(c)
    /\ BoundInv
    /\ SettledInv

-----------------------------------------------------------------------------
(* What may arrive. *)

LEMMA Mangling ==
    ASSUME NEW o, Sent(o), NEW m \in Mangled(o)
    PROVE  /\ m.kind = o.kind /\ m.signature = o.signature /\ o.kind # "Reject"
           /\ o.kind \in {"Hello", "Accept"} => \E w : m = [o EXCEPT !.scope = w]
           /\ o.kind = "Claim" =>
                 m.identity = o.identity /\ m.nonce = o.nonce /\ m.audience = o.audience
<1>1. CASE o.kind = "Hello" /\ SentHello(o)
  <2>1. PICK w : m = [o EXCEPT !.scope = w]
    BY <1>1 DEF Mangled
  <2>2. m.kind = o.kind /\ m.signature = o.signature
    BY <1>1, <2>1 DEF SentHello
  <2>3. QED
    BY <1>1, <2>1, <2>2
<1>2. CASE o.kind = "Accept" /\ SentAccept(o)
  <2>1. PICK w : m = [o EXCEPT !.scope = w]
    BY <1>2 DEF Mangled
  <2>2. m.kind = o.kind /\ m.signature = o.signature
    BY <1>2, <2>1 DEF SentAccept
  <2>3. QED
    BY <1>2, <2>1, <2>2
<1>3. CASE o.kind = "Reject"
  BY <1>3 DEF Mangled
<1>4. CASE o.kind = "Established" /\ SentEstablished(o)
  <2>1. PICK s : m = [o EXCEPT !.session = s]
    BY <1>4 DEF Mangled
  <2>2. QED
    BY <1>4, <2>1 DEF SentEstablished
<1>5. CASE o.kind = "Claim" /\ SentClaim(o)
  <2>1. PICK s : m = [o EXCEPT !.session = s]
    BY <1>5 DEF Mangled
  <2>2. QED
    BY <1>5, <2>1 DEF SentClaim
<1>6. QED
  BY <1>1, <1>2, <1>3, <1>4, <1>5 DEF Sent

LEMMA Arrival ==
    ASSUME \A o \in net : Sent(o), NEW m \in Arriving
    PROVE  m \in net \/ \E o \in net : m \in Mangled(o)
BY DEF Arriving

(* The signatures of hello and accept cover all that is sent: what verifies   *)
(* was sent as it is.                                                         *)
LEMMA HelloAsSent ==
    ASSUME \A o \in net : Sent(o), NEW m \in Of("Hello"), Authentic(m, HelloInput(m))
    PROVE  m \in net
<1>1. m \in Arriving /\ m.kind = "Hello"
  BY DEF Of
<1>2. ASSUME NEW o \in net, m \in Mangled(o) PROVE m \in net
  <2>1. m.kind = o.kind /\ m.signature = o.signature
    BY <1>2, Mangling
  <2>2. PICK w : m = [o EXCEPT !.scope = w]
    BY <1>1, <1>2, <2>1, Mangling
  <2>3. SentHello(o)
    BY <1>1, <2>1 DEF Sent
  <2>4. Sign(m.identity, HelloInput(m)) = Sign(o.identity, HelloInput(o))
    BY <2>1, <2>3 DEF Authentic, SentHello
  <2>5. m.scope = o.scope
    BY <2>4 DEF Sign, HelloInput
  <2>6. m.scope = w
    BY <2>2, <2>3 DEF SentHello
  <2>7. m = o
    BY <2>2, <2>3, <2>5, <2>6 DEF SentHello
  <2>8. QED
    BY <2>7
<1>3. QED
  BY <1>1, <1>2, Arrival

LEMMA AcceptAsSent ==
    ASSUME \A o \in net : Sent(o), NEW m \in Of("Accept"), Authentic(m, AcceptInput(m))
    PROVE  m \in net
<1>1. m \in Arriving /\ m.kind = "Accept"
  BY DEF Of
<1>2. ASSUME NEW o \in net, m \in Mangled(o) PROVE m \in net
  <2>1. m.kind = o.kind /\ m.signature = o.signature
    BY <1>2, Mangling
  <2>2. PICK w : m = [o EXCEPT !.scope = w]
    BY <1>1, <1>2, <2>1, Mangling
  <2>3. SentAccept(o)
    BY <1>1, <2>1 DEF Sent
  <2>4. Sign(m.identity, AcceptInput(m)) = Sign(o.identity, AcceptInput(o))
    BY <2>1, <2>3 DEF Authentic, SentAccept
  <2>5. m.scope = o.scope
    BY <2>4 DEF Sign, AcceptInput
  <2>6. m.scope = w
    BY <2>2, <2>3 DEF SentAccept
  <2>7. m = o
    BY <2>2, <2>3, <2>5, <2>6 DEF SentAccept
  <2>8. QED
    BY <2>7
<1>3. QED
  BY <1>1, <1>2, Arrival

LEMMA RejectAsSent ==
    ASSUME \A o \in net : Sent(o), NEW m \in Of("Reject")
    PROVE  m \in net
BY Arrival, Mangling DEF Of

(* An established and a claim may come under another session than they were   *)
(* sent for.                                                                  *)
LEMMA EstablishedAsSigned ==
    ASSUME \A o \in net : Sent(o), NEW m \in Of("Established")
    PROVE  \E o \in net : SentEstablished(o) /\ o.signature = m.signature
BY Arrival, Mangling DEF Of, Sent

LEMMA ClaimAsMade ==
    ASSUME \A o \in net : Sent(o), NEW m \in Of("Claim")
    PROVE  \E o \in net : /\ o.kind = "Claim" /\ o.identity = m.identity
                          /\ o.nonce = m.nonce /\ o.audience = m.audience
BY Arrival, Mangling DEF Of, Sent

-----------------------------------------------------------------------------
(* What every step leaves alone: what was sent, what is kept of a session,    *)
(* and what an initiator was answered.                                        *)

Extends ==
    /\ ends' = ends /\ net \subseteq net'
    /\ \A c \in Conn : pending[c] # None => pending'[c] = pending[c]
    /\ \A c \in Conn : phase[c] \in {"Accepted", "Rejected"} =>
                           phase'[c] = phase[c] /\ response'[c] = response[c]

LEMMA KeepsSent ==
    ASSUME Extends, NEW m, Sent(m)
    PROVE  Sent(m)'
<1>1. CASE m.kind = "Accept" /\ SentAccept(m)
  BY <1>1 DEF Extends, Sent, SentAccept
<1>2. CASE m.kind = "Established" /\ SentEstablished(m)
  BY <1>2 DEF Extends, Sent, SentEstablished, Initiator
<1>3. CASE m.kind \in {"Hello", "Reject", "Claim"}
  BY <1>3 DEF Sent, SentHello, SentClaim
<1>4. QED
  BY <1>1, <1>2, <1>3 DEF Sent

LEMMA KeepsResponse ==
    ASSUME Extends, NEW c \in Conn, ResponseInv(c),
           phase'[c] = phase[c], response'[c] = response[c]
    PROVE  ResponseInv(c)'
BY DEF Extends, ResponseInv, Responder

LEMMA KeepsPending ==
    ASSUME Extends, NEW c \in Conn, PendingInv(c), pending'[c] = pending[c]
    PROVE  PendingInv(c)'
<1>1. CASE pending[c] = None
  BY <1>1 DEF PendingInv
<1>2. CASE pending[c] # None
  BY <1>2 DEF Extends, PendingInv, Responder
<1>3. QED
  BY <1>1, <1>2

LEMMA KeepsAgreement ==
    ASSUME Extends, NEW c \in Conn, NEW d \in Conn, pending[c] # None, Agrees(d, c)
    PROVE  Agrees(d, c)'
BY DEF Extends, Agrees, Initiator, Responder

LEMMA KeepsSettled ==
    ASSUME Extends, NEW x, Settled(x), claimSeen \subseteq claimSeen'
    PROVE  Settled(x)'
BY DEF Extends, Settled, Responder

(* A step that concerns no claim. *)
NoClaims ==
    /\ UNCHANGED messageVars
    /\ \A m \in net' \ net : m.kind # "Claim"

LEMMA KeepsSettlements ==
    ASSUME IInv, Extends, UNCHANGED messageVars, bound \subseteq bound'
    PROVE  SettledInv'
<1>1. delivered' = delivered /\ mismatched' = mismatched /\ claimSeen' = claimSeen
  BY DEF messageVars
<1>2. \A x \in delivered \cup mismatched : Settled(x)'
  BY <1>1, KeepsSettled DEF IInv, SettledInv
<1>3. \A x \in delivered : pending'[x[1]] = pending[x[1]]
  BY DEF IInv, SettledInv, EndsInv, Extends
<1>4. ClaimsSettleOnce'
  BY <1>1, <1>3 DEF IInv, SettledInv, ClaimsSettleOnce, Extends, Responder
<1>5. QED
  BY <1>1, <1>2, <1>4 DEF IInv, SettledInv

LEMMA KeepsClaims ==
    ASSUME IInv, Extends, NoClaims, bound \subseteq bound'
    PROVE  NoncesFresh' /\ SettledInv'
<1>1. NoncesFresh'
  BY DEF IInv, Extends, NoClaims, NoncesFresh
<1>2. QED
  BY <1>1, KeepsSettlements DEF NoClaims

(* A step keeps the invariant if what it does itself is in order. *)
LEMMA StepKeeps ==
    ASSUME IInv, Extends, Functional', EndsInv', NoncesFresh', SettledInv',
           \A m \in net' \ net : Sent(m)',
           \A c \in Conn :
               \/ phase'[c] = phase[c] /\ response'[c] = response[c]
               \/ ResponseInv(c)',
           \A c \in Conn : pending'[c] = pending[c] \/ PendingInv(c)',
           \A c \in bound' \ bound : \E d \in Conn : Agrees(d, c)'
    PROVE  IInv'
<1>1. \A m \in net' : Sent(m)'
  BY KeepsSent DEF IInv, Extends
<1>2. ASSUME NEW c \in Conn PROVE ResponseInv(c)' /\ PendingInv(c)'
  BY KeepsResponse, KeepsPending DEF IInv
<1>3. BoundInv'
  <2>1. ASSUME NEW c \in bound PROVE \E d \in Conn : Agrees(d, c)'
    <3>1. c \in Conn /\ pending[c] # None
      BY DEF IInv, EndsInv
    <3>2. PICK d \in Conn : Agrees(d, c)
      BY DEF IInv, BoundInv
    <3>3. QED
      BY <3>1, <3>2, KeepsAgreement
  <2>2. QED
    BY <2>1 DEF BoundInv
<1>4. QED
  BY <1>1, <1>2, <1>3 DEF IInv

-----------------------------------------------------------------------------
(* The steps. *)

LEMMA HelloSent ==
    ASSUME IInv, NEW c \in Conn, NEW w, SendHello(c, w)
    PROVE  IInv'
<1> DEFINE m == [kind |-> "Hello", identity |-> As(Initiator(c)), nonce |-> c,
                 scope |-> w, at |-> clock, signature |-> None]
<1>1. PICK h : h = [kind |-> "Hello", identity |-> As(Initiator(c)), nonce |-> c,
                    scope |-> w, at |-> clock,
                    signature |-> Sign(As(Initiator(c)), HelloInput(m))]
  OBVIOUS
<1>2. /\ phase[c] = "closed" /\ phase' = [phase EXCEPT ![c] = "waiting"]
      /\ net' = net \cup {h}
      /\ UNCHANGED <<ends, clock, response, pending, bound, messageVars>>
  BY <1>1 DEF SendHello, SentBy, responderVars
<1>3. Sent(h)' /\ h.kind = "Hello"
  BY <1>1 DEF Sent, SentHello, HelloInput, Sign
<1>4. Functional' /\ Extends /\ EndsInv'
  <2>1. Functional'
    BY <1>2 DEF IInv, Functional, Phases
  <2>2. Extends
    BY <1>2 DEF IInv, Functional, Extends
  <2>3. EndsInv'
    BY <1>2 DEF IInv, Functional, EndsInv
  <2>4. QED
    BY <2>1, <2>2, <2>3
<1>5. NoncesFresh' /\ SettledInv'
  BY <1>2, <1>3, <1>4, KeepsClaims DEF NoClaims
<1>6. \A d \in Conn : \/ phase'[d] = phase[d] /\ response'[d] = response[d]
                   \/ ResponseInv(d)'
  BY <1>2 DEF IInv, Functional, ResponseInv
<1>7. \A x \in net' \ net : Sent(x)'
  BY <1>2, <1>3
<1>8. QED
  BY <1>2, <1>4, <1>5, <1>6, <1>7, StepKeeps

LEMMA NarrowedScope ==
    ASSUME IInv, NEW m
    PROVE  /\ m.scope # Unbounded => Narrowed(m) = m.scope
           /\ Did(m.identity) \in Federation => Narrowed(m) # Unbounded
<1>1. clock \in Nat /\ Earlier(clock) \in Nat
  BY ChannelAssumption DEF IInv, Functional, Earlier
<1>2. <<Earlier(clock), clock>> \in Nat \X Nat
  BY <1>1
<1>3. <<Earlier(clock), clock>> # Unbounded
  BY <1>2, ChannelAssumption
<1>4. QED
  BY <1>3 DEF Narrowed

LEMMA HelloAccepted ==
    ASSUME IInv, NEW c \in Conn, NEW m \in Of("Hello"), AcceptHello(c, m)
    PROVE  IInv'
<1> DEFINE b == [kind |-> "Accept", identity |-> As(Responder(c)), session |-> SessionId(c, m),
                 scope |-> Narrowed(m), at |-> clock, signature |-> None]
<1>1. PICK a : a = [kind |-> "Accept", identity |-> As(Responder(c)),
                    session |-> SessionId(c, m), scope |-> Narrowed(m), at |-> clock,
                    signature |-> Sign(As(Responder(c)), AcceptInput(b))]
  OBVIOUS
<1>2. PICK p : p = [peer |-> m.identity, nonce |-> m.nonce, asked |-> m.scope,
                    session |-> SessionId(c, m), scope |-> Narrowed(m)]
  OBVIOUS
<1>3. /\ pending[c] = None /\ pending' = [pending EXCEPT ![c] = p]
      /\ net' = net \cup {a}
      /\ UNCHANGED <<ends, clock, phase, response, bound, messageVars>>
      /\ Authentic(m, HelloInput(m))
  BY <1>1, <1>2 DEF AcceptHello, SentBy, initiatorVars, HelloVerifies
<1>4. p # None /\ pending'[c] = p /\ \A d \in Conn \ {c} : pending'[d] = pending[d]
  BY <1>2, <1>3 DEF IInv, Functional, None
<1>5. Functional' /\ Extends /\ EndsInv'
  <2>1. Functional'
    BY <1>3 DEF IInv, Functional
  <2>2. Extends
    BY <1>3, <1>4 DEF Extends
  <2>3. EndsInv'
    BY <1>3, <1>4 DEF IInv, EndsInv
  <2>4. QED
    BY <2>1, <2>2, <2>3
<1>6. Sent(a)' /\ a.kind = "Accept"
  <2>1. a = [kind |-> "Accept", identity |-> a.identity, session |-> a.session,
             scope |-> a.scope, at |-> a.at, signature |-> Sign(a.identity, AcceptInput(a))]
    BY <1>1 DEF AcceptInput
  <2>2. a.session = p.session /\ a.scope = p.scope
    BY <1>1, <1>2
  <2>3. QED
    BY <1>4, <2>1, <2>2 DEF Sent, SentAccept
<1>7. NoncesFresh' /\ SettledInv'
  BY <1>3, <1>5, <1>6, KeepsClaims DEF NoClaims
<1>8. PendingInv(c)'
  <2>1. m \in net /\ m.kind = "Hello"
    BY <1>3, HelloAsSent DEF IInv, Of
  <2>2. p.session = <<Responder(c), p.nonce, c>> /\ Responder(c)' = Responder(c)
    BY <1>2, <1>3 DEF SessionId, Responder
  <2>3. /\ p.asked # Unbounded => p.scope = p.asked
        /\ Did(p.peer) \in Federation => p.scope # Unbounded
    BY <1>2, NarrowedScope
  <2>4. m \in net' /\ m.identity = p.peer /\ m.nonce = p.nonce /\ m.scope = p.asked
    BY <1>2, <1>3, <2>1
  <2>5. QED
    BY <1>4, <2>1, <2>2, <2>3, <2>4 DEF PendingInv
<1>9. \A x \in net' \ net : Sent(x)'
  BY <1>3, <1>6
<1>10. QED
  BY <1>3, <1>4, <1>5, <1>7, <1>8, <1>9, StepKeeps

LEMMA HelloRejected ==
    ASSUME IInv, NEW c \in Conn, NEW m, RejectHello(c, m)
    PROVE  IInv'
<1>1. PICK j : j.kind = "Reject" /\ net' = net \cup {j}
  BY DEF RejectHello, SentBy
<1>2. UNCHANGED <<ends, clock, phase, response, pending, bound, messageVars>>
  BY DEF RejectHello, initiatorVars
<1>3. Functional' /\ Extends /\ EndsInv'
  BY <1>1, <1>2 DEF IInv, Functional, Extends, EndsInv
<1>4. NoncesFresh' /\ SettledInv'
  BY <1>1, <1>2, <1>3, KeepsClaims DEF NoClaims
<1>5. \A x \in net' \ net : Sent(x)'
  BY <1>1 DEF Sent
<1>6. QED
  BY <1>2, <1>3, <1>4, <1>5, StepKeeps

LEMMA AcceptTaken ==
    ASSUME IInv, NEW c \in Conn, NEW m \in Of("Accept"), TakeAccept(c, m)
    PROVE  IInv'
<1> DEFINE f == [kind |-> "Established", session |-> m.session, at |-> clock,
                 signature |-> None]
<1>1. PICK e : e = [kind |-> "Established", session |-> m.session, at |-> clock,
                    signature |-> Sign(As(Initiator(c)), EstablishedInput(f, m.identity))]
  OBVIOUS
<1>2. /\ phase[c] = "waiting" /\ FromExpected(c, m) /\ Authentic(m, AcceptInput(m))
      /\ phase' = [phase EXCEPT ![c] = "Accepted"]
      /\ response' = [response EXCEPT ![c] = m]
      /\ net' = net \cup {e}
      /\ UNCHANGED <<ends, clock, pending, bound, messageVars>>
  BY <1>1 DEF TakeAccept, responderVars
<1>3. m \in net /\ m.kind = "Accept" /\ m # None
  BY <1>2, AcceptAsSent DEF IInv, Of, None
<1>4. /\ phase'[c] = "Accepted" /\ response'[c] = m
      /\ \A d \in Conn \ {c} : phase'[d] = phase[d] /\ response'[d] = response[d]
  BY <1>2 DEF IInv, Functional
<1>5. Functional' /\ Extends /\ EndsInv'
  <2>1. Functional'
    BY <1>2 DEF IInv, Functional, Phases
  <2>2. Extends
    BY <1>2, <1>4 DEF Extends
  <2>3. EndsInv'
    BY <1>2, <1>3, <1>4 DEF IInv, EndsInv
  <2>4. QED
    BY <2>1, <2>2, <2>3
<1>6. Sent(e)' /\ e.kind = "Established"
  <2>1. /\ e.signature.input.session = m.session
        /\ e.signature.input.responder = m.identity
        /\ Did(e.signature.signer) = Initiator(c)
    BY <1>1 DEF Sign, EstablishedInput, As, Did
  <2>2. Initiator(c)' = Initiator(c)
    BY <1>2 DEF Initiator
  <2>3. e = [kind |-> "Established", session |-> e.session, at |-> e.at,
             signature |-> e.signature]
    BY <1>1
  <2>4. QED
    BY <1>4, <2>1, <2>2, <2>3 DEF Sent, SentEstablished
<1>7. NoncesFresh' /\ SettledInv'
  BY <1>2, <1>5, <1>6, KeepsClaims DEF NoClaims
<1>8. ResponseInv(c)'
  BY <1>2, <1>3, <1>4 DEF ResponseInv, FromExpected, Responder
<1>9. \A x \in net' \ net : Sent(x)'
  BY <1>2, <1>6
<1>10. QED
  BY <1>2, <1>4, <1>5, <1>7, <1>8, <1>9, StepKeeps

LEMMA RejectTaken ==
    ASSUME IInv, NEW c \in Conn, NEW m \in Of("Reject"), TakeReject(c, m)
    PROVE  IInv'
<1>1. /\ phase[c] = "waiting" /\ FromExpected(c, m)
      /\ phase' = [phase EXCEPT ![c] = "Rejected"]
      /\ response' = [response EXCEPT ![c] = m]
      /\ UNCHANGED <<ends, clock, net, pending, bound, messageVars>>
  BY DEF TakeReject, responderVars
<1>2. m \in net /\ m # None
  BY RejectAsSent DEF IInv, Of, None
<1>3. /\ phase'[c] = "Rejected" /\ response'[c] = m
      /\ \A d \in Conn \ {c} : phase'[d] = phase[d] /\ response'[d] = response[d]
  BY <1>1 DEF IInv, Functional
<1>4. Functional' /\ Extends /\ EndsInv'
  <2>1. Functional'
    BY <1>1 DEF IInv, Functional, Phases
  <2>2. Extends
    BY <1>1, <1>3 DEF Extends
  <2>3. EndsInv'
    BY <1>1, <1>2, <1>3 DEF IInv, EndsInv
  <2>4. QED
    BY <2>1, <2>2, <2>3
<1>5. NoncesFresh' /\ SettledInv'
  BY <1>1, <1>4, KeepsClaims DEF NoClaims
<1>6. ResponseInv(c)'
  BY <1>1, <1>2, <1>3 DEF ResponseInv, FromExpected, Responder
<1>7. QED
  BY <1>1, <1>3, <1>4, <1>5, <1>6, StepKeeps

(* A session id names the connection of the responder that drew it.           *)
LEMMA SessionsAreDistinct ==
    ASSUME IInv, NEW c \in Conn, NEW d \in Conn, pending[c] # None, pending[d] # None,
           pending[c].session = pending[d].session
    PROVE  c = d
<1>1. /\ pending[c].session = <<Responder(c), pending[c].nonce, c>>
      /\ pending[d].session = <<Responder(d), pending[d].nonce, d>>
  BY DEF IInv, PendingInv
<1>2. PICK p, q, n, k : <<p, n, c>> = <<q, k, d>>
  BY <1>1, Zenon
<1>3. QED
  BY <1>2

LEMMA EstablishedTaken ==
    ASSUME IInv, NEW c \in Conn, NEW m \in Of("Established"), TakeEstablished(c, m)
    PROVE  IInv'
<1>1. /\ pending[c] # None /\ m.session = pending[c].session
      /\ bound' = bound \cup {c}
      /\ UNCHANGED <<ends, clock, net, phase, response, pending, messageVars>>
  BY DEF TakeEstablished, initiatorVars
<1>2. PICK k : m.signature = Sign(pending[c].peer, EstablishedInput(m, <<Responder(c), k>>))
  BY DEF TakeEstablished
<1>3. PICK o \in net : SentEstablished(o) /\ o.signature = m.signature
  BY EstablishedAsSigned DEF IInv
<1>4. PICK d \in Conn : /\ phase[d] = "Accepted"
                        /\ Did(o.signature.signer) = Initiator(d)
                        /\ o.signature.input.session = response[d].session
                        /\ o.signature.input.responder = response[d].identity
  BY <1>3 DEF SentEstablished
<1>5. /\ Initiator(d) = Did(pending[c].peer)
      /\ response[d].session = pending[c].session
      /\ Did(response[d].identity) = Responder(c)
  BY <1>1, <1>2, <1>3, <1>4 DEF Sign, EstablishedInput, Did
<1>6. response[d].scope = pending[c].scope
  <2>1. response[d] \in net /\ response[d].kind = "Accept"
    BY <1>4 DEF IInv, ResponseInv
  <2>2. SentAccept(response[d])
    BY <2>1 DEF IInv, Sent
  <2>3. PICK b \in Conn : /\ pending[b] # None
                          /\ response[d].session = pending[b].session
                          /\ response[d].scope = pending[b].scope
    BY <2>2 DEF SentAccept
  <2>4. b = c
    BY <1>1, <1>5, <2>3, SessionsAreDistinct
  <2>5. QED
    BY <2>3, <2>4
<1>7. Agrees(d, c)
  BY <1>4, <1>5, <1>6 DEF Agrees
<1>8. Functional' /\ Extends /\ EndsInv'
  BY <1>1 DEF IInv, Functional, Extends, EndsInv
<1>9. NoncesFresh' /\ SettledInv'
  BY <1>1, <1>8, KeepsClaims DEF NoClaims
<1>10. Agrees(d, c)'
  BY <1>1, <1>7, <1>8, KeepsAgreement
<1>11. QED
  BY <1>1, <1>8, <1>9, <1>10, StepKeeps

LEMMA ClaimSent ==
    ASSUME IInv, NEW c \in Conn, NEW n, SendClaim(c, n)
    PROVE  IInv'
<1> DEFINE m == [kind |-> "Claim", session |-> response[c].session,
                 identity |-> As(Initiator(c)), nonce |-> <<c, n>>,
                 audience |-> Responder(c), signature |-> None]
<1>1. PICK q : q = [kind |-> "Claim", session |-> response[c].session,
                    identity |-> As(Initiator(c)), nonce |-> <<c, n>>,
                    audience |-> Responder(c),
                    signature |-> Sign(As(Initiator(c)), ClaimInput(m))]
  OBVIOUS
<1>2. /\ net' = net \cup {q}
      /\ \A o \in net : o.kind = "Claim" => o.nonce # q.nonce
      /\ UNCHANGED <<ends, clock, phase, response, pending, bound, messageVars>>
  BY <1>1 DEF SendClaim, SentBy, initiatorVars, responderVars
<1>3. Sent(q)' /\ q.kind = "Claim"
  BY <1>1 DEF Sent, SentClaim
<1>4. Functional' /\ Extends /\ EndsInv'
  BY <1>2 DEF IInv, Functional, Extends, EndsInv
<1>5. NoncesFresh'
  BY <1>2, <1>3 DEF IInv, NoncesFresh
<1>6. SettledInv'
  BY <1>2, <1>4, KeepsSettlements
<1>7. \A x \in net' \ net : Sent(x)'
  BY <1>2, <1>3
<1>8. QED
  BY <1>2, <1>4, <1>5, <1>6, <1>7, StepKeeps

LEMMA ClaimTaken ==
    ASSUME IInv, NEW c \in Conn, NEW m \in Of("Claim"), TakeClaim(c, m)
    PROVE  IInv'
<1>1. /\ c \in bound /\ m.audience = Responder(c)
      /\ <<m.audience, m.identity, m.nonce>> \notin claimSeen
      /\ claimSeen' = claimSeen \cup {<<m.audience, m.identity, m.nonce>>}
      /\ UNCHANGED <<ends, clock, net, phase, response, pending, bound>>
  BY DEF TakeClaim, Burned, initiatorVars, responderVars
<1>2. PICK o \in net : /\ o.kind = "Claim" /\ o.identity = m.identity
                       /\ o.nonce = m.nonce /\ o.audience = m.audience
  BY ClaimAsMade DEF IInv
<1>3. PICK x : x = <<c, Claim(m)>>
  OBVIOUS
<1>4. \/ /\ delivered' = delivered \cup {x} /\ mismatched' = mismatched
         /\ m.identity = pending[c].peer
      \/ delivered' = delivered /\ mismatched' = mismatched \cup {x}
  BY <1>3 DEF TakeClaim, SamePeer
<1>5. Functional' /\ Extends /\ EndsInv'
  BY <1>1 DEF IInv, Functional, Extends, EndsInv
<1>6. ASSUME NEW y \in delivered \cup mismatched, y[2] = x[2] PROVE FALSE
  <2>1. PICK b \in net : /\ b.kind = "Claim" /\ y[2] = Claim(b)
                         /\ <<b.audience, b.identity, b.nonce>> \in claimSeen
    BY DEF IInv, SettledInv, Settled
  <2>2. Claim(b) = Claim(m)
    BY <1>3, <1>6, <2>1
  <2>3. b.nonce = o.nonce
    BY <1>2, <2>2 DEF Claim
  <2>4. b = o
    BY <1>2, <2>1, <2>3 DEF IInv, NoncesFresh
  <2>5. QED
    BY <1>1, <1>2, <2>1, <2>4
<1>7. Settled(x)'
  <2>1. x[1] = c /\ x[2] = Claim(o)
    BY <1>2, <1>3 DEF Claim
  <2>2. Responder(c)' = Responder(c)
    BY <1>1 DEF Responder
  <2>3. QED
    BY <1>1, <1>2, <2>1, <2>2 DEF Settled
<1>8. \A y \in delivered \cup mismatched : Settled(y)'
  BY <1>1, <1>5, KeepsSettled DEF IInv, SettledInv
<1>9. ClaimsSettleOnce'
  <2>1. \A y \in delivered : y[2][1] = Did(pending[y[1]].peer)
    BY DEF IInv, SettledInv, ClaimsSettleOnce
  <2>2. x[1] = c /\ x[2] = Claim(m) /\ x[2][1] = Did(m.identity)
    BY <1>3 DEF Claim
  <2>3. \A y \in delivered' : y[2][1] = Did(pending'[y[1]].peer)
    BY <1>1, <1>4, <2>1, <2>2
  <2>4. \A y, z \in delivered' : y[2] = z[2] => y = z
    BY <1>4, <1>6 DEF IInv, SettledInv, ClaimsSettleOnce
  <2>5. \A y \in delivered', z \in mismatched' :
            y[2] = z[2] => Responder(y[1])' # Responder(z[1])'
    <3>1. \A y \in delivered, z \in mismatched :
              y[2] = z[2] => Responder(y[1]) # Responder(z[1])
      BY DEF IInv, SettledInv, ClaimsSettleOnce
    <3>2. ends' = ends
      BY <1>1
    <3>3. QED
      BY <1>4, <1>6, <3>1, <3>2 DEF Responder
  <2>6. QED
    BY <2>3, <2>4, <2>5 DEF ClaimsSettleOnce
<1>10. SettledInv'
  BY <1>1, <1>3, <1>4, <1>7, <1>8, <1>9 DEF SettledInv, IInv
<1>11. NoncesFresh'
  BY <1>1 DEF IInv, NoncesFresh
<1>12. QED
  BY <1>1, <1>5, <1>10, <1>11, StepKeeps

LEMMA QuietStep ==
    ASSUME IInv, clock' \in Nat, UNCHANGED <<ends, net, initiatorVars, responderVars, messageVars>>
    PROVE  IInv'
<1>1. Functional' /\ Extends /\ EndsInv'
  BY DEF IInv, Functional, Extends, EndsInv, initiatorVars, responderVars
<1>2. NoncesFresh' /\ SettledInv'
  BY <1>1, KeepsClaims DEF NoClaims, responderVars
<1>3. QED
  BY <1>1, <1>2, StepKeeps DEF initiatorVars, responderVars

-----------------------------------------------------------------------------
LEMMA InitInv == Init => IInv
<1> SUFFICES ASSUME Init PROVE IInv
  OBVIOUS
<1>1. Functional
  BY DEF Init, Functional, Phases
<1>2. EndsInv /\ NoncesFresh /\ BoundInv
  BY DEF Init, EndsInv, NoncesFresh, BoundInv
<1>3. \A c \in Conn : ResponseInv(c) /\ PendingInv(c)
  BY DEF Init, ResponseInv, PendingInv
<1>4. SettledInv
  BY DEF Init, SettledInv, ClaimsSettleOnce
<1>5. \A m \in net : Sent(m)
  BY DEF Init
<1>6. QED
  BY <1>1, <1>2, <1>3, <1>4, <1>5 DEF IInv

LEMMA Inductive == IInv /\ [Next]_vars => IInv'
<1> SUFFICES ASSUME IInv, [Next]_vars PROVE IInv'
  OBVIOUS
<1>a. clock \in Nat
  BY DEF IInv, Functional
<1>1. CASE Tick
  BY <1>1, <1>a, QuietStep DEF Tick
<1>2. ASSUME NEW p \in Service, Rotate(p) PROVE IInv'
  BY <1>2, <1>a, QuietStep DEF Rotate
<1>3. ASSUME NEW c \in Conn, NEW w, SendHello(c, w) PROVE IInv'
  BY <1>3, HelloSent
<1>4. ASSUME NEW c \in Conn, NEW m \in Of("Hello"), AcceptHello(c, m) \/ RejectHello(c, m)
      PROVE  IInv'
  BY <1>4, HelloAccepted, HelloRejected
<1>5. ASSUME NEW c \in Conn, NEW m \in Of("Accept"), TakeAccept(c, m) PROVE IInv'
  BY <1>5, AcceptTaken
<1>6. ASSUME NEW c \in Conn, NEW m \in Of("Reject"), TakeReject(c, m) PROVE IInv'
  BY <1>6, RejectTaken
<1>7. ASSUME NEW c \in Conn, NEW m \in Of("Established"), TakeEstablished(c, m) PROVE IInv'
  BY <1>7, EstablishedTaken
<1>8. ASSUME NEW c \in Conn, NEW n, SendClaim(c, n) PROVE IInv'
  BY <1>8, ClaimSent
<1>9. ASSUME NEW c \in Conn, NEW m \in Of("Claim"), TakeClaim(c, m) PROVE IInv'
  BY <1>9, ClaimTaken
<1>10. CASE UNCHANGED vars
  BY <1>10, <1>a, QuietStep DEF vars
<1>11. QED
  BY <1>1, <1>2, <1>3, <1>4, <1>5, <1>6, <1>7, <1>8, <1>9, <1>10 DEF Next

(* Everything in the network was sent, and what both ends keep of a session   *)
(* goes back to what was sent.                                                *)
THEOREM InductiveInvariant == Spec => []IInv
BY InitInv, Inductive, PTL DEF Spec

(* A response an initiator holds was sent, as it is, by the service it        *)
(* called; a hello a responder accepted was sent, as it is, by its peer.      *)
THEOREM GenuineEvidence == Spec => []EvidenceIsGenuine
<1>1. IInv => EvidenceIsGenuine
  <2> SUFFICES ASSUME IInv, NEW c \in Conn
               PROVE  /\ response[c] # None =>
                            response[c] \in net /\ Did(response[c].identity) = Responder(c)
                      /\ pending[c] # None =>
                            \E m \in net : /\ m.kind = "Hello" /\ m.identity = pending[c].peer
                                           /\ m.nonce = pending[c].nonce
                                           /\ m.scope = pending[c].asked
    BY DEF EvidenceIsGenuine
  <2>1. response[c] # None => phase[c] \in {"Accepted", "Rejected"}
    BY DEF IInv, EndsInv
  <2>2. QED
    BY <2>1 DEF IInv, ResponseInv, PendingInv
<1>2. QED
  BY <1>1, InductiveInvariant, PTL

(* The peer of a bound session verified an accept for it, from this responder *)
(* and over the scope the responder keeps; a federation peer's is bounded.    *)
THEOREM Agreement == Spec => []SessionAgreement
<1>1. IInv => SessionAgreement
  <2> SUFFICES ASSUME IInv, NEW c \in bound
               PROVE  /\ \E d \in Conn : Agrees(d, c)
                      /\ pending[c].asked # Unbounded => pending[c].scope = pending[c].asked
                      /\ Did(pending[c].peer) \in Federation => pending[c].scope # Unbounded
    BY DEF SessionAgreement, Agrees
  <2>1. c \in Conn /\ pending[c] # None
    BY DEF IInv, EndsInv
  <2>2. QED
    BY <2>1 DEF IInv, BoundInv, PendingInv
<1>2. QED
  BY <1>1, InductiveInvariant, PTL

(* A claim is delivered in one session at most, to the peer's issuer, and     *)
(* never after it was refused under another key.                              *)
THEOREM SettledOnce == Spec => []ClaimsSettleOnce
<1>1. IInv => ClaimsSettleOnce
  BY DEF IInv, SettledInv
<1>2. QED
  BY <1>1, InductiveInvariant, PTL

-----------------------------------------------------------------------------
(* WireForms: what the encoding of a field decodes to.  A value is read back  *)
(* to the second and without its rotation evidence (Carry), and what decodes  *)
(* to a value's encoding decodes to the same.                                 *)

(* Seconds and half seconds.                                                  *)
LEMMA Halves ==
    ASSUME NEW s \in Nat, NEW t \in Nat
    PROVE  /\ (2 * s) \div 2 = s
           /\ Whole(t) = 2 * (t \div 2) /\ Whole(t) \div 2 = t \div 2 /\ t \div 2 \in Nat
           /\ t \in Time => t \div 2 \in 0 .. LastSecond
BY FormsAssumption DEF Whole, Time

(* A time is a natural number.                                                *)
LEMMA TimeIsTyped ==
    ASSUME NEW t \in Time
    PROVE  t \in Nat
BY FormsAssumption DEF Time

(* A time that decodes to the seconds of another is its whole seconds.        *)
LEMMA TimeRead ==
    ASSUME NEW v, DecodeTime(v) # Fail, NEW t \in Time,
           EncodeTime(DecodeTime(v)[1]) = EncodeTime(t)
    PROVE  DecodeTime(v)[1] = Whole(t)
<1>1. v[2] \in 0 .. LastSecond /\ DecodeTime(v) = <<2 * v[2]>>
  BY DEF DecodeTime
<1>2. v[2] \in Nat
  BY <1>1, FormsAssumption
<1>3. DecodeTime(v)[1] = 2 * v[2]
  BY <1>1
<1>4. (2 * v[2]) \div 2 = t \div 2
  BY <1>3 DEF EncodeTime
<1>5. QED
  BY <1>2, <1>3, <1>4, Halves, TimeIsTyped

(* A time is read back to the second, and that is encoded the same.           *)
LEMMA TimeCarried ==
    ASSUME NEW t \in Time
    PROVE  /\ DecodeTime(EncodeTime(t)) = <<Whole(t)>>
           /\ EncodeTime(Whole(t)) = EncodeTime(t)
<1>1. EncodeTime(t)[1] = "int" /\ EncodeTime(t)[2] = t \div 2
  BY DEF EncodeTime
<1>2. t \div 2 \in 0 .. LastSecond /\ Whole(t) = 2 * (t \div 2) /\ Whole(t) \div 2 = t \div 2
  BY Halves, TimeIsTyped
<1>3. DecodeTime(EncodeTime(t)) = <<2 * (t \div 2)>>
  BY <1>1, <1>2 DEF DecodeTime
<1>4. QED
  BY <1>2, <1>3 DEF EncodeTime

(* An identity with other rotation evidence.                                  *)
LEMMA WithEvidence ==
    ASSUME NEW i \in ServiceIdentity, NEW e
    PROVE  [i EXCEPT !.evidence = e] = [did |-> i.did, key |-> i.key, evidence |-> e]
BY DEF ServiceIdentity

(* Identities with one encoding have one DID and one key.                     *)
LEMMA IdentityEncoded ==
    ASSUME NEW i \in ServiceIdentity, NEW j, EncodeIdentity(j) = EncodeIdentity(i)
    PROVE  j.did = i.did /\ j.key = i.key
<1>1. EncodeIdentity(j)[2] = j.did /\ EncodeIdentity(j)[3] = j.key
  BY DEF EncodeIdentity
<1>2. EncodeIdentity(i)[2] = i.did /\ EncodeIdentity(i)[3] = i.key
  BY DEF EncodeIdentity
<1>3. QED
  BY <1>1, <1>2

(* What decodes to the encoding of an identity decodes to it, without its     *)
(* evidence.                                                                  *)
LEMMA IdentityRead ==
    ASSUME NEW v, DecodeIdentity(v) # Fail, NEW i \in ServiceIdentity,
           EncodeIdentity(DecodeIdentity(v)[1]) = EncodeIdentity(i)
    PROVE  DecodeIdentity(v)[1] = [i EXCEPT !.evidence = FALSE]
<1> DEFINE j == [did |-> v[2], key |-> v[3], evidence |-> FALSE]
<1>1. DecodeIdentity(v)[1] = j
  BY DEF DecodeIdentity
<1>2. j.did = i.did /\ j.key = i.key
  <2> HIDE DEF j
  <2>1. QED
    BY <1>1, IdentityEncoded
<1>3. j = [did |-> i.did, key |-> i.key, evidence |-> FALSE]
  BY <1>2
<1>4. QED
  BY <1>1, <1>3, WithEvidence

(* An identity is read back without its evidence, and that is encoded the     *)
(* same.                                                                      *)
LEMMA IdentityCarried ==
    ASSUME NEW i \in ServiceIdentity
    PROVE  /\ DecodeIdentity(EncodeIdentity(i)) = <<[i EXCEPT !.evidence = FALSE]>>
           /\ EncodeIdentity([i EXCEPT !.evidence = FALSE]) = EncodeIdentity(i)
<1> DEFINE j == [did |-> i.did, key |-> i.key, evidence |-> FALSE]
<1>1. [i EXCEPT !.evidence = FALSE] = j
  BY WithEvidence
<1>2. /\ EncodeIdentity(i)[1] = "map" /\ EncodeIdentity(i)[2] = i.did
      /\ EncodeIdentity(i)[3] = i.key
  BY DEF EncodeIdentity
<1>3. i.did \in DidName /\ i.key \in SigningKey
  BY DEF ServiceIdentity
<1>4. DecodeIdentity(EncodeIdentity(i)) = <<j>>
  BY <1>2, <1>3 DEF DecodeIdentity
<1>5. j.did = i.did /\ j.key = i.key
  OBVIOUS
<1>6. EncodeIdentity(j) = EncodeIdentity(i)
  BY <1>5 DEF EncodeIdentity
<1>7. QED
  BY <1>1, <1>4, <1>6

(* What decodes to the encoding of a hop decodes to it, to the second.        *)
LEMMA HopRead ==
    ASSUME NEW v, DecodeHop(v) # Fail, NEW h \in Hop,
           EncodeHop(DecodeHop(v)[1]) = EncodeHop(h)
    PROVE  DecodeHop(v)[1] = CarryHop(h)
<1> DEFINE granted == DecodeKindSet(v[2])
           at == DecodeTime(v[3])
<1>1. granted # Fail /\ at # Fail /\ DecodeHop(v) = <<[granted |-> granted[1], at |-> at[1]]>>
  BY DEF DecodeHop
<1> HIDE DEF granted, at
<1>2. /\ DecodeHop(v)[1].granted = granted[1] /\ DecodeHop(v)[1].at = at[1]
      /\ DecodeHop(v)[1] = [granted |-> granted[1], at |-> at[1]]
  BY <1>1
<1>3. /\ EncodeKindSet(granted[1]) = EncodeKindSet(h.granted)
      /\ EncodeTime(at[1]) = EncodeTime(h.at)
  BY <1>2 DEF EncodeHop
<1>4. granted[1] = h.granted
  BY <1>3 DEF EncodeKindSet
<1>5. at[1] = Whole(h.at)
  <2>1. h.at \in Time
    BY DEF Hop
  <2>2. QED
    BY <1>1, <1>3, <2>1, TimeRead DEF at
<1>6. QED
  BY <1>2, <1>4, <1>5 DEF CarryHop

(* A hop is read back to the second, and that is encoded the same.            *)
LEMMA HopCarried ==
    ASSUME NEW h \in Hop
    PROVE  /\ DecodeHop(EncodeHop(h)) = <<CarryHop(h)>>
           /\ EncodeHop(CarryHop(h)) = EncodeHop(h)
<1>1. h.at \in Time /\ h.granted \subseteq Kind
  BY DEF Hop
<1>2. DecodeKindSet(EncodeKindSet(h.granted)) = <<h.granted>>
  BY <1>1 DEF DecodeKindSet, EncodeKindSet
<1>3. /\ DecodeTime(EncodeTime(h.at)) = <<Whole(h.at)>>
      /\ EncodeTime(Whole(h.at)) = EncodeTime(h.at)
  BY <1>1, TimeCarried
<1>4. /\ EncodeHop(h)[1] = "map" /\ EncodeHop(h)[2] = EncodeKindSet(h.granted)
      /\ EncodeHop(h)[3] = EncodeTime(h.at)
  BY DEF EncodeHop
<1>5. DecodeHop(EncodeHop(h)) = <<[granted |-> h.granted, at |-> Whole(h.at)]>>
  BY <1>2, <1>3, <1>4 DEF DecodeHop, Fail
<1>6. CarryHop(h).granted = h.granted /\ CarryHop(h).at = Whole(h.at)
  BY DEF CarryHop
<1>7. QED
  BY <1>3, <1>5, <1>6 DEF CarryHop, EncodeHop

(* The two shapes of an origin.                                               *)
LEMMA OriginTyped ==
    ASSUME NEW x, Typed("origin", x)
    PROVE  \/ x = <<"self">> /\ x[1] = "self"
           \/ x = <<"delegated", x[2]>> /\ x[2] \in Seq(Hop) /\ x[1] # "self"
<1>1. \/ x = <<"self">>
      \/ x = <<"delegated", x[2]>> /\ x[2] \in Seq(Hop)
  BY DEF Typed
<1>2. CASE x = <<"self">>
  BY <1>2
<1>3. CASE x = <<"delegated", x[2]>> /\ x[2] \in Seq(Hop)
  <2>1. PICK hops : x = <<"delegated", hops>>
    BY <1>3
  <2>2. QED
    BY <1>3, <2>1
<1>4. QED
  BY <1>1, <1>2, <1>3

(* What is left of an origin by the trip. *)
CarryOrigin(x) ==
    IF x[1] = "self" THEN x
    ELSE <<"delegated", [h \in DOMAIN x[2] |-> CarryHop(x[2][h])]>>

(* What decodes to the encoding of an origin decodes to it, hop by hop.       *)
LEMMA OriginRead ==
    ASSUME NEW v, DecodeOrigin(v) # Fail, NEW x, Typed("origin", x),
           EncodeOrigin(DecodeOrigin(v)[1]) = EncodeOrigin(x)
    PROVE  DecodeOrigin(v)[1] = CarryOrigin(x)
<1> DEFINE o == DecodeOrigin(v)[1]
<1>0. /\ x[1] = "self" => EncodeOrigin(x) = <<"map", "self_originated">>
      /\ x[1] # "self" => EncodeOrigin(x) =
            <<"map", "delegated_from_upstream", [h \in DOMAIN x[2] |-> EncodeHop(x[2][h])]>>
  BY DEF EncodeOrigin
<1>1. CASE v[1] = "map" /\ v[2] = "self_originated"
  <2>1. o = <<"self">> /\ o[1] = "self"
    BY <1>1 DEF DecodeOrigin
  <2>2. EncodeOrigin(o) = <<"map", "self_originated">>
    BY <2>1 DEF EncodeOrigin
  <2>3. x[1] = "self"
    <3>1. EncodeOrigin(x)[2] = "self_originated"
      BY <2>2
    <3>2. QED
      BY <1>0, <3>1
  <2>4. QED
    BY <2>1, <2>3, OriginTyped DEF CarryOrigin
<1>2. CASE v[1] = "map" /\ v[2] = "delegated_from_upstream"
  <2> DEFINE results == [h \in DOMAIN v[3] |-> DecodeHop(v[3][h])]
             D == [h \in DOMAIN v[3] |-> DecodeHop(v[3][h])[1]]
  <2>1. All(results) # Fail /\ DecodeOrigin(v) = <<<<"delegated", All(results)[1]>>>>
    BY <1>2 DEF DecodeOrigin
  <2>2. (\A h \in DOMAIN v[3] : DecodeHop(v[3][h]) # Fail) /\ All(results) = <<D>>
    BY <2>1 DEF All
  <2>3. o = <<"delegated", D>>
    BY <2>1, <2>2
  <2> HIDE DEF results, o
  <2>4. o[1] = "delegated" /\ o[2] = D
    BY <2>3
  <2>5. EncodeOrigin(o) =
            <<"map", "delegated_from_upstream", [h \in DOMAIN D |-> EncodeHop(D[h])]>>
    BY <2>4 DEF EncodeOrigin
  <2> DEFINE E == [h \in DOMAIN D |-> EncodeHop(D[h])]
             F == [h \in DOMAIN x[2] |-> EncodeHop(x[2][h])]
  <2>6. EncodeOrigin(o) = EncodeOrigin(x)
    BY DEF o
  <2>7. x[1] # "self"
    <3>1. EncodeOrigin(x)[2] = "delegated_from_upstream"
      BY <2>5, <2>6
    <3>2. QED
      BY <1>0, <3>1
  <2>8. E = F
    <3>1. EncodeOrigin(o) = <<"map", "delegated_from_upstream", E>>
      BY <2>5
    <3>2. EncodeOrigin(x) = <<"map", "delegated_from_upstream", F>>
      BY <1>0, <2>7
    <3> HIDE DEF E, F
    <3>3. EncodeOrigin(o)[3] = E /\ EncodeOrigin(x)[3] = F
      BY <3>1, <3>2
    <3>4. QED
      BY <2>6, <3>3
  <2>9. DOMAIN D = DOMAIN v[3] /\ DOMAIN x[2] = DOMAIN v[3]
    BY <2>8
  <2>10. ASSUME NEW h \in DOMAIN v[3] PROVE D[h] = CarryHop(x[2][h])
    <3>1. E[h] = EncodeHop(D[h]) /\ F[h] = EncodeHop(x[2][h]) /\ D[h] = DecodeHop(v[3][h])[1]
      BY <2>9
    <3>2. EncodeHop(DecodeHop(v[3][h])[1]) = EncodeHop(x[2][h])
      BY <2>8, <3>1
    <3>3. x[2][h] \in Hop
      <4>1. x[2] \in Seq(Hop)
        BY <2>7, OriginTyped
      <4>2. QED
        BY <2>9, <4>1
    <3>4. QED
      BY <2>2, <3>1, <3>2, <3>3, HopRead
  <2>11. D = [h \in DOMAIN x[2] |-> CarryHop(x[2][h])]
    BY <2>9, <2>10
  <2>12. CarryOrigin(x) = <<"delegated", [h \in DOMAIN x[2] |-> CarryHop(x[2][h])]>>
    BY <2>7 DEF CarryOrigin
  <2>13. o = CarryOrigin(x)
    <3> HIDE DEF D
    <3>1. QED
      BY <2>3, <2>11, <2>12
  <2>14. QED
    BY <2>13 DEF o
<1>3. QED
  BY <1>1, <1>2 DEF DecodeOrigin

(* An origin within the depth is read back hop by hop; one without a hop      *)
(* would not be.                                                              *)
LEMMA OriginCarried ==
    ASSUME NEW x, Typed("origin", x), x[1] # "self" => x[2] # <<>> /\ Len(x[2]) <= MaxDepth
    PROVE  /\ DecodeOrigin(EncodeOrigin(x)) = <<CarryOrigin(x)>>
           /\ EncodeOrigin(CarryOrigin(x)) = EncodeOrigin(x)
<1>1. CASE x[1] = "self"
  <2>1. x = <<"self">> /\ CarryOrigin(x) = x
    BY <1>1, OriginTyped DEF CarryOrigin
  <2>2. EncodeOrigin(x) = <<"map", "self_originated">>
    BY <1>1 DEF EncodeOrigin
  <2>3. EncodeOrigin(x)[1] = "map" /\ EncodeOrigin(x)[2] = "self_originated"
    BY <2>2
  <2>4. DecodeOrigin(EncodeOrigin(x)) = <<<<"self">>>>
    BY <2>3, Zenon DEF DecodeOrigin
  <2>5. QED
    BY <2>1, <2>4
<1>2. CASE x[1] # "self"
  <2> DEFINE hops == x[2]
             C == [h \in DOMAIN hops |-> CarryHop(hops[h])]
             F == [h \in DOMAIN hops |-> EncodeHop(hops[h])]
             results == [h \in DOMAIN F |-> DecodeHop(F[h])]
  <2>1. x = <<"delegated", hops>> /\ hops \in Seq(Hop) /\ hops # <<>> /\ Len(hops) <= MaxDepth
    BY <1>2, OriginTyped
  <2>2. EncodeOrigin(x) = <<"map", "delegated_from_upstream", F>>
    BY <1>2 DEF EncodeOrigin
  <2>3. CarryOrigin(x) = <<"delegated", C>>
    BY <1>2 DEF CarryOrigin
  <2>4. DOMAIN F = DOMAIN hops /\ DOMAIN C = DOMAIN hops /\ DOMAIN hops = 1 .. Len(hops)
    BY <2>1
  <2>5. \A h \in DOMAIN hops : hops[h] \in Hop
    BY <2>1
  <2>6. \A h \in DOMAIN hops : F[h] = EncodeHop(hops[h]) /\ C[h] = CarryHop(hops[h])
    OBVIOUS
  <2>7. Len(F) = Len(hops) /\ F # <<>>
    <3>1. Len(hops) \in Nat
      BY <2>1
    <3>2. Len(F) = Len(hops)
      BY <2>4, <3>1
    <3>3. 1 \in DOMAIN hops
      BY <2>1
    <3>4. F # <<>>
      BY <2>4, <3>3
    <3>5. QED
      BY <3>2, <3>4
  <2> HIDE DEF F, C
  <2>8. \A h \in DOMAIN F : DecodeHop(F[h]) = <<C[h]>>
    BY <2>4, <2>5, <2>6, HopCarried
  <2>9. All(results) = <<C>>
    <3>1. \A h \in DOMAIN results : results[h] # Fail
      BY <2>8 DEF Fail
    <3>2. DOMAIN results = DOMAIN C
      BY <2>4
    <3>3. [h \in DOMAIN results |-> results[h][1]] = C
      <4>1. \A h \in DOMAIN results : results[h][1] = C[h]
        BY <2>8
      <4>2. C = [h \in DOMAIN C |-> C[h]]
        BY DEF C
      <4>3. QED
        BY <3>2, <4>1, <4>2
    <3> HIDE DEF results
    <3>4. QED
      BY <3>1, <3>3 DEF All
  <2>10. /\ EncodeOrigin(x)[1] = "map" /\ EncodeOrigin(x)[2] = "delegated_from_upstream"
         /\ EncodeOrigin(x)[3] = F
    BY <2>2
  <2>11. DecodeOrigin(EncodeOrigin(x)) = <<<<"delegated", C>>>>
    <3>1. WithinDepth(F)
      BY <2>1, <2>7 DEF WithinDepth
    <3>2. All(results) # Fail /\ All(results)[1] = C
      BY <2>9 DEF Fail
    <3>3. EncodeOrigin(x)[2] # "self_originated"
      BY <2>10
    <3>4. DecodeOrigin(EncodeOrigin(x)) = <<<<"delegated", All(results)[1]>>>>
      <4> DEFINE v == EncodeOrigin(x)
      <4>1. results = [h \in DOMAIN v[3] |-> DecodeHop(v[3][h])]
        BY <2>10
      <4>2. v[1] = "map" /\ v[2] = "delegated_from_upstream" /\ v[3] = F
        BY <2>10
      <4> HIDE DEF v, results
      <4>3. DecodeOrigin(v) = <<<<"delegated", All(results)[1]>>>>
        BY <2>7, <3>1, <3>2, <4>1, <4>2 DEF DecodeOrigin
      <4>4. QED
        BY <4>3 DEF v
    <3>5. QED
      BY <3>2, <3>4
  <2>12. EncodeOrigin(CarryOrigin(x)) = EncodeOrigin(x)
    <3>1. CarryOrigin(x)[1] = "delegated" /\ CarryOrigin(x)[2] = C
      BY <2>3
    <3>2. [h \in DOMAIN C |-> EncodeHop(C[h])] = F
      <4>1. \A h \in DOMAIN hops : EncodeHop(C[h]) = F[h]
        BY <2>5, <2>6, HopCarried
      <4>2. F = [h \in DOMAIN F |-> F[h]]
        BY DEF F
      <4>3. QED
        BY <2>4, <4>1, <4>2
    <3>3. QED
      BY <2>2, <3>1, <3>2 DEF EncodeOrigin
  <2>13. QED
    BY <2>3, <2>11, <2>12
<1>3. QED
  BY <1>1, <1>2

-----------------------------------------------------------------------------
(* The remaining types. *)

(* What decodes to the encoding of a sync scope decodes to it, to the second. *)
LEMMA SyncScopeRead ==
    ASSUME NEW v, DecodeSyncScope(v) # Fail,
           NEW s, s = [nsids |-> s.nsids, window |-> s.window],
           s.window = <<>> \/ s.window \in Time \X Time,
           EncodeSyncScope(DecodeSyncScope(v)[1]) = EncodeSyncScope(s)
    PROVE  DecodeSyncScope(v)[1] = CarryScope(s)
<1> DEFINE d == DecodeSyncScope(v)[1]
           from == DecodeTime(v[3][2])
           until == DecodeTime(v[3][3])
           Encoded(w) == IF w = <<>> THEN <<"null">>
                         ELSE <<"map", EncodeTime(w[1]), EncodeTime(w[2])>>
<1>1. \A t : EncodeSyncScope(t)[2] = t.nsids /\ EncodeSyncScope(t)[3] = Encoded(t.window)
  BY DEF EncodeSyncScope
<1>2. d.nsids = s.nsids /\ Encoded(d.window) = Encoded(s.window)
  BY <1>1
<1>3. \A w : Encoded(w)[1] = IF w = <<>> THEN "null" ELSE "map"
  OBVIOUS
<1>4. d.window = <<>> <=> s.window = <<>>
  <2>1. Encoded(d.window)[1] = Encoded(s.window)[1]
    BY <1>2
  <2> HIDE DEF Encoded
  <2>2. QED
    BY <1>3, <2>1
<1>5. CASE v[3][1] = "null"
  <2>1. d = [nsids |-> v[2], window |-> <<>>]
    BY <1>5 DEF DecodeSyncScope
  <2>2. s.window = <<>> /\ d.nsids = v[2] /\ d.window = <<>>
    BY <1>4, <2>1
  <2>3. QED
    BY <1>2, <2>1, <2>2 DEF CarryScope
<1>6. CASE v[3][1] # "null"
  <2>1. d = [nsids |-> v[2], window |-> <<from[1], until[1]>>] /\ from # Fail /\ until # Fail
    BY <1>6 DEF DecodeSyncScope
  <2> HIDE DEF from, until
  <2>2. d.nsids = v[2] /\ d.window = <<from[1], until[1]>>
    BY <2>1
  <2>3. d.window # <<>> /\ d.window[1] = from[1] /\ d.window[2] = until[1]
    BY <2>2
  <2>4. s.window # <<>> /\ s.window[1] \in Time /\ s.window[2] \in Time
    BY <1>4, <2>3
  <2>5. /\ Encoded(d.window)[2] = EncodeTime(from[1])
        /\ Encoded(d.window)[3] = EncodeTime(until[1])
    BY <2>3
  <2>6. /\ Encoded(s.window)[2] = EncodeTime(s.window[1])
        /\ Encoded(s.window)[3] = EncodeTime(s.window[2])
    BY <2>4
  <2> HIDE DEF Encoded
  <2>7. from[1] = Whole(s.window[1])
    BY <1>2, <2>1, <2>4, <2>5, <2>6, TimeRead DEF from
  <2>8. until[1] = Whole(s.window[2])
    BY <1>2, <2>1, <2>4, <2>5, <2>6, TimeRead DEF until
  <2>9. QED
    BY <1>2, <2>1, <2>2, <2>4, <2>7, <2>8 DEF CarryScope
<1>7. QED
  BY <1>5, <1>6

(* A sync scope is read back to the second.                                   *)
LEMMA SyncScopeCarried ==
    ASSUME NEW s, s = [nsids |-> s.nsids, window |-> s.window],
           s.window = <<>> \/ s.window \in Time \X Time
    PROVE  /\ DecodeSyncScope(EncodeSyncScope(s)) = <<CarryScope(s)>>
           /\ EncodeSyncScope(CarryScope(s)) = EncodeSyncScope(s)
<1> DEFINE v == EncodeSyncScope(s)
<1>1. v[1] = "map" /\ v[2] = s.nsids
  BY DEF EncodeSyncScope
<1>2. CASE s.window = <<>>
  <2>1. v[3] = <<"null">> /\ v[3][1] = "null"
    BY <1>2 DEF EncodeSyncScope
  <2>2. CarryScope(s) = [nsids |-> s.nsids, window |-> <<>>]
    BY <1>2 DEF CarryScope
  <2> HIDE DEF v
  <2>3. DecodeSyncScope(v) = <<[nsids |-> s.nsids, window |-> <<>>]>>
    BY <1>1, <2>1 DEF DecodeSyncScope
  <2>4. CarryScope(s) = s
    BY <1>2, <2>2
  <2>5. QED
    BY <2>2, <2>3, <2>4 DEF v
<1>3. CASE s.window # <<>>
  <2> DEFINE a == s.window[1]
             b == s.window[2]
  <2>1. a \in Time /\ b \in Time
    BY <1>3
  <2>2. v[3] = <<"map", EncodeTime(a), EncodeTime(b)>>
    BY <1>3 DEF EncodeSyncScope
  <2>3. v[3][1] = "map" /\ v[3][2] = EncodeTime(a) /\ v[3][3] = EncodeTime(b)
    BY <2>2
  <2> DEFINE c == CarryScope(s)
  <2>4. c = [nsids |-> s.nsids, window |-> <<Whole(a), Whole(b)>>]
    BY <1>3 DEF CarryScope
  <2>5. /\ DecodeTime(EncodeTime(a)) = <<Whole(a)>> /\ EncodeTime(Whole(a)) = EncodeTime(a)
        /\ DecodeTime(EncodeTime(b)) = <<Whole(b)>> /\ EncodeTime(Whole(b)) = EncodeTime(b)
    BY <2>1, TimeCarried
  <2> HIDE DEF v, a, b, c
  <2>6. DecodeSyncScope(v) = <<c>>
    <3>1. /\ DecodeTime(v[3][2]) = <<Whole(a)>> /\ DecodeTime(v[3][3]) = <<Whole(b)>>
      BY <2>3, <2>5
    <3>2. /\ DecodeTime(v[3][2]) # Fail /\ DecodeTime(v[3][3]) # Fail
          /\ DecodeTime(v[3][2])[1] = Whole(a) /\ DecodeTime(v[3][3])[1] = Whole(b)
      BY <3>1 DEF Fail
    <3>3. QED
      BY <1>1, <2>3, <2>4, <3>2 DEF DecodeSyncScope
  <2>7. c.window # <<>> /\ c.window[1] = Whole(a) /\ c.window[2] = Whole(b) /\ c.nsids = s.nsids
    BY <2>4
  <2>8. EncodeSyncScope(c) = <<"map", s.nsids, <<"map", EncodeTime(a), EncodeTime(b)>>>>
    BY <2>5, <2>7 DEF EncodeSyncScope
  <2>9. EncodeSyncScope(s) = <<"map", s.nsids, <<"map", EncodeTime(a), EncodeTime(b)>>>>
    BY <1>3 DEF EncodeSyncScope, a, b
  <2>10. QED
    BY <2>6, <2>8, <2>9 DEF v, c
<1>4. QED
  BY <1>2, <1>3

(* What is left of a reason by the trip. *)
CarryReason(x) ==
    IF x[1] = "handshake_nonce_replay" THEN <<x[1], Whole(x[2])>> ELSE x

Mismatch == "lexicon_set_major_version_mismatch"

(* The three shapes of a reason. *)
LEMMA ReasonTyped ==
    ASSUME NEW x, Typed("reason", x)
    PROVE  \/ x = <<x[1]>> /\ x[1] \in Bare
           \/ x[1] = "handshake_nonce_replay" /\ x = <<x[1], x[2]>> /\ x[2] \in Time
           \/ x[1] = Mismatch /\ x = <<x[1], x[2], x[3]>>
BY DEF Typed, Mismatch

(* What each shape decodes to. *)
LEMMA ReasonArms ==
    ASSUME NEW v, v[1] = "map"
    PROVE  /\ v[2][1] = Mismatch => DecodeReason(v) = <<<<v[2][1], v[2][2], v[2][3]>>>>
           /\ v[2][1] = "handshake_nonce_replay" /\ DecodeTime(v[2][2]) # Fail =>
                 DecodeReason(v) = <<<<v[2][1], DecodeTime(v[2][2])[1]>>>>
           /\ v[2][1] = "handshake_nonce_replay" /\ DecodeTime(v[2][2]) = Fail =>
                 DecodeReason(v) = Fail
           /\ v[2][1] \in Bare => DecodeReason(v) = <<<<v[2][1]>>>>
           /\ v[2][1] \notin Bare \cup {Mismatch, "handshake_nonce_replay"} =>
                 DecodeReason(v) = Fail
<1> DEFINE r == v[2]
           seen == DecodeTime(r[2])
           bare == IF r[1] \in Bare THEN <<<<r[1]>>>> ELSE Fail
           replay == IF seen = Fail THEN Fail ELSE <<<<r[1], seen[1]>>>>
           mismatch == <<<<r[1], r[2], r[3]>>>>
<1>1. DecodeReason(v) = IF r[1] = Mismatch THEN mismatch
                        ELSE IF r[1] = "handshake_nonce_replay" THEN replay ELSE bare
  BY DEF DecodeReason, Mismatch
<1>2. Mismatch # "handshake_nonce_replay" /\ Mismatch \notin Bare
      /\ "handshake_nonce_replay" \notin Bare
  BY DEF Mismatch, Bare
<1>3. QED
  BY <1>1, <1>2

(* What decodes to the encoding of a reason decodes to it, to the second.     *)
LEMMA ReasonRead ==
    ASSUME NEW v, DecodeReason(v) # Fail, NEW x, Typed("reason", x),
           EncodeReason(DecodeReason(v)[1]) = EncodeReason(x)
    PROVE  DecodeReason(v)[1] = CarryReason(x)
<1> DEFINE d == DecodeReason(v)[1]
           r == v[2]
           Inner(y) == IF y[1] = "handshake_nonce_replay" THEN <<y[1], EncodeTime(y[2])>> ELSE y
<1>1. \A y : EncodeReason(y)[2] = Inner(y)
  BY DEF EncodeReason
<1>2. Inner(d) = Inner(x)
  BY <1>1
<1>3. d[1] = x[1]
  <2>1. \A y : Inner(y)[1] = y[1]
    OBVIOUS
  <2> HIDE DEF Inner, d
  <2>2. QED
    BY <1>2, <2>1
<1>4. CASE x[1] # "handshake_nonce_replay"
  <2>1. Inner(d) = d /\ Inner(x) = x
    BY <1>3, <1>4
  <2>2. QED
    BY <1>2, <1>4, <2>1 DEF CarryReason
<1>5. CASE x[1] = "handshake_nonce_replay"
  <2> DEFINE seen == DecodeTime(r[2])
  <2>1. x[2] \in Time
    BY <1>5, ReasonTyped DEF Bare, Mismatch
  <2>2. Inner(d) = <<d[1], EncodeTime(d[2])>> /\ Inner(x) = <<x[1], EncodeTime(x[2])>>
    BY <1>3, <1>5
  <2>3. EncodeTime(d[2]) = EncodeTime(x[2])
    <3>1. Inner(d)[2] = EncodeTime(d[2]) /\ Inner(x)[2] = EncodeTime(x[2])
      BY <2>2
    <3>2. QED
      BY <1>2, <3>1
  <2>4. seen # Fail /\ d = <<r[1], seen[1]>>
    <3>1. \/ d = <<r[1], r[2], r[3]>> /\ r[1] = Mismatch
          \/ seen # Fail /\ d = <<r[1], seen[1]>>
          \/ d = <<r[1]>> /\ r[1] \in Bare
      <4>1. v[1] = "map"
        BY DEF DecodeReason
      <4>2. QED
        BY <4>1, ReasonArms
    <3> HIDE DEF d, r, seen
    <3>2. d[1] = r[1]
      BY <3>1
    <3>3. QED
      BY <1>3, <1>5, <3>1, <3>2 DEF Mismatch, Bare
  <2> HIDE DEF seen, d
  <2>5. d[2] = seen[1] /\ d[1] = r[1]
    BY <2>4
  <2>6. seen[1] = Whole(x[2])
    BY <2>1, <2>3, <2>4, <2>5, TimeRead DEF seen
  <2>7. CarryReason(x) = <<x[1], Whole(x[2])>>
    BY <1>5 DEF CarryReason
  <2>8. QED
    BY <1>3, <2>4, <2>5, <2>6, <2>7 DEF d
<1>6. QED
  BY <1>4, <1>5

(* A reason is read back to the second.                                       *)
LEMMA ReasonCarried ==
    ASSUME NEW x, Typed("reason", x)
    PROVE  /\ DecodeReason(EncodeReason(x)) = <<CarryReason(x)>>
           /\ EncodeReason(CarryReason(x)) = EncodeReason(x)
<1> DEFINE v == EncodeReason(x)
<1>1. CASE x[1] = "handshake_nonce_replay"
  <2>1. x[2] \in Time
    BY <1>1, ReasonTyped DEF Bare, Mismatch
  <2>2. /\ DecodeTime(EncodeTime(x[2])) = <<Whole(x[2])>>
        /\ EncodeTime(Whole(x[2])) = EncodeTime(x[2])
    BY <2>1, TimeCarried
  <2>3. v = <<"map", <<x[1], EncodeTime(x[2])>>>>
    BY <1>1 DEF EncodeReason
  <2>4. v[1] = "map" /\ v[2][1] = "handshake_nonce_replay" /\ v[2][2] = EncodeTime(x[2])
    BY <1>1, <2>3
  <2>5. CarryReason(x) = <<x[1], Whole(x[2])>>
    BY <1>1 DEF CarryReason
  <2>6. CarryReason(x)[1] = x[1] /\ CarryReason(x)[2] = Whole(x[2])
    BY <2>5
  <2>7. EncodeReason(CarryReason(x)) = v
    BY <1>1, <2>2, <2>3, <2>6 DEF EncodeReason
  <2> HIDE DEF v
  <2>8. DecodeTime(v[2][2]) # Fail /\ DecodeTime(v[2][2])[1] = Whole(x[2])
    BY <2>2, <2>4 DEF Fail
  <2>9. DecodeReason(v) = <<<<v[2][1], Whole(x[2])>>>>
    BY <2>4, <2>8, ReasonArms
  <2>10. QED
    BY <1>1, <2>4, <2>5, <2>7, <2>9 DEF v
<1>2. CASE x[1] # "handshake_nonce_replay"
  <2>1. v = <<"map", x>> /\ CarryReason(x) = x
    BY <1>2 DEF EncodeReason, CarryReason
  <2>2. v[1] = "map" /\ v[2] = x
    BY <2>1
  <2> HIDE DEF v
  <2>3. CASE x = <<x[1]>> /\ x[1] \in Bare
    <3>1. DecodeReason(v) = <<<<x[1]>>>>
      BY <2>2, <2>3, ReasonArms
    <3>2. QED
      BY <2>1, <2>3, <3>1 DEF v
  <2>4. CASE x[1] = Mismatch /\ x = <<x[1], x[2], x[3]>>
    <3>1. DecodeReason(v) = <<<<x[1], x[2], x[3]>>>>
      BY <2>2, <2>4, ReasonArms
    <3>2. QED
      BY <2>1, <2>4, <3>1 DEF v
  <2>5. QED
    BY <1>2, <2>3, <2>4, ReasonTyped
<1>3. QED
  BY <1>1, <1>2

-----------------------------------------------------------------------------
(* By type. *)

(* The types that are carried as they are. *)
Plain == {"did", "kinds", "kindset", "scope", "grant", "root", "bytes", "semver"}

Types == Plain \cup {"identity", "origin", "time", "syncscope", "reason"}

(* What is left of a field by the trip.                                       *)
LEMMA CarryByType ==
    ASSUME NEW x
    PROVE  /\ \A type \in Plain : Carry(type, x) = x
           /\ Carry("identity", x) = [x EXCEPT !.evidence = FALSE]
           /\ Carry("origin", x) = CarryOrigin(x)
           /\ Carry("time", x) = Whole(x)
           /\ Carry("syncscope", x) = CarryScope(x)
           /\ Carry("reason", x) = CarryReason(x)
<1>1. \A type \in Plain : Carry(type, x) = x
  BY DEF Carry, Plain
<1>2. Carry("identity", x) = [x EXCEPT !.evidence = FALSE]
  BY DEF Carry
<1>3. Carry("origin", x) = CarryOrigin(x)
  BY DEF Carry, CarryOrigin
<1>4. Carry("time", x) = Whole(x)
  BY DEF Carry
<1>5. Carry("syncscope", x) = CarryScope(x)
  BY DEF Carry
<1>6. Carry("reason", x) = CarryReason(x)
  BY DEF Carry, CarryReason
<1>7. QED
  BY <1>1, <1>2, <1>3, <1>4, <1>5, <1>6

(* The encoding of a field.                                                   *)
LEMMA EncodeByType ==
    ASSUME NEW x
    PROVE  /\ Encode("did", x) = <<"text", x>>
           /\ \A type \in {"kinds", "semver"} : Encode(type, x) = <<"array", x>>
           /\ \A type \in {"root", "scope", "grant"} : Encode(type, x) = <<"map", x>>
           /\ Encode("bytes", x) = <<"bytes", x, "exact">>
           /\ Encode("kindset", x) = <<"array", x, "ascending">>
           /\ Encode("identity", x) = EncodeIdentity(x)
           /\ Encode("origin", x) = EncodeOrigin(x)
           /\ Encode("time", x) = EncodeTime(x)
           /\ Encode("syncscope", x) = EncodeSyncScope(x)
           /\ Encode("reason", x) = EncodeReason(x)
<1>1. /\ Encode("did", x) = <<"text", x>>
      /\ \A type \in {"kinds", "semver"} : Encode(type, x) = <<"array", x>>
      /\ \A type \in {"root", "scope", "grant"} : Encode(type, x) = <<"map", x>>
  BY DEF Encode
<1>2. /\ Encode("bytes", x) = <<"bytes", x, "exact">>
      /\ Encode("kindset", x) = <<"array", x, "ascending">>
  BY DEF Encode, EncodeKindSet
<1>3. /\ Encode("identity", x) = EncodeIdentity(x)
      /\ Encode("origin", x) = EncodeOrigin(x)
      /\ Encode("time", x) = EncodeTime(x)
  BY DEF Encode
<1>4. /\ Encode("syncscope", x) = EncodeSyncScope(x)
      /\ Encode("reason", x) = EncodeReason(x)
  BY DEF Encode
<1>5. QED
  BY <1>1, <1>2, <1>3, <1>4

(* The decoding of a field.                                                   *)
LEMMA DecodeByType ==
    ASSUME NEW v
    PROVE  /\ Decode("did", v) = (IF v[1] = "text" /\ v[2] \in DidName THEN <<v[2]>> ELSE Fail)
           /\ Decode("kinds", v) = DecodeKinds(v)
           /\ Decode("kindset", v) = DecodeKindSet(v)
           /\ Decode("semver", v) =
                 (IF v[1] = "array" /\ Len(v[2]) = 3 THEN <<v[2]>> ELSE Fail)
           /\ Decode("root", v) = (IF v[1] = "map" THEN <<v[2]>> ELSE Fail)
           /\ Decode("scope", v) = DecodeScope(v)
           /\ Decode("grant", v) = DecodeGrant(v)
           /\ Decode("bytes", v) =
                 (IF v[1] = "bytes" /\ v[3] = "exact" THEN <<v[2]>> ELSE Fail)
           /\ Decode("identity", v) = DecodeIdentity(v)
           /\ Decode("origin", v) = DecodeOrigin(v)
           /\ Decode("time", v) = DecodeTime(v)
           /\ Decode("syncscope", v) = DecodeSyncScope(v)
           /\ Decode("reason", v) = DecodeReason(v)
<1>1. /\ Decode("did", v) = (IF v[1] = "text" /\ v[2] \in DidName THEN <<v[2]>> ELSE Fail)
      /\ Decode("kinds", v) = DecodeKinds(v)
      /\ Decode("kindset", v) = DecodeKindSet(v)
  BY DEF Decode
<1>2. /\ Decode("semver", v) = (IF v[1] = "array" /\ Len(v[2]) = 3 THEN <<v[2]>> ELSE Fail)
      /\ Decode("root", v) = (IF v[1] = "map" THEN <<v[2]>> ELSE Fail)
      /\ Decode("scope", v) = DecodeScope(v)
      /\ Decode("grant", v) = DecodeGrant(v)
  BY DEF Decode
<1>3. Decode("bytes", v) = (IF v[1] = "bytes" /\ v[3] = "exact" THEN <<v[2]>> ELSE Fail)
  BY DEF Decode
<1>4. /\ Decode("identity", v) = DecodeIdentity(v)
      /\ Decode("origin", v) = DecodeOrigin(v)
      /\ Decode("time", v) = DecodeTime(v)
  BY DEF Decode
<1>5. /\ Decode("syncscope", v) = DecodeSyncScope(v)
      /\ Decode("reason", v) = DecodeReason(v)
  BY DEF Decode
<1>6. QED
  BY <1>1, <1>2, <1>3, <1>4, <1>5

(* Values of a plain type with one encoding are one.                          *)
LEMMA PlainEncoded ==
    ASSUME NEW type \in Plain, NEW x, NEW y, Encode(type, x) = Encode(type, y)
    PROVE  x = y
<1>1. Encode(type, x)[2] = x /\ Encode(type, y)[2] = y
  <2>1. \A z : Encode(type, z)[2] = z
    BY EncodeByType DEF Plain
  <2>2. QED
    BY <2>1
<1>2. QED
  BY <1>1

(* What decodes to the encoding of a value decodes to what is left of it.     *)
LEMMA FieldRead ==
    ASSUME NEW type \in Types, NEW v, Decode(type, v) # Fail, NEW x, Typed(type, x),
           Encode(type, Decode(type, v)[1]) = Encode(type, x)
    PROVE  Decode(type, v)[1] = Carry(type, x)
<1>1. CASE type \in Plain
  BY <1>1, PlainEncoded, CarryByType
<1>2. CASE type = "identity"
  <2>1. x \in ServiceIdentity
    BY <1>2 DEF Typed
  <2>2. Decode(type, v) = DecodeIdentity(v)
    BY <1>2, DecodeByType
  <2>3. EncodeIdentity(DecodeIdentity(v)[1]) = EncodeIdentity(x)
    BY <1>2, <2>2, EncodeByType
  <2>4. DecodeIdentity(v)[1] = [x EXCEPT !.evidence = FALSE]
    BY <2>1, <2>2, <2>3, IdentityRead
  <2>5. QED
    BY <1>2, <2>2, <2>4, CarryByType
<1>3. CASE type = "origin"
  BY <1>3, OriginRead, CarryByType, EncodeByType, DecodeByType
<1>4. CASE type = "time"
  <2>1. x \in Time
    BY <1>4 DEF Typed
  <2>2. QED
    BY <1>4, <2>1, TimeRead, CarryByType, EncodeByType, DecodeByType
<1>5. CASE type = "syncscope"
  <2>1. /\ x = [nsids |-> x.nsids, window |-> x.window]
        /\ x.window = <<>> \/ x.window \in Time \X Time
    BY <1>5 DEF Typed
  <2>2. Decode(type, v) = DecodeSyncScope(v)
    BY <1>5, DecodeByType
  <2>3. EncodeSyncScope(DecodeSyncScope(v)[1]) = EncodeSyncScope(x)
    BY <1>5, <2>2, EncodeByType
  <2>4. DecodeSyncScope(v)[1] = CarryScope(x)
    BY <2>1, <2>2, <2>3, SyncScopeRead
  <2>5. QED
    BY <1>5, <2>2, <2>4, CarryByType
<1>6. CASE type = "reason"
  BY <1>6, ReasonRead, CarryByType, EncodeByType, DecodeByType
<1>7. QED
  BY <1>1, <1>2, <1>3, <1>4, <1>5, <1>6 DEF Types

(* What a value's encoding decodes to, and that this is encoded the same.     *)
LEMMA FieldCarried ==
    ASSUME NEW type \in Types, NEW x, Typed(type, x),
           type = "origin" /\ x[1] # "self" => x[2] # <<>> /\ Len(x[2]) <= MaxDepth,
           type = "grant" => x[1] # "resource"
    PROVE  /\ Decode(type, Encode(type, x)) = <<Carry(type, x)>>
           /\ Encode(type, Carry(type, x)) = Encode(type, x)
<1>1. CASE type \in Plain
  <2>1. Carry(type, x) = x
    BY <1>1, CarryByType
  <2>2. CASE type = "did"
    <3>1. x \in DidName
      BY <2>2 DEF Typed
    <3>2. Encode(type, x)[1] = "text" /\ Encode(type, x)[2] = x
      BY <2>2, EncodeByType
    <3>3. QED
      BY <2>1, <2>2, <3>1, <3>2, DecodeByType
  <2>3. CASE type = "kinds"
    <3>1. x \in Seq(Kind)
      BY <2>3 DEF Typed
    <3>2. Encode(type, x)[1] = "array" /\ Encode(type, x)[2] = x
      BY <2>3, EncodeByType
    <3>3. \A i \in DOMAIN x : x[i] \in Kind
      BY <3>1
    <3>4. QED
      BY <2>1, <2>3, <3>2, <3>3, DecodeByType DEF DecodeKinds
  <2>4. CASE type = "kindset"
    <3>1. x \subseteq Kind
      BY <2>4 DEF Typed
    <3>2. Encode(type, x)[1] = "array" /\ Encode(type, x)[2] = x
      BY <2>4, EncodeByType
    <3>3. QED
      BY <2>1, <2>4, <3>1, <3>2, DecodeByType DEF DecodeKindSet
  <2>5. CASE type \in {"scope", "grant"}
    <3>1. x \in Scope
      BY <2>5 DEF Typed
    <3>2. Encode(type, x)[1] = "map" /\ Encode(type, x)[2] = x
      BY <2>5, EncodeByType
    <3>3. DecodeScope(Encode(type, x)) = <<x>>
      BY <3>1, <3>2 DEF DecodeScope
    <3>4. type = "grant" => DecodeGrant(Encode(type, x)) = <<x>>
      BY <3>2, <3>3 DEF DecodeGrant
    <3>5. QED
      BY <2>1, <2>5, <3>3, <3>4, DecodeByType
  <2>6. CASE type = "root"
    <3>1. Encode(type, x)[1] = "map" /\ Encode(type, x)[2] = x
      BY <2>6, EncodeByType
    <3>2. QED
      BY <2>1, <2>6, <3>1, DecodeByType
  <2>7. CASE type = "bytes"
    <3>1. /\ Encode(type, x)[1] = "bytes" /\ Encode(type, x)[2] = x
          /\ Encode(type, x)[3] = "exact"
      BY <2>7, EncodeByType
    <3>2. QED
      BY <2>1, <2>7, <3>1, DecodeByType
  <2>8. CASE type = "semver"
    <3>1. Len(x) = 3
      BY <2>8 DEF Typed
    <3>2. Encode(type, x)[1] = "array" /\ Encode(type, x)[2] = x
      BY <2>8, EncodeByType
    <3>3. QED
      BY <2>1, <2>8, <3>1, <3>2, DecodeByType
  <2>9. QED
    BY <1>1, <2>2, <2>3, <2>4, <2>5, <2>6, <2>7, <2>8 DEF Plain
<1>2. CASE type = "identity"
  <2>1. x \in ServiceIdentity
    BY <1>2 DEF Typed
  <2>2. /\ DecodeIdentity(EncodeIdentity(x)) = <<[x EXCEPT !.evidence = FALSE]>>
        /\ EncodeIdentity([x EXCEPT !.evidence = FALSE]) = EncodeIdentity(x)
    BY <2>1, IdentityCarried
  <2>3. Carry(type, x) = [x EXCEPT !.evidence = FALSE]
    BY <1>2, CarryByType
  <2>4. /\ Encode(type, x) = EncodeIdentity(x)
        /\ Encode(type, Carry(type, x)) = EncodeIdentity([x EXCEPT !.evidence = FALSE])
    BY <1>2, <2>3, EncodeByType
  <2>5. Decode(type, Encode(type, x)) = DecodeIdentity(EncodeIdentity(x))
    BY <1>2, <2>4, DecodeByType
  <2>6. QED
    BY <2>2, <2>3, <2>4, <2>5
<1>3. CASE type = "origin"
  BY <1>3, OriginCarried, CarryByType, EncodeByType, DecodeByType
<1>4. CASE type = "time"
  <2>1. x \in Time
    BY <1>4 DEF Typed
  <2>2. QED
    BY <1>4, <2>1, TimeCarried, CarryByType, EncodeByType, DecodeByType
<1>5. CASE type = "syncscope"
  <2>1. /\ x = [nsids |-> x.nsids, window |-> x.window]
        /\ x.window = <<>> \/ x.window \in Time \X Time
    BY <1>5 DEF Typed
  <2>2. /\ DecodeSyncScope(EncodeSyncScope(x)) = <<CarryScope(x)>>
        /\ EncodeSyncScope(CarryScope(x)) = EncodeSyncScope(x)
    BY <2>1, SyncScopeCarried
  <2>3. Carry(type, x) = CarryScope(x)
    BY <1>5, CarryByType
  <2>4. /\ Encode(type, x) = EncodeSyncScope(x)
        /\ Encode(type, Carry(type, x)) = EncodeSyncScope(CarryScope(x))
    BY <1>5, <2>3, EncodeByType
  <2>5. Decode(type, Encode(type, x)) = DecodeSyncScope(EncodeSyncScope(x))
    BY <1>5, <2>4, DecodeByType
  <2>6. QED
    BY <2>2, <2>3, <2>4, <2>5
<1>6. CASE type = "reason"
  BY <1>6, ReasonCarried, CarryByType, EncodeByType, DecodeByType
<1>7. QED
  BY <1>1, <1>2, <1>3, <1>4, <1>5, <1>6 DEF Types

-----------------------------------------------------------------------------
(* Whole messages. *)

(* The fields of the messages have these types, and only the responder of an  *)
(* Established is signed without being carried.                               *)
LEMMA SchemaTypes ==
    ASSUME NEW kind \in DOMAIN Schema, NEW f \in DOMAIN Schema[kind]
    PROVE  /\ Schema[kind][f] \in Types
           /\ f \notin Carried(kind) =>
                 kind = "established" /\ f = "responder_identity" /\ Schema[kind][f] = "identity"
<1>1. kind \in {"claim", "declaration", "hello", "accept", "reject", "established"}
  BY DEF Schema
<1>2. Schema[kind][f] \in Types
  <2>1. CASE kind = "claim"
    BY <2>1, SMT DEF Schema, Types, Plain
  <2>2. CASE kind = "declaration"
    BY <2>2, SMT DEF Schema, Types, Plain
  <2>3. CASE kind = "hello"
    BY <2>3, SMT DEF Schema, Types, Plain
  <2>4. CASE kind = "accept"
    BY <2>4, SMT DEF Schema, Types, Plain
  <2>5. CASE kind = "reject"
    BY <2>5, SMT DEF Schema, Types, Plain
  <2>6. CASE kind = "established"
    BY <2>6, SMT DEF Schema, Types, Plain
  <2>7. QED
    BY <1>1, <2>1, <2>2, <2>3, <2>4, <2>5, <2>6
<1>3. ASSUME f \notin Carried(kind) PROVE kind = "established" /\ f = "responder_identity"
  BY <1>3 DEF Carried
<1>4. Schema["established"]["responder_identity"] = "identity"
  BY DEF Schema
<1>5. QED
  BY <1>2, <1>3, <1>4

(* Only fields of the message are carried.                                    *)
LEMMA CarriedInSchema ==
    ASSUME NEW kind
    PROVE  Carried(kind) \subseteq DOMAIN Schema[kind]
BY DEF Carried

(* Senders make messages of the schema.                                       *)
LEMMA RequestTyped ==
    ASSUME NEW r \in Request
    PROVE  /\ r.kind \in DOMAIN Schema /\ DOMAIN r.msg = DOMAIN Schema[r.kind]
           /\ \A f \in DOMAIN Schema[r.kind] : Typed(Schema[r.kind][f], r.msg[f])
BY FormsAssumption

(* Two messages with one signing input have one kind, and are encoded the     *)
(* same field by field.                                                       *)
LEMMA SameInput ==
    ASSUME NEW kind, NEW msg, NEW kind2, NEW msg2,
           SigningInput(kind, msg) = SigningInput(kind2, msg2)
    PROVE  /\ kind = kind2
           /\ \A f \in DOMAIN Schema[kind] :
                 Encode(Schema[kind][f], msg[f]) = Encode(Schema[kind][f], msg2[f])
<1> DEFINE E(k, m) == [f \in DOMAIN Schema[k] |-> Encode(Schema[k][f], m[f])]
<1>1. SigningInput(kind, msg) = <<kind, E(kind, msg)>>
  BY DEF SigningInput, Signed
<1>2. SigningInput(kind2, msg2) = <<kind2, E(kind2, msg2)>>
  BY DEF SigningInput, Signed
<1>3. kind = kind2 /\ E(kind, msg) = E(kind2, msg2)
  <2>1. PICK e, e2 : e = E(kind, msg) /\ e2 = E(kind2, msg2)
    OBVIOUS
  <2>2. SigningInput(kind, msg) = <<kind, e>> /\ SigningInput(kind2, msg2) = <<kind2, e2>>
    BY <1>1, <1>2, <2>1, Zenon
  <2>3. <<kind, e>> = <<kind2, e2>>
    BY <2>2, Zenon
  <2> HIDE DEF E
  <2>4. kind = kind2 /\ e = e2
    BY ONLY <2>3
  <2>5. QED
    BY <2>1, <2>4, Zenon
<1>4. E(kind, msg) = E(kind, msg2)
  BY <1>3
<1>5. ASSUME NEW f \in DOMAIN Schema[kind]
      PROVE  Encode(Schema[kind][f], msg[f]) = Encode(Schema[kind][f], msg2[f])
  <2>1. E(kind, msg)[f] = E(kind, msg2)[f]
    BY <1>4
  <2>2. QED
    BY <2>1
<1>6. QED
  BY <1>3, <1>5

-----------------------------------------------------------------------------
(* WireForms: the inductive invariant, in parts. *)

MadeOK ==
    /\ made \subseteq Request
    /\ \A r \in made : r.kind = "claim" => Mintable(r.msg)

SignatureOf(s, r) ==
    s = [alg |-> s.alg, by |-> SignerOf(r.kind, r.msg), over |-> SigningInput(r.kind, r.msg)]

FormOK ==
    form # Nothing =>
        /\ form = [kind |-> form.kind, fields |-> form.fields, signature |-> form.signature,
                   extra |-> form.extra, ordered |-> form.ordered]
        /\ form.kind \in DOMAIN Schema
        /\ \E r \in made : SignatureOf(form.signature, r)

AnswerOK ==
    answer # Nothing => form # Nothing /\ answer = Verdict(form)

FormsInv == MadeOK /\ FormOK /\ AnswerOK

(* A signature is one for its message.                                        *)
LEMMA SignatureIs ==
    ASSUME NEW r
    PROVE  SignatureOf(Signature(r.kind, r.msg), r)
BY DEF SignatureOf, Signature

(* Initially the invariant holds.                                             *)
LEMMA FormsInvInit == FormsInit => FormsInv
BY DEF FormsInit, FormsInv, MadeOK, FormOK, AnswerOK

(* A form that is sent is signed.                                             *)
LEMMA SentOK ==
    ASSUME NEW r \in Request, form' = ToWire(r.kind, r.msg, Signature(r.kind, r.msg)), r \in made'
    PROVE  FormOK'
<1>1. PICK w : w = ToWire(r.kind, r.msg, Signature(r.kind, r.msg))
  OBVIOUS
<1>2. /\ w = [kind |-> w.kind, fields |-> w.fields, signature |-> w.signature,
              extra |-> w.extra, ordered |-> w.ordered]
      /\ w.kind = r.kind /\ w.signature = Signature(r.kind, r.msg)
  BY <1>1 DEF ToWire
<1>3. r.kind \in DOMAIN Schema
  BY RequestTyped
<1>4. SignatureOf(w.signature, r)
  BY <1>2, SignatureIs
<1>5. form' = w
  BY <1>1
<1>6. QED
  BY <1>2, <1>3, <1>4, <1>5 DEF FormOK

(* A change on the way leaves a signature of a message that was made.         *)
LEMMA EditedOK ==
    ASSUME FormsInv, Edit, form'.kind = form.kind,
           form' = [kind |-> form'.kind, fields |-> form'.fields, signature |-> form'.signature,
                    extra |-> form'.extra, ordered |-> form'.ordered],
           \E r \in made : SignatureOf(form'.signature, r)
    PROVE  FormsInv'
<1>1. form # Nothing /\ answer = Nothing /\ made' = made /\ answer' = answer
  BY DEF Edit
<1>2. FormOK'
  BY <1>1 DEF FormsInv, FormOK
<1>3. MadeOK'
  BY <1>1 DEF FormsInv, MadeOK
<1>4. AnswerOK'
  BY <1>1 DEF AnswerOK
<1>5. QED
  BY <1>2, <1>3, <1>4 DEF FormsInv

(* Every step preserves it.                                                   *)
LEMMA FormsInvNext == FormsInv /\ [FormsNext]_formsVars => FormsInv'
<1> SUFFICES ASSUME FormsInv, [FormsNext]_formsVars PROVE FormsInv'
  OBVIOUS
<1>1. ASSUME NEW r \in Request, Make(r) PROVE FormsInv'
  <2>1. made' = made \cup {r} /\ form' = form /\ answer' = answer /\ form = Nothing
        /\ (r.kind = "claim" => Mintable(r.msg))
    BY <1>1 DEF Make
  <2>2. MadeOK'
    BY <2>1 DEF FormsInv, MadeOK
  <2>3. FormOK' /\ AnswerOK'
    BY <2>1 DEF FormsInv, FormOK, AnswerOK
  <2>4. QED
    BY <2>2, <2>3 DEF FormsInv
<1>2. ASSUME NEW r \in Request, Send(r) PROVE FormsInv'
  <2>1. /\ form = Nothing /\ r \in made /\ made' = made /\ answer' = answer
        /\ form' = ToWire(r.kind, r.msg, Signature(r.kind, r.msg))
    BY <1>2 DEF Send
  <2>2. answer' = Nothing
    BY <2>1 DEF FormsInv, AnswerOK
  <2>3. FormOK'
    BY <2>1, SentOK
  <2>4. QED
    BY <2>1, <2>2, <2>3 DEF FormsInv, MadeOK, AnswerOK
<1>3. ASSUME Edit
      PROVE  /\ form = [kind |-> form.kind, fields |-> form.fields, signature |-> form.signature,
                        extra |-> form.extra, ordered |-> form.ordered]
             /\ \E r \in made : SignatureOf(form.signature, r)
  BY <1>3 DEF Edit, FormsInv, FormOK
<1> DEFINE AllFields(w) == w = [kind |-> w.kind, fields |-> w.fields, signature |-> w.signature,
                                extra |-> w.extra, ordered |-> w.ordered]
<1>4. CASE ReplaceField
  <2>1. Edit
    BY <1>4 DEF ReplaceField
  <2>2. PICK f, v : form' = [form EXCEPT !.fields[f] = v]
    BY <1>4 DEF ReplaceField
  <2>3. /\ form'.kind = form.kind /\ form'.signature = form.signature /\ AllFields(form')
    BY <1>3, <2>1, <2>2
  <2>4. QED
    BY <1>3, <2>1, <2>3, EditedOK
<1>5. CASE DropField
  <2>1. Edit
    BY <1>5 DEF DropField
  <2>2. PICK fields : form' = [form EXCEPT !.fields = fields]
    BY <1>5 DEF DropField
  <2>3. /\ form'.kind = form.kind /\ form'.signature = form.signature /\ AllFields(form')
    BY <1>3, <2>1, <2>2
  <2>4. QED
    BY <1>3, <2>1, <2>3, EditedOK
<1>6. CASE AddField
  <2>1. Edit /\ form' = [form EXCEPT !.extra = @ + 1]
    BY <1>6 DEF AddField
  <2>2. /\ form'.kind = form.kind /\ form'.signature = form.signature /\ AllFields(form')
    BY <1>3, <2>1
  <2>3. QED
    BY <1>3, <2>1, <2>2, EditedOK
<1>7. CASE Reorder
  <2>1. Edit /\ form' = [form EXCEPT !.ordered = FALSE]
    BY <1>7 DEF Reorder
  <2>2. /\ form'.kind = form.kind /\ form'.signature = form.signature /\ AllFields(form')
    BY <1>3, <2>1
  <2>3. QED
    BY <1>3, <2>1, <2>2, EditedOK
<1>8. CASE ReplaceSignature
  <2>1. Edit
    BY <1>8 DEF ReplaceSignature
  <2>2. ASSUME NEW r \in made, form' = [form EXCEPT !.signature = Signature(r.kind, r.msg)]
        PROVE  FormsInv'
    <3>1. /\ form'.kind = form.kind /\ form'.signature = Signature(r.kind, r.msg)
          /\ AllFields(form')
      BY <1>3, <2>1, <2>2
    <3>2. QED
      BY <2>1, <3>1, EditedOK, SignatureIs
  <2>3. ASSUME form' = [form EXCEPT !.signature.alg = "Es256"]
        PROVE  FormsInv'
    <3>1. PICK r \in made : SignatureOf(form.signature, r)
      BY <1>3, <2>1
    <3>2. /\ form'.kind = form.kind /\ form'.signature = [form.signature EXCEPT !.alg = "Es256"]
          /\ AllFields(form')
      BY <1>3, <2>1, <2>3
    <3>3. SignatureOf([form.signature EXCEPT !.alg = "Es256"], r)
      BY <3>1 DEF SignatureOf
    <3>4. QED
      BY <2>1, <3>2, <3>3, EditedOK
  <2>4. QED
    BY <1>8, <2>2, <2>3 DEF ReplaceSignature
<1>9. CASE Receive
  <2>1. form # Nothing /\ made' = made /\ form' = form /\ answer' = Verdict(form)
    BY <1>9 DEF Receive
  <2>2. MadeOK' /\ FormOK'
    BY <2>1 DEF FormsInv, MadeOK, FormOK
  <2>3. AnswerOK'
    BY <2>1 DEF AnswerOK
  <2>4. QED
    BY <2>2, <2>3 DEF FormsInv
<1>10. CASE UNCHANGED formsVars
  BY <1>10 DEF formsVars, FormsInv, MadeOK, FormOK, AnswerOK
<1>11. QED
  BY <1>1, <1>2, <1>4, <1>5, <1>6, <1>7, <1>8, <1>9, <1>10 DEF FormsNext

(* Every form under way bears a signature of a message that was made, and the *)
(* answer is the verdict on the form.                                         *)
THEOREM FormsInvariant == FormsSpec => []FormsInv
<1>1. QED
  BY FormsInvInit, FormsInvNext, PTL DEF FormsSpec

-----------------------------------------------------------------------------
(* What a verdict of acceptance has checked. *)
LEMMA AcceptedIsChecked ==
    ASSUME NEW w, Verdict(w).kind = "accepted"
    PROVE  /\ Decodes(w) /\ SignatureHolds(w)
           /\ w.kind \in Handshake => CanonicalHandshake(w)
           /\ Verdict(w).msg = Decoded(w)
<1> DEFINE malformed == \/ w.kind \in {"claim", "declaration"} /\ ~CanonicalTree(w)
                        \/ ~Decodes(w)
                        \/ w.kind \in Handshake /\ ~CanonicalHandshake(w)
           accepted == [kind |-> "accepted", msg |-> Decoded(w)]
           seventh == IF ~SignatureHolds(w) THEN Refused("SignatureInvalid") ELSE accepted
           sixth == IF w.kind = "declaration" /\ Decoded(w).trust_root # RootKey
                    THEN Refused("UnknownTrustRoot") ELSE seventh
           fifth == IF w.kind = "claim" /\ Unfit(Decoded(w)) # {}
                    THEN Refused(UnfitClass(Decoded(w))) ELSE sixth
           fourth == IF w.kind = "claim" /\ Decoded(w).audience.did # Local.did
                     THEN Refused("WrongAudience") ELSE fifth
           third == IF w.kind = "claim" /\ w.signature.alg # "Ed25519"
                    THEN Refused("UnsupportedAlgorithm") ELSE fourth
           second == IF malformed THEN Refused("Malformed") ELSE third
<1>0. \A c : Refused(c).kind # "accepted"
  BY DEF Refused
<1>1. Verdict(w) = IF w.kind = "claim" /\ ~WithinBytes(w) THEN Refused("ClaimTooLarge")
                   ELSE second
  BY Zenon DEF Verdict
<1> HIDE DEF second
<1>2. Verdict(w) = second
  BY <1>0, <1>1
<1>3. ~malformed /\ Verdict(w) = third
  <2> HIDE DEF malformed, third
  <2>1. QED
    BY <1>0, <1>2 DEF second
<1> HIDE DEF third
<1>4. Verdict(w) = fourth
  <2> HIDE DEF fourth
  <2>1. QED
    BY <1>0, <1>3 DEF third
<1> HIDE DEF fourth
<1>5. Verdict(w) = fifth
  <2> HIDE DEF fifth
  <2>1. QED
    BY <1>0, <1>4 DEF fourth
<1> HIDE DEF fifth
<1>6. Verdict(w) = sixth
  <2> HIDE DEF sixth
  <2>1. QED
    BY <1>0, <1>5 DEF fifth
<1> HIDE DEF sixth
<1>7. Verdict(w) = seventh
  <2> HIDE DEF seventh
  <2>1. QED
    BY <1>0, <1>6 DEF sixth
<1>8. SignatureHolds(w) /\ Verdict(w) = accepted
  BY <1>0, <1>7
<1>9. QED
  BY <1>3, <1>8

(* The message that an accepted form's signature was made for. *)
LEMMA AcceptedSigner ==
    ASSUME NEW w, SignatureHolds(w), NEW r, SignatureOf(w.signature, r)
    PROVE  /\ SigningInput(w.kind, Decoded(w)) = SigningInput(r.kind, r.msg)
           /\ w.signature = Signature(r.kind, r.msg)
<1>1. w.signature = [alg |-> "Ed25519", by |-> SignerOf(w.kind, Decoded(w)),
                     over |-> SigningInput(w.kind, Decoded(w))]
  BY DEF SignatureHolds, Signature
<1>2. w.signature = [alg |-> w.signature.alg, by |-> SignerOf(r.kind, r.msg),
                     over |-> SigningInput(r.kind, r.msg)]
  BY DEF SignatureOf
<1>3. /\ w.signature.alg = "Ed25519"
      /\ w.signature.over = SigningInput(w.kind, Decoded(w))
  BY <1>1
<1>4. w.signature.over = SigningInput(r.kind, r.msg)
  BY <1>2
<1>5. QED
  BY <1>2, <1>3, <1>4 DEF Signature

(* The fields of a form that decodes.                                         *)
LEMMA DecodedField ==
    ASSUME NEW w, Decodes(w), NEW f \in DOMAIN Schema[w.kind]
    PROVE  /\ f \in Carried(w.kind) =>
                 /\ Decode(Schema[w.kind][f], w.fields[f]) # Fail
                 /\ Decoded(w)[f] = Decode(Schema[w.kind][f], w.fields[f])[1]
           /\ f \notin Carried(w.kind) => Decoded(w)[f] = Local
BY DEF Decoded, Decodes, DecodeFields

(* A form that encodes to what was signed for a message is that message,      *)
(* field by field.                                                            *)
LEMMA AcceptedIsDelivered ==
    ASSUME NEW w, Decodes(w), NEW r \in Request,
           SigningInput(w.kind, Decoded(w)) = SigningInput(r.kind, r.msg)
    PROVE  w.kind = r.kind /\ Decoded(w) = Delivered(r)
<1>1. /\ w.kind = r.kind
      /\ \A f \in DOMAIN Schema[r.kind] :
            Encode(Schema[r.kind][f], Decoded(w)[f]) = Encode(Schema[r.kind][f], r.msg[f])
  BY SameInput
<1>2. r.kind \in DOMAIN Schema /\ DOMAIN r.msg = DOMAIN Schema[r.kind]
  BY RequestTyped
<1>3. ASSUME NEW f \in DOMAIN Schema[r.kind]
      PROVE  Decoded(w)[f] = IF f \in Carried(r.kind) THEN Carry(Schema[r.kind][f], r.msg[f])
                             ELSE [r.msg[f] EXCEPT !.evidence = Local.evidence]
  <2>1. Typed(Schema[r.kind][f], r.msg[f]) /\ Schema[r.kind][f] \in Types
    BY <1>2, RequestTyped, SchemaTypes
  <2>2. CASE f \in Carried(r.kind)
    <3>1. /\ Decode(Schema[r.kind][f], w.fields[f]) # Fail
          /\ Decoded(w)[f] = Decode(Schema[r.kind][f], w.fields[f])[1]
      BY <1>1, <2>2, DecodedField
    <3>2. Decode(Schema[r.kind][f], w.fields[f])[1] = Carry(Schema[r.kind][f], r.msg[f])
      BY <1>1, <2>1, <3>1, FieldRead
    <3>3. QED
      BY <2>2, <3>1, <3>2
  <2>3. CASE f \notin Carried(r.kind)
    <3>1. Schema[r.kind][f] = "identity"
      BY <1>2, <2>3, SchemaTypes
    <3>2. Decoded(w)[f] = Local
      BY <1>1, <2>3, DecodedField
    <3>3. r.msg[f] \in ServiceIdentity
      BY <2>1, <3>1 DEF Typed
    <3>4. EncodeIdentity(Local) = EncodeIdentity(r.msg[f])
      BY <1>1, <3>1, <3>2, EncodeByType
    <3>5. Local.did = r.msg[f].did /\ Local.key = r.msg[f].key
      BY <3>3, <3>4, IdentityEncoded
    <3>6. Local = [did |-> Local.did, key |-> Local.key, evidence |-> Local.evidence]
      BY FormsAssumption DEF ServiceIdentity
    <3>7. [r.msg[f] EXCEPT !.evidence = Local.evidence] =
              [did |-> r.msg[f].did, key |-> r.msg[f].key, evidence |-> Local.evidence]
      BY <3>3, WithEvidence
    <3>8. QED
      BY <2>3, <3>2, <3>5, <3>6, <3>7
  <2>4. QED
    BY <2>2, <2>3
<1>4. Decoded(w) = [f \in DOMAIN Schema[r.kind] |-> Decoded(w)[f]]
  BY <1>1 DEF Decoded
<1>5. Delivered(r) =
          [f \in DOMAIN Schema[r.kind] |->
              IF f \in Carried(r.kind) THEN Carry(Schema[r.kind][f], r.msg[f])
              ELSE [r.msg[f] EXCEPT !.evidence = Local.evidence]]
  BY <1>2 DEF Delivered
<1>6. QED
  BY <1>1, <1>3, <1>4, <1>5

(* What an accepted form was checked for, and the message its signature was   *)
(* made for.                                                                  *)
LEMMA AcceptedForm ==
    ASSUME FormsInv, answer.kind = "accepted"
    PROVE  /\ form # Nothing /\ Decodes(form) /\ SignatureHolds(form)
           /\ form.kind \in Handshake => CanonicalHandshake(form)
           /\ answer.msg = Decoded(form)
           /\ \E r \in made :
                 /\ r \in Request
                 /\ SigningInput(form.kind, Decoded(form)) = SigningInput(r.kind, r.msg)
                 /\ form.signature = Signature(r.kind, r.msg)
<1>1. answer # Nothing
  BY DEF Nothing
<1>2. form # Nothing /\ answer = Verdict(form)
  BY <1>1 DEF FormsInv, AnswerOK
<1>3. /\ Decodes(form) /\ SignatureHolds(form) /\ answer.msg = Decoded(form)
      /\ form.kind \in Handshake => CanonicalHandshake(form)
  BY <1>2, AcceptedIsChecked
<1>4. PICK r \in made : SignatureOf(form.signature, r)
  BY <1>2 DEF FormsInv, FormOK
<1>5. r \in Request
  BY DEF FormsInv, MadeOK
<1>6. QED
  BY <1>2, <1>3, <1>4, <1>5, AcceptedSigner

(* From the invariant: no field goes uncovered.                               *)
LEMMA InvAcceptedIsSigned == FormsInv => AcceptedIsSigned
<1> SUFFICES ASSUME FormsInv, answer.kind = "accepted"
    PROVE  \E r \in made : r.kind = form.kind /\ answer.msg = Delivered(r)
  BY DEF AcceptedIsSigned
<1>1. PICK r \in made : r \in Request /\
          SigningInput(form.kind, Decoded(form)) = SigningInput(r.kind, r.msg)
  BY AcceptedForm
<1>2. Decodes(form) /\ answer.msg = Decoded(form)
  BY AcceptedForm
<1>3. form.kind = r.kind /\ Decoded(form) = Delivered(r)
  BY <1>1, <1>2, AcceptedIsDelivered
<1>4. QED
  BY <1>2, <1>3

(* From the invariant: the form is the one that was sent.                     *)
LEMMA InvHandshakeFormIsUnique == FormsInv => HandshakeFormIsUnique
<1> SUFFICES ASSUME FormsInv, answer.kind = "accepted", form.kind \in Handshake
    PROVE  \E r \in made : form = ToWire(r.kind, r.msg, Signature(r.kind, r.msg))
  BY DEF HandshakeFormIsUnique
<1>1. form = ToWire(form.kind, Decoded(form), form.signature)
  BY AcceptedForm DEF CanonicalHandshake
<1>2. PICK r \in made :
          /\ r \in Request
          /\ SigningInput(form.kind, Decoded(form)) = SigningInput(r.kind, r.msg)
          /\ form.signature = Signature(r.kind, r.msg)
  BY AcceptedForm
<1>3. form.kind = r.kind
  BY <1>2, SameInput
<1>4. \A f \in Carried(r.kind) :
          Encode(Schema[r.kind][f], Decoded(form)[f]) = Encode(Schema[r.kind][f], r.msg[f])
  BY <1>2, <1>3, SameInput, CarriedInSchema
<1>5. ToWire(r.kind, Decoded(form), form.signature) = ToWire(r.kind, r.msg, form.signature)
  BY <1>4 DEF ToWire
<1>6. QED
  BY <1>1, <1>2, <1>3, <1>5

(* However a form was changed on its way, the receiver accepts, field by      *)
(* field, a message of that kind that the key it names did sign.              *)
THEOREM FormsAcceptedIsSigned == FormsSpec => []AcceptedIsSigned
<1>1. QED
  BY FormsInvariant, InvAcceptedIsSigned, PTL

(* A receiver accepts a handshake message in the one form its sender gave it. *)
THEOREM FormsHandshakeFormIsUnique == FormsSpec => []HandshakeFormIsUnique
<1>1. QED
  BY FormsInvariant, InvHandshakeFormIsUnique, PTL

-----------------------------------------------------------------------------
(* Forms that arrive as they were sent. *)

(* A message the receiver can accept. *)
Ready(r) == r \in Request /\ Meant(r) /\ Fits(r) /\ (r.kind = "claim" => Mintable(r.msg))

(* Origins are in claims and grants in declarations.                          *)
LEMMA OriginAndGrant ==
    ASSUME NEW kind \in DOMAIN Schema, NEW f \in DOMAIN Schema[kind],
           Schema[kind][f] \in {"origin", "grant"}
    PROVE  \/ kind = "claim" /\ f = "origin" /\ Schema[kind][f] = "origin"
           \/ kind = "declaration" /\ f = "resource_scope" /\ Schema[kind][f] = "grant"
<1>1. kind \in {"claim", "declaration", "hello", "accept", "reject", "established"}
  BY DEF Schema
<1>2. CASE kind = "claim"
  BY <1>2 DEF Schema
<1>3. CASE kind = "declaration"
  BY <1>3 DEF Schema
<1>4. CASE kind \in {"hello", "accept", "reject", "established"}
  BY <1>4 DEF Schema
<1>5. QED
  BY <1>1, <1>2, <1>3, <1>4

(* Every carried field of such a message is read back.                        *)
LEMMA CarriedRead ==
    ASSUME NEW r, Ready(r), NEW f \in Carried(r.kind)
    PROVE  /\ Decode(Schema[r.kind][f], Encode(Schema[r.kind][f], r.msg[f])) =
                 <<Carry(Schema[r.kind][f], r.msg[f])>>
           /\ Encode(Schema[r.kind][f], Carry(Schema[r.kind][f], r.msg[f])) =
                 Encode(Schema[r.kind][f], r.msg[f])
<1> DEFINE type == Schema[r.kind][f]
           x == r.msg[f]
<1>1. r.kind \in DOMAIN Schema /\ f \in DOMAIN Schema[r.kind] /\ Typed(type, x)
  BY RequestTyped, CarriedInSchema DEF Ready
<1>2. type \in Types
  BY <1>1, SchemaTypes
<1>3. type \in {"origin", "grant"} =>
        \/ r.kind = "claim" /\ f = "origin" /\ type = "origin"
        \/ r.kind = "declaration" /\ f = "resource_scope" /\ type = "grant"
  BY <1>1, OriginAndGrant
<1>4. ASSUME type = "origin", x[1] # "self" PROVE x[2] # <<>> /\ Len(x[2]) <= MaxDepth
  <2>1. r.kind = "claim" /\ x = r.msg.origin
    BY <1>3, <1>4
  <2>2. Hops(r.msg) = x[2]
    BY <1>4, <2>1 DEF Hops
  <2>3. Hops(r.msg) # <<>>
    BY <1>4, <2>1 DEF Ready, Mintable
  <2>4. Len(Hops(r.msg)) <= MaxDepth
    BY <2>1 DEF Ready, Fits
  <2>5. QED
    BY <2>2, <2>3, <2>4
<1>5. ASSUME type = "grant" PROVE x[1] # "resource"
  <2>1. r.kind = "declaration" /\ x = r.msg.resource_scope
    BY <1>3, <1>5
  <2>2. QED
    BY <2>1 DEF Ready, Meant
<1> HIDE DEF type, x
<1>6. /\ Decode(type, Encode(type, x)) = <<Carry(type, x)>>
      /\ Encode(type, Carry(type, x)) = Encode(type, x)
  BY <1>1, <1>2, <1>4, <1>5, FieldCarried
<1>7. QED
  BY <1>6 DEF type, x

(* What the receiver has instead of what a form does not carry. *)
LEMMA UncarriedIsLocal ==
    ASSUME NEW r, Ready(r), NEW f \in DOMAIN Schema[r.kind], f \notin Carried(r.kind)
    PROVE  /\ [r.msg[f] EXCEPT !.evidence = Local.evidence] = Local
           /\ Encode(Schema[r.kind][f], Local) = Encode(Schema[r.kind][f], r.msg[f])
<1>1. /\ r.kind = "established" /\ f = "responder_identity" /\ Schema[r.kind][f] = "identity"
      /\ r.msg[f] \in ServiceIdentity
  <2>1. Typed(Schema[r.kind][f], r.msg[f]) /\ r.kind \in DOMAIN Schema
    BY RequestTyped DEF Ready
  <2>2. r.kind = "established" /\ f = "responder_identity" /\ Schema[r.kind][f] = "identity"
    BY <2>1, SchemaTypes
  <2>3. QED
    BY <2>1, <2>2 DEF Typed
<1>2. r.msg[f].did = Local.did /\ r.msg[f].key = Local.key
  BY <1>1 DEF Ready, Meant
<1>3. Local = [did |-> Local.did, key |-> Local.key, evidence |-> Local.evidence]
  BY FormsAssumption DEF ServiceIdentity
<1>4. [r.msg[f] EXCEPT !.evidence = Local.evidence] =
          [did |-> r.msg[f].did, key |-> r.msg[f].key, evidence |-> Local.evidence]
  BY <1>1, WithEvidence
<1>5. EncodeIdentity(Local) = EncodeIdentity(r.msg[f])
  BY <1>2 DEF EncodeIdentity
<1>6. QED
  BY <1>1, <1>2, <1>3, <1>4, <1>5, EncodeByType

(* The fields of the message as it is delivered.                              *)
LEMMA DeliveredField ==
    ASSUME NEW r, Ready(r), NEW f \in DOMAIN Schema[r.kind]
    PROVE  /\ f \in Carried(r.kind) => Delivered(r)[f] = Carry(Schema[r.kind][f], r.msg[f])
           /\ f \notin Carried(r.kind) => Delivered(r)[f] = Local
           /\ Encode(Schema[r.kind][f], Delivered(r)[f]) = Encode(Schema[r.kind][f], r.msg[f])
<1>1. DOMAIN r.msg = DOMAIN Schema[r.kind]
  BY RequestTyped DEF Ready
<1>2. Delivered(r)[f] = IF f \in Carried(r.kind) THEN Carry(Schema[r.kind][f], r.msg[f])
                        ELSE [r.msg[f] EXCEPT !.evidence = Local.evidence]
  BY <1>1 DEF Delivered
<1>3. CASE f \in Carried(r.kind)
  BY <1>2, <1>3, CarriedRead
<1>4. CASE f \notin Carried(r.kind)
  BY <1>2, <1>4, UncarriedIsLocal
<1>5. QED
  BY <1>3, <1>4

(* The form of a message, as it is sent. *)
LEMMA SentForm ==
    ASSUME NEW r, NEW w, w = ToWire(r.kind, r.msg, Signature(r.kind, r.msg))
    PROVE  /\ w.kind = r.kind /\ w.extra = 0 /\ w.ordered = TRUE
           /\ w.signature = Signature(r.kind, r.msg)
           /\ DOMAIN w.fields = Carried(r.kind)
           /\ \A f \in Carried(r.kind) : w.fields[f] = Encode(Schema[r.kind][f], r.msg[f])
BY DEF ToWire

(* A form as it was sent decodes to the message as it is delivered.           *)
LEMMA SentDecodes ==
    ASSUME NEW r, Ready(r), NEW w, w = ToWire(r.kind, r.msg, Signature(r.kind, r.msg))
    PROVE  Decodes(w) /\ Decoded(w) = Delivered(r)
<1>1. w.kind = r.kind /\ DOMAIN w.fields = Carried(r.kind)
  BY SentForm
<1>2. \A f \in Carried(r.kind) : w.fields[f] = Encode(Schema[r.kind][f], r.msg[f])
  BY SentForm
<1>3. \A f \in Carried(r.kind) : DecodeFields(w)[f] = <<Carry(Schema[r.kind][f], r.msg[f])>>
  <2> TAKE f \in Carried(r.kind)
  <2>1. DecodeFields(w)[f] = Decode(Schema[r.kind][f], w.fields[f])
    BY <1>1 DEF DecodeFields
  <2>2. QED
    BY <1>2, <2>1, CarriedRead
<1>4. Decodes(w)
  BY <1>1, <1>3 DEF Decodes, Fail
<1>5. \A f \in DOMAIN Schema[r.kind] : Decoded(w)[f] = Delivered(r)[f]
  <2> TAKE f \in DOMAIN Schema[r.kind]
  <2>1. f \in Carried(r.kind) => DecodeFields(w)[f][1] = Carry(Schema[r.kind][f], r.msg[f])
    BY <1>3
  <2>2. Decoded(w)[f] = IF f \in Carried(r.kind) THEN DecodeFields(w)[f][1] ELSE Local
    BY <1>1 DEF Decoded
  <2>3. QED
    BY <2>1, <2>2, DeliveredField
<1>6. Decoded(w) = [f \in DOMAIN Schema[r.kind] |-> Decoded(w)[f]]
  BY <1>1 DEF Decoded
<1>7. Delivered(r) = [f \in DOMAIN Schema[r.kind] |-> Delivered(r)[f]]
  <2>1. DOMAIN r.msg = DOMAIN Schema[r.kind]
    BY RequestTyped DEF Ready
  <2>2. QED
    BY <2>1 DEF Delivered
<1>8. QED
  BY <1>4, <1>5, <1>6, <1>7

(* The key that a message names is the same after the trip. *)
LEMMA SignerDelivered ==
    ASSUME NEW r, Ready(r)
    PROVE  SignerOf(r.kind, Delivered(r)) = SignerOf(r.kind, r.msg)
<1>1. r.kind \in {"claim", "declaration", "hello", "accept", "reject", "established"}
  BY RequestTyped DEF Ready, Schema
<1>2. ASSUME NEW f \in DOMAIN Schema[r.kind], Schema[r.kind][f] = "identity"
      PROVE  Delivered(r)[f].key = r.msg[f].key /\ Delivered(r)[f].did = r.msg[f].did
  <2>1. r.msg[f] \in ServiceIdentity
    <3>1. Typed("identity", r.msg[f])
      BY <1>2, RequestTyped DEF Ready
    <3>2. QED
      BY <3>1 DEF Typed
  <2>2. EncodeIdentity(Delivered(r)[f]) = EncodeIdentity(r.msg[f])
    BY <1>2, DeliveredField, EncodeByType
  <2>3. QED
    BY <2>1, <2>2, IdentityEncoded
<1>3. CASE r.kind = "claim"
  <2>1. "issuer" \in DOMAIN Schema["claim"] /\ Schema["claim"]["issuer"] = "identity"
    BY DEF Schema
  <2>2. QED
    BY <1>2, <1>3, <2>1 DEF SignerOf
<1>4. CASE r.kind = "declaration"
  <2>1. /\ "trust_root" \in DOMAIN Schema["declaration"]
        /\ Schema["declaration"]["trust_root"] = "root" /\ "root" \in Plain
    BY DEF Schema, Plain
  <2>2. Delivered(r).trust_root = r.msg.trust_root
    BY <1>4, <2>1, DeliveredField, PlainEncoded
  <2>3. QED
    BY <1>4, <2>2 DEF SignerOf
<1>5. CASE r.kind = "hello"
  <2>1. /\ "initiator_identity" \in DOMAIN Schema["hello"]
        /\ Schema["hello"]["initiator_identity"] = "identity"
    BY DEF Schema
  <2>2. QED
    BY <1>2, <1>5, <2>1 DEF SignerOf
<1>6. CASE r.kind \in {"accept", "reject"}
  <2>1. /\ "responder_identity" \in DOMAIN Schema[r.kind]
        /\ Schema[r.kind]["responder_identity"] = "identity"
    BY <1>6 DEF Schema
  <2>2. QED
    BY <1>2, <1>6, <2>1 DEF SignerOf
<1>7. CASE r.kind = "established"
  BY <1>7 DEF SignerOf
<1>8. QED
  BY <1>1, <1>3, <1>4, <1>5, <1>6, <1>7

(* The signature of a message is one of the message as it is delivered.       *)
LEMMA SentSignatureHolds ==
    ASSUME NEW r, Ready(r)
    PROVE  Signature(r.kind, Delivered(r)) = Signature(r.kind, r.msg)
<1>1. SigningInput(r.kind, Delivered(r)) = SigningInput(r.kind, r.msg)
  BY DeliveredField DEF SigningInput, Signed
<1>2. QED
  BY <1>1, SignerDelivered DEF Signature

(* A message as it is delivered is encoded as it was sent.                    *)
LEMMA SentIsCanonical ==
    ASSUME NEW r, Ready(r), NEW s
    PROVE  ToWire(r.kind, Delivered(r), s) = ToWire(r.kind, r.msg, s)
<1>1. \A f \in Carried(r.kind) :
          Encode(Schema[r.kind][f], Delivered(r)[f]) = Encode(Schema[r.kind][f], r.msg[f])
  BY DeliveredField, CarriedInSchema
<1>2. QED
  BY <1>1 DEF ToWire

(* The fields of a claim.                                                     *)
LEMMA ClaimFields ==
    /\ {"issuer", "audience", "origin", "capabilities", "resource_scope"} \subseteq Carried("claim")
    /\ Carried("claim") = DOMAIN Schema["claim"]
    /\ Schema["claim"]["audience"] = "identity" /\ Schema["claim"]["origin"] = "origin"
    /\ Schema["claim"]["capabilities"] = "kinds" /\ Schema["claim"]["resource_scope"] = "scope"
BY DEF Schema, Carried

(* A claim within the ceiling is within it as it arrives. *)
LEMMA SentWithinBytes ==
    ASSUME NEW r, Ready(r), r.kind = "claim",
           NEW w, w = ToWire(r.kind, r.msg, Signature(r.kind, r.msg))
    PROVE  WithinBytes(w)
<1> DEFINE caps == r.msg.capabilities
           o == r.msg.origin
           F == [h \in DOMAIN o[2] |-> EncodeHop(o[2][h])]
<1>1. /\ w.extra = 0 /\ DOMAIN w.fields = Carried("claim")
      /\ \A f \in Carried("claim") : w.fields[f] = Encode(Schema["claim"][f], r.msg[f])
  <2>1. w.extra = 0 /\ DOMAIN w.fields = Carried(r.kind)
    BY SentForm
  <2>2. \A f \in Carried(r.kind) : w.fields[f] = Encode(Schema[r.kind][f], r.msg[f])
    BY SentForm
  <2>3. QED
    BY <2>1, <2>2
<1>2. w.fields.capabilities = Encode("kinds", caps) /\ w.fields.origin = Encode("origin", o)
  BY <1>1, ClaimFields
<1>3. w.fields.capabilities[2] = caps
  BY <1>2, EncodeByType
<1>4. w.fields.origin = EncodeOrigin(o)
  BY <1>2, EncodeByType
<1>5. Typed("origin", o) /\ Typed("kinds", caps)
  BY RequestTyped, ClaimFields DEF Ready
<1>6. Len(Hops(r.msg)) \in Nat /\ Len(caps) \in Nat
  <2>1. caps \in Seq(Kind)
    BY <1>5 DEF Typed
  <2>2. Hops(r.msg) \in Seq(Hop)
    BY <1>5, OriginTyped DEF Hops
  <2>3. QED
    BY <2>1, <2>2
<1> DEFINE hops == IF w.fields.origin[2] = "delegated_from_upstream"
                   THEN w.fields.origin[3] ELSE <<>>
<1>7. Len(hops) = Len(Hops(r.msg))
  <2>1. CASE o[1] = "self"
    <3>1. w.fields.origin = <<"map", "self_originated">>
      BY <1>4, <2>1 DEF EncodeOrigin
    <3>2. w.fields.origin[2] = "self_originated"
      BY <3>1
    <3>3. hops = <<>>
      BY <3>2
    <3>4. Hops(r.msg) = <<>>
      BY <2>1 DEF Hops
    <3>5. QED
      BY <3>3, <3>4
  <2>2. CASE o[1] # "self"
    <3>1. w.fields.origin = <<"map", "delegated_from_upstream", F>>
      BY <1>4, <2>2 DEF EncodeOrigin
    <3>2. PICK e : e = F
      OBVIOUS
    <3>3. w.fields.origin = <<"map", "delegated_from_upstream", e>>
      BY <3>1, <3>2, Zenon
    <3>4. w.fields.origin[2] = "delegated_from_upstream" /\ w.fields.origin[3] = e
      BY <3>3
    <3>5. hops = e
      BY <3>4
    <3>6. Hops(r.msg) = o[2]
      BY <2>2 DEF Hops
    <3>7. o[2] \in Seq(Hop)
      BY <1>5, <2>2, OriginTyped
    <3>8. DOMAIN e = 1 .. Len(o[2]) /\ Len(o[2]) \in Nat
      BY <3>2, <3>7
    <3>9. e = [h \in 1 .. Len(o[2]) |-> e[h]]
      BY <3>2, <3>8
    <3>10. Len(e) = Len(o[2])
      BY <3>8, <3>9
    <3>11. QED
      BY <3>5, <3>6, <3>10
  <2>3. QED
    BY <2>1, <2>2
<1>8. ArrivedBytes(w) = 0 + PayloadBytes(caps, hops)
  <2>1. {"capabilities", "origin"} \subseteq DOMAIN w.fields
    BY <1>1, ClaimFields
  <2>2. QED
    BY <1>1, <1>3, <2>1 DEF ArrivedBytes
<1>9. PayloadBytes(caps, hops) = PayloadBytes(caps, Hops(r.msg))
  BY <1>7 DEF PayloadBytes
<1>10. PayloadBytes(caps, Hops(r.msg)) \in Nat
  <2>1. FixedBytes \in Nat
    BY FormsAssumption
  <2>2. \A a, b, c \in Nat : a + b + c \in Nat
    OBVIOUS
  <2>3. FixedBytes + Len(caps) + Len(Hops(r.msg)) \in Nat
    BY <1>6, <2>1, <2>2
  <2>4. QED
    BY <2>3 DEF PayloadBytes
<1>11. PayloadBytes(caps, Hops(r.msg)) + SignatureBytes <= MaxBytes
  BY DEF Ready, Fits
<1>12. QED
  BY <1>8, <1>9, <1>10, <1>11 DEF WithinBytes

(* A minted claim may travel with its scope, and arrives for its audience.    *)
LEMMA ClaimIsFit ==
    ASSUME NEW r, Ready(r), r.kind = "claim"
    PROVE  Delivered(r).audience.did = Local.did /\ Unfit(Delivered(r)) = {}
<1>1. \A f \in Carried("claim") : Delivered(r)[f] = Carry(Schema["claim"][f], r.msg[f])
  BY DeliveredField, CarriedInSchema
<1>2. /\ Delivered(r).capabilities = r.msg.capabilities
      /\ Delivered(r).resource_scope = r.msg.resource_scope
  BY <1>1, ClaimFields, CarryByType DEF Plain
<1>3. Delivered(r).audience = [r.msg.audience EXCEPT !.evidence = FALSE]
  <2>1. Delivered(r).audience = Carry("identity", r.msg.audience)
    BY <1>1, ClaimFields
  <2>2. QED
    BY <2>1, CarryByType, Zenon
<1>4. r.msg.audience \in ServiceIdentity
  <2>1. Typed("identity", r.msg.audience)
    BY RequestTyped, ClaimFields DEF Ready
  <2>2. QED
    BY <2>1 DEF Typed
<1>5. Delivered(r).audience.did = r.msg.audience.did
  BY <1>3, <1>4, WithEvidence
<1>6. r.msg.audience.did = Local.did
  BY DEF Ready, Meant
<1>7. \A i \in DOMAIN r.msg.capabilities :
          PermitsScope(r.msg.capabilities[i], r.msg.resource_scope)
  BY DEF Ready, Mintable
<1>8. QED
  BY <1>2, <1>5, <1>6, <1>7 DEF Unfit

(* The receiver accepts a form as it was sent.                                *)
LEMMA HonestVerdict ==
    ASSUME NEW r, Ready(r), NEW w, w = ToWire(r.kind, r.msg, Signature(r.kind, r.msg))
    PROVE  Verdict(w) = [kind |-> "accepted", msg |-> Delivered(r)]
<1>1. /\ w.kind = r.kind /\ w.ordered = TRUE /\ w.signature = Signature(r.kind, r.msg)
  BY SentForm
<1>2. Decodes(w) /\ Decoded(w) = Delivered(r)
  BY SentDecodes
<1>3. CanonicalTree(w)
  BY <1>1 DEF CanonicalTree
<1>4. CanonicalHandshake(w)
  BY <1>1, <1>2, SentIsCanonical DEF CanonicalHandshake
<1>5. SignatureHolds(w)
  BY <1>1, <1>2, SentSignatureHolds DEF SignatureHolds
<1>6. w.signature.alg = "Ed25519"
  BY <1>1 DEF Signature
<1>7. w.kind = "claim" => /\ WithinBytes(w) /\ Decoded(w).audience.did = Local.did
                          /\ Unfit(Decoded(w)) = {}
  BY <1>1, <1>2, SentWithinBytes, ClaimIsFit
<1>8. w.kind = "declaration" => Decoded(w).trust_root = RootKey
  <2> SUFFICES ASSUME r.kind = "declaration" PROVE Delivered(r).trust_root = RootKey
    BY <1>1, <1>2
  <2>1. /\ "trust_root" \in DOMAIN Schema["declaration"]
        /\ Schema["declaration"]["trust_root"] = "root" /\ "root" \in Plain
    BY DEF Schema, Plain
  <2>2. Delivered(r).trust_root = r.msg.trust_root
    BY <2>1, DeliveredField, PlainEncoded
  <2>3. QED
    BY <2>2 DEF Ready, Meant
<1>9. Verdict(w) = [kind |-> "accepted", msg |-> Decoded(w)]
  BY <1>2, <1>3, <1>4, <1>5, <1>6, <1>7, <1>8, Zenon DEF Verdict
<1>10. QED
  BY <1>2, <1>9

(* From the invariant: what arrives as it was sent is read.                   *)
LEMMA InvHonestFormsAreRead == FormsInv => HonestFormsAreRead
<1> SUFFICES ASSUME FormsInv, NEW r \in made, Meant(r), Fits(r), Honest(r), answer # Nothing
    PROVE  answer = [kind |-> "accepted", msg |-> Delivered(r)]
  BY DEF HonestFormsAreRead
<1>1. Ready(r)
  BY DEF FormsInv, MadeOK, Ready
<1>2. answer = Verdict(form)
  BY DEF FormsInv, AnswerOK
<1>3. form = ToWire(r.kind, r.msg, Signature(r.kind, r.msg))
  BY DEF Honest
<1>4. QED
  BY <1>1, <1>2, <1>3, HonestVerdict

(* A message that arrives as it was sent is accepted and says what was said,  *)
(* if it is meant for the receiver and within the ceilings.                   *)
THEOREM FormsHonestFormsAreRead == FormsSpec => []HonestFormsAreRead
<1>1. QED
  BY FormsInvariant, InvHonestFormsAreRead, PTL
=============================================================================
