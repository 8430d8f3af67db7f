CONSTANTS
    alice = alice
    bob = bob
    notADid = notADid
    ka = ka
    kb = kb
    root = root
    DidName = {alice, bob}
    SigningKey = {ka, kb}
    RootKey = root
    Session = ka
    Local <- MCLocal
    ClassOf <- MCClassOf
    MaxDepth = 2
    MaxBytes = 8
    FixedBytes = 3
    SignatureBytes = 2
    MaxValidity = 4
    LastSecond = 5
    Request <- MCRequest
    Foreign <- MCForeign
    MaxMade = 2
    MaxEdits = 3
SPECIFICATION FormsSpec
CHECK_DEADLOCK FALSE
INVARIANTS AcceptedIsSigned HandshakeFormIsUnique HonestFormsAreRead
