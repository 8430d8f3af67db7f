CONSTANTS
    None = None
    own = own
    label = label
    old = old
    Key = {own, label, old}
    AlgorithmOf <- MCAlgorithmOf
    Prefix <- MCPrefix
    Document <- MCDocument
    Request <- MCRequest
    Algorithms = {"ES256K"}
    Rules <- MCRules
    RequireNonce = TRUE
    Skew = 1
    MaxValidity = 1
    LastSecond = 9
    MaxTokens = 2
    MaxVerifierTime = 5
SPECIFICATION JwtSpec
CHECK_DEADLOCK FALSE
INVARIANTS SignerSpeaksForIssuer LifetimeBounded
