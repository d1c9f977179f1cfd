SPECIFICATION Spec
CONSTANTS
    Account = "main"
    Vault = "vault"
    Args = {"x"}
    Expiries = {"soon"}
    Replies <- MCReplies
    MaxNonce = 2
    MaxCalls = 2
    None = None
INVARIANTS
    Verifies
    SaysOneThing
    DeclaredAndSigned
    ReturnsAsDeclared
    AnswerIsTrusted
CHECK_DEADLOCK FALSE
