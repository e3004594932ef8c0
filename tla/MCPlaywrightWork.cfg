CONSTANTS
    w1 = w1
    alice = alice
    n1 = n1
    r1 = r1
    r2 = r2
    r3 = r3
    r4 = r4
    observe = observe
    deliver = deliver
    Works = {w1}
    Accounts = {alice}
    Owner <- MCOwner
    Specs = {observe, deliver}
    SideEffects = {deliver}
    Nonces = {n1}
    ReceiptIds = {r1, r2, r3, r4}
    Outcomes = {"success", "uncertain", "unresolved"}
    Bodies = {"seen"}
    NoSpec = NoSpec
    NoNonce = NoNonce
    NoResult = NoResult
    Cancelled = Cancelled
    NoReceipt = NoReceipt
    MaxObservationAttempts = 3
    MaxMishaps = 3
    Adapters = {"boss_greeting", "zhilian_resume", "job51_resume", "liepin_greeting", "liepin_open", "inspection"}
SPECIFICATION FairExecSpec
INVARIANTS AtMostOneClick
PROPERTIES ClickUnderIntent EventuallySettled
CHECK_DEADLOCK FALSE
