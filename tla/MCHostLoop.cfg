CONSTANTS
    w1 = w1
    w2 = w2
    w3 = w3
    alice = alice
    bob = bob
    n1 = n1
    n2 = n2
    n3 = n3
    r1 = r1
    r2 = r2
    observe = observe
    deliver = deliver
    Works = {w1, w2, w3}
    Accounts = {alice, bob}
    Owner <- MCOwner
    Specs = {observe, deliver}
    SideEffects = {deliver}
    Nonces = {n1, n2, n3}
    ReceiptIds = {r1, r2}
    Outcomes = {"success", "uncertain"}
    Bodies = {"seen"}
    NoSpec = NoSpec
    NoNonce = NoNonce
    NoResult = NoResult
    Cancelled = Cancelled
    NoReceipt = NoReceipt
    MaxObservationAttempts = 2
    Me = alice
    NoWork = NoWork
    o1 = o1
    Ops = {o1}
SPECIFICATION LoopSpec
INVARIANTS GrantShownOnce DispatchedOnce
SYMMETRY MCSymmetry
PROPERTIES ImplementsOneShot
CHECK_DEADLOCK FALSE
