------------------------- MODULE OneShotPermission -------------------------
(***************************************************************************)
(* What the browser-work ledger promises to the rest of the client          *)
(* (the docstrings of infra/browser_work.py): a single lease, a one-use     *)
(* permission for an external action, and a final fate for every work.      *)
(* Nothing here says how: no states, nonces, receipts or attempts.          *)
(***************************************************************************)
EXTENDS Naturals

CONSTANT Works

VARIABLES
    lease,      \* the works that hold the lease: none or one
    once,       \* the works whose action may be performed once only
    grants,     \* permissions handed out for a work
    fate        \* "none", "settled" by evidence, or "withdrawn"

absVars == <<lease, once, grants, fate>>

Init ==
    /\ lease = {}
    /\ once = {}
    /\ grants = [w \in Works |-> 0]
    /\ fate = [w \in Works |-> "none"]

Register(w) ==
    /\ lease = {}
    /\ fate[w] = "none"
    /\ lease' = {w}
    /\ once' \in {once, once \cup {w}}
    /\ UNCHANGED <<grants, fate>>

Grant(w) ==
    /\ w \in lease
    /\ w \in once => grants[w] = 0
    /\ grants' = [grants EXCEPT ![w] = @ + 1]
    /\ UNCHANGED <<lease, once, fate>>

Settle(w) ==
    /\ w \in lease
    /\ grants[w] > 0
    /\ fate' = [fate EXCEPT ![w] = "settled"]
    /\ lease' = lease \ {w}
    /\ UNCHANGED <<once, grants>>

Withdraw(w) ==
    /\ w \in lease
    /\ w \in once => grants[w] = 0
    /\ fate' = [fate EXCEPT ![w] = "withdrawn"]
    /\ lease' = lease \ {w}
    /\ UNCHANGED <<once, grants>>

Next == \E w \in Works : Register(w) \/ Grant(w) \/ Settle(w) \/ Withdraw(w)

Spec == Init /\ [][Next]_absVars
=============================================================================
