---------------------------- MODULE SessionLedger ----------------------------
(* What the sign-ins, refreshes and sign-outs of an account promise, without *)
(* Redis, rows or requests: which sessions can still be renewed, and when a  *)
(* new one may begin.                                                        *)
EXTENDS Naturals

CONSTANTS
    Pairs,
    Lossy           \* TRUE: a fault may leave a renewed session beside the old

VARIABLES
    live,           \* sessions that can be renewed
    used,           \* sessions that have begun
    locked

Init == live = {} /\ used = {} /\ locked = FALSE

Begin(n) ==
    /\ n \notin used
    /\ used' = used \cup {n}
    /\ live' = live \cup {n}
    /\ UNCHANGED locked

\* A locked account starts no session.
SignIn(n) == ~locked /\ Begin(n)

\* Renewing a session replaces it, in one step.
Renew(old, n) ==
    /\ old \in live
    /\ n \notin used
    /\ used' = used \cup {n}
    /\ live' = (live \ {old}) \cup {n}
    /\ UNCHANGED locked

Fork(n) == Lossy /\ live # {} /\ Begin(n)

End(n) ==
    /\ n \in live
    /\ live' = live \ {n}
    /\ UNCHANGED <<used, locked>>

\* Signing out everywhere ends every session at once.
EndAll == live' = {} /\ UNCHANGED <<used, locked>>

Lock == ~locked /\ locked' = TRUE /\ UNCHANGED <<live, used>>

Unlock == locked /\ locked' = FALSE /\ UNCHANGED <<live, used>>

Next ==
    \/ \E n \in Pairs : SignIn(n) \/ Fork(n) \/ End(n)
    \/ \E old, n \in Pairs : Renew(old, n)
    \/ EndAll \/ Lock \/ Unlock

Spec == Init /\ [][Next]_<<live, used, locked>>
=============================================================================
