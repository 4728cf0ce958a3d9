--------------------------- MODULE AuthProperties ---------------------------
(* What AuthSession must guarantee of tokens, sessions and the lock.         *)
EXTENDS AuthSession

TypeOK ==
    /\ user \in User
    /\ attempts \in [Counters -> Nat]
    /\ ttl \in SUBSET Counters
    /\ version \in [Pairs -> Nat]
    /\ expired \in SUBSET Pairs
    /\ blacklist \in SUBSET Pairs
    /\ row \in [Pairs -> RowStatus]
    /\ redis \in SUBSET Pairs
    /\ client \in SUBSET Pairs
    /\ ended \in [Pairs -> SUBSET Ways]
    /\ handler \in [Handlers -> Handler]
    /\ faults \in Nat

\* The tests of JwtStrategy, JwtAuthGuard and refreshToken.
AccessAccepted(n) ==
    version[n] = user.version /\ n \notin expired /\ n \notin blacklist

RefreshAccepted(n) == n \in redis /\ row[n] = "live"

Quiet == \A h \in Handlers : At(h, "idle")

-----------------------------------------------------------------------------
(* Whatever the interleaving.                                              *)

\* Once a request that ends a session was answered, no refresh with its token
\* is accepted, though other requests, a sign-in storing its token twice among
\* them, write the same keys and rows, and calls fail.
EndedRefreshIsRejected ==
    \A n \in Pairs : ended[n] # {} => ~RefreshAccepted(n)

\* An access token that was logged out is not accepted again, not even when a
\* stale save takes tokenVersion back: only a failing Redis call lets it live.
LoggedOutAccessIsRejected ==
    faults = 0 =>
        \A n \in Pairs : "logout" \in ended[n] => ~AccessAccepted(n)

\* INCR and EXPIRE are two calls, and a successful sign-in may delete the key
\* between them; without a fault no counter stays without the TTL that resets
\* it, but for the moment before the EXPIRE of a request in flight.
CountersExpire ==
    faults = 0 =>
        \A k \in Counters : attempts[k] > 0 /\ k \notin ttl =>
            \E h \in Handlers :
                At(h, IF k = "user" THEN "expireUser" ELSE "expireIp")

-----------------------------------------------------------------------------
(* One request at a time.                                                  *)

\* Once a logout of all devices or a password change was answered, neither
\* token of the pairs it covers is accepted again, whatever has failed before or
\* fails later. A logout promises the same, but a failing SET of the blacklist
\* is swallowed and lets its access token live. Revoking a session and
\* refreshing leave the access token alive, and end the refresh token.
EndedIsRejected ==
    \A n \in Pairs :
        /\ ended[n] # {} => ~RefreshAccepted(n)
        /\ ended[n] \cap {"logoutAll", "changePassword"} # {} => ~AccessAccepted(n)
        /\ "logout" \in ended[n] => faults > 0 \/ ~AccessAccepted(n)

\* A locked account is unlocked by time or, as the mail about the lock promises,
\* by a password reset (ResetUnlocks, below): the last save of a sign-in, the
\* saves of whole rows for a FCM token, a password change and the end of a
\* session do not open the lock.
OnlyTimeUnlocks ==
    [][user.locked /\ ~user'.locked =>
          \A h \in Handlers : ResetSave(h) \/ handler'[h].pc = handler[h].pc]_vars

\* Until a call fails, AttemptLimit failed sign-ins within the window mean that
\* the account is locked.
LimitLocks ==
    faults = 0 /\ Quiet => (attempts["user"] >= AttemptLimit => user.locked)

\* The sessions under renewal: the old token was found valid, and the new one
\* is in place though the old one still is.
Renewed == {handler[h].pair : h \in {g \in Handlers : handler[g].pc \in
               {"refreshUser", "refreshSet", "refreshInsert", "refreshDrop"}}}
Renewal == {handler[h].new : h \in {g \in Handlers : At(g, "refreshDrop")}}

\* One request at a time implements the abstract sessions: a renewed session
\* takes over when the old token leaves Redis.
Sessions == INSTANCE SessionLedger WITH
    live <- ({n \in Pairs : RefreshAccepted(n)} \ Renewal) \cup Renewed,
    used <- {n \in Pairs : row[n] # "none"} \ Renewal,
    locked <- user.locked,
    Lossy <- MaxFaults > 0

ImplementsSessions == Sessions!Spec

-----------------------------------------------------------------------------
(* What the repository says and the code does not do.                      *)

\* "Increment token version (invalidates all existing tokens)": no access token
\* of before an answered logout of all devices is accepted again.
LogoutAllInvalidates ==
    \A n \in Pairs : "logoutAll" \in ended[n] => ~AccessAccepted(n)

\* "You can reset your password to unlock it immediately": no lock is left when
\* a password reset has saved the new password.
ResetUnlocks == [][\A h \in Handlers : ResetSave(h) => ~user'.locked]_vars
=============================================================================
