---------------------------- MODULE AuthSession ----------------------------
(***************************************************************************)
(* One user's account as AuthService keeps it: signing in and being locked *)
(* out, the access and refresh tokens a sign-in or a refresh hands out,    *)
(* and the requests that end them (logout, logoutAllDevices,               *)
(* revokeSession, a password change).                                      *)
(*                                                                         *)
(* As in AptPayWebhook a request is a handler, its pc the call it awaits,  *)
(* and save(user) writes the loaded columns back: a stale copy undoes what *)
(* another request wrote to the users row in between.                      *)
(***************************************************************************)
EXTENDS Integers

CONSTANTS
    Handlers,       \* requests that can be in flight at once
    Pairs,          \* bound: access and refresh tokens handed out together
    Passwords,
    Opening,        \* the password the account starts with
    Requests,       \* the kinds of request the clients make
    Credentials,    \* the credentials they sign in with
    AttemptLimit,   \* failed sign-ins that lock the account: 5 in the code
    IpLimit,        \* failed sign-ins that block an address: 10 in the code
    MaxFaults,      \* bound: failed calls and process restarts
    MaxFailures,    \* bound: failed sign-ins that are counted for the account
    NoPair

Signature == "signature"   \* a valid biometric signature instead of a password
Nobody == "nobody"         \* a phone number that is not registered

ASSUME AccountAssumption ==
    /\ NoPair \notin Pairs
    /\ Opening \in Passwords
    /\ {Signature, Nobody} \cap Passwords = {}
    /\ Credentials \subseteq Passwords \cup {Signature, Nobody}
    /\ AttemptLimit \in Nat \ {0}
    /\ IpLimit \in Nat \ {0}
    /\ MaxFaults \in Nat
    /\ MaxFailures \in Nat

VARIABLES
    user,        \* the users row: password, tokenVersion, lockUntil ahead
    attempts,    \* login:attempts:user:<id> and login:attempts:ip:<address>
    ttl,         \* which of the two keys have a TTL
    version,     \* version[n]: tokenVersion in the JWT of pair n, 0: not issued
    expired,     \* pairs whose JWT has expired
    blacklist,   \* blacklist:token:<jti of pair n> is in Redis
    row,         \* row[n]: the refresh_tokens row of pair n
    redis,       \* refreshToken:<token of pair n> is in Redis
    client,      \* pairs that a response has handed out
    ended,       \* ended[n]: how pair n was ended, by requests answered with 200
    handler,
    faults

tokens == <<version, expired, blacklist, row, redis, client, ended>>
counters == <<attempts, ttl>>
vars == <<user, counters, tokens, handler, faults>>

-----------------------------------------------------------------------------
Counters == {"user", "ip"}
RowStatus == {"none", "live", "expired", "revoked"}
Ways == {"refresh", "logout", "revokeSession", "logoutAll", "changePassword"}
User == [password : Passwords, version : Nat, locked : BOOLEAN]

Guarded == {"logout", "revokeSession", "logoutAll", "changePassword", "fcm"}

Pcs == {"idle", "authenticate", "checkBlacklist",
        "readIp", "findUser", "incrUser", "expireUser", "incrIp", "expireIp",
        "lock", "clearUser", "clearIp", "saveUser", "mintRedis", "mintRow",
        "mintRedisAgain",
        "refreshRedis", "refreshRow", "refreshUser", "refreshSet",
        "refreshInsert", "refreshDrop", "refreshRevoke",
        "logout", "logoutRedis", "logoutRevoke",
        "revokeSession", "sessionRedis", "sessionRevoke",
        "logoutAll", "revokeAll", "findRevoked", "dropAll",
        "changePassword", "changeSave", "resetFind", "resetSave",
        "fcm", "fcmSave"}

Handler == [pc : Pcs,
            request : Ways \cup {"signin", "resetPassword", "fcm"},
            pair : Pairs \cup {NoPair},    \* the tokens the request carries
            new : Pairs \cup {NoPair},     \* the tokens it is about to issue
            target : Pairs \cup {NoPair},  \* the session it is to revoke
            credential : Passwords \cup {Signature, Nobody},
            user : User,                   \* the loaded users row
            count : Nat,                   \* newAttempts
            found : SUBSET Pairs,          \* allTokens of logoutAllDevices
            covers : SUBSET Pairs]         \* what the client expects it to end

Idle == [pc |-> "idle", request |-> "signin", pair |-> NoPair, new |-> NoPair,
         target |-> NoPair, credential |-> Nobody,
         user |-> [password |-> Opening, version |-> 1, locked |-> FALSE],
         count |-> 0, found |-> {}, covers |-> {}]

At(h, pc) == handler[h].pc = pc

Becomes(h, d) == handler' = [handler EXCEPT ![h] = d]

Goto(h, pc) == Becomes(h, [handler[h] EXCEPT !.pc = pc])

\* An exception: the client gets no tokens and no promise.
Reject(h) == Becomes(h, Idle)

\* The request succeeds: S are the pairs it has ended.
Answer(h, S) ==
    /\ ended' = [n \in Pairs |-> IF n \in S THEN ended[n] \cup {handler[h].request}
                                 ELSE ended[n]]
    /\ client' = client \cup ({handler[h].new} \ {NoPair})
    /\ Becomes(h, Idle)

\* A uuid that neither a token nor a request in flight has.
Fresh(n) == version[n] = 0 /\ \A h \in Handlers : handler[h].new # n

Authenticates(credential, u) == credential \in {u.password, Signature}

Incr(k) == attempts' = [attempts EXCEPT ![k] = @ + 1] /\ UNCHANGED ttl

Expire(k) == ttl' = (IF attempts[k] > 0 THEN ttl \cup {k} ELSE ttl) /\ UNCHANGED attempts

Del(k) == attempts' = [attempts EXCEPT ![k] = 0] /\ ttl' = ttl \ {k}

-----------------------------------------------------------------------------
Init ==
    /\ user = Idle.user
    /\ attempts = [k \in Counters |-> 0]
    /\ ttl = {}
    /\ version = [n \in Pairs |-> 0]
    /\ expired = {}
    /\ blacklist = {}
    /\ row = [n \in Pairs |-> "none"]
    /\ redis = {}
    /\ client = {}
    /\ ended = [n \in Pairs |-> {}]
    /\ handler = [h \in Handlers |-> Idle]
    /\ faults = 0

-----------------------------------------------------------------------------
(* Requests arrive, and time passes. *)

Arrive(h, d) ==
    /\ At(h, "idle")
    /\ d.request \in Requests
    /\ Becomes(h, d)
    /\ UNCHANGED <<user, counters, tokens, faults>>

SignIn(h, c) ==
    \E n \in Pairs :
        /\ Fresh(n)
        /\ attempts["user"] < MaxFailures
        /\ Arrive(h, [Idle EXCEPT !.pc = "readIp", !.credential = c, !.new = n])

Refresh(h, old) ==
    \E n \in Pairs :
        /\ Fresh(n)
        /\ Arrive(h, [Idle EXCEPT !.pc = "refreshRedis", !.request = "refresh",
                                  !.pair = old, !.new = n])

ResetPassword(h, p) ==
    Arrive(h, [Idle EXCEPT !.pc = "resetFind", !.request = "resetPassword",
                           !.credential = p])

\* The pairs a request answered with 200 is to end.
Covers(r, n, m) ==
    CASE r = "logout" -> {n}
      [] r = "revokeSession" -> {m}
      [] r \in {"logoutAll", "changePassword"} -> client
      [] OTHER -> {}

\* The requests behind JwtAuthGuard carry the access token of a pair.
Request(h, r, n, m, p) ==
    /\ m # NoPair <=> r = "revokeSession"
    /\ p # Nobody <=> r = "changePassword"
    /\ m # NoPair => row[m] # "none"
    /\ Arrive(h, [Idle EXCEPT !.pc = "authenticate", !.request = r, !.pair = n,
                              !.target = m, !.credential = p, !.covers = Covers(r, n, m)])

ExpireAccess(n) ==
    /\ n \in client \ expired
    /\ expired' = expired \cup {n}
    /\ blacklist' = blacklist \ {n}
    /\ UNCHANGED <<user, counters, version, row, redis, client, ended, handler, faults>>

ExpireRefresh(n) ==
    /\ n \in client
    /\ row[n] = "live"
    /\ row' = [row EXCEPT ![n] = "expired"]
    /\ redis' = redis \ {n}
    /\ UNCHANGED <<user, counters, version, expired, blacklist, client, ended,
                   handler, faults>>

CounterExpires(k) ==
    /\ k \in ttl
    /\ Del(k)
    /\ UNCHANGED <<user, tokens, handler, faults>>

\* The lock lasts an hour, the 15 minutes of the failed sign-ins end before.
LockExpires ==
    /\ user.locked
    /\ "user" \notin ttl
    /\ user' = [user EXCEPT !.locked = FALSE]
    /\ handler' = [h \in Handlers |-> [handler[h] EXCEPT !.user.locked = FALSE]]
    /\ UNCHANGED <<counters, tokens, faults>>

-----------------------------------------------------------------------------
(* signin, up to the verdict on the credential.                            *)

ReadIp(h) ==
    /\ At(h, "readIp")
    /\ IF attempts["ip"] >= IpLimit THEN Reject(h) ELSE Goto(h, "findUser")
    /\ UNCHANGED <<user, counters, tokens, faults>>

FindUserMutantNoLockCheck(h) ==
    /\ At(h, "findUser")
    /\ Becomes(h, [handler[h] EXCEPT
          !.user = user,
          !.pc = IF handler[h].credential = Nobody THEN "incrIp"
                 ELSE IF Authenticates(handler[h].credential, user)
                 THEN "clearUser" ELSE "incrUser"])
    /\ UNCHANGED <<user, counters, tokens, faults>>

FindUser(h) ==
    LET credential == handler[h].credential IN
    /\ At(h, "findUser")
    /\ \/ /\ credential = Nobody
          /\ Goto(h, "incrIp")
       \/ /\ credential # Nobody
          /\ user.locked
          /\ Reject(h)
       \/ /\ credential # Nobody
          /\ ~user.locked
          /\ Becomes(h, [handler[h] EXCEPT
                !.user = user,
                !.credential = Nobody,   \* it is not used again
                !.pc = IF Authenticates(credential, user) THEN "clearUser"
                       ELSE "incrUser"])
    /\ UNCHANGED <<user, counters, tokens, faults>>

\* The TTL set when the limit is reached instead of on the first failure.
IncrUserMutantLateTtl(h) ==
    LET count == attempts["user"] + 1 IN
    /\ At(h, "incrUser")
    /\ Incr("user")
    /\ Becomes(h, [handler[h] EXCEPT
          !.count = count,
          !.pc = IF count = AttemptLimit THEN "expireUser" ELSE "incrIp"])
    /\ UNCHANGED <<user, tokens, faults>>

\* Only the first failure sets the TTL of the counter.
IncrUser(h) ==
    LET count == attempts["user"] + 1 IN
    /\ At(h, "incrUser")
    /\ Incr("user")
    /\ Becomes(h, [handler[h] EXCEPT
          !.count = count,
          !.pc = IF count = 1 THEN "expireUser" ELSE "incrIp"])
    /\ UNCHANGED <<user, tokens, faults>>

ExpireUser(h) ==
    /\ At(h, "expireUser")
    /\ Expire("user")
    /\ Goto(h, "incrIp")
    /\ UNCHANGED <<user, tokens, faults>>

IncrIp(h) ==
    /\ At(h, "incrIp")
    /\ Incr("ip")
    /\ Goto(h, "expireIp")
    /\ UNCHANGED <<user, tokens, faults>>

\* The account locked one failure later, as the warning mail announces.
ExpireIpMutantOneMore(h) ==
    /\ At(h, "expireIp")
    /\ Expire("ip")
    /\ IF handler[h].count > AttemptLimit THEN Goto(h, "lock") ELSE Reject(h)
    /\ UNCHANGED <<user, tokens, faults>>

\* Every failure renews the TTL; a count of 0 is that of an unknown number.
ExpireIp(h) ==
    /\ At(h, "expireIp")
    /\ Expire("ip")
    /\ IF handler[h].count >= AttemptLimit THEN Goto(h, "lock") ELSE Reject(h)
    /\ UNCHANGED <<user, tokens, faults>>

LockSave(h) ==
    /\ At(h, "lock")
    /\ user' = [handler[h].user EXCEPT !.locked = TRUE]
    /\ Reject(h)
    /\ UNCHANGED <<counters, tokens, faults>>

-----------------------------------------------------------------------------
(* signin, after the credential was accepted.                              *)

ClearUserMutantDecrement(h) ==
    /\ At(h, "clearUser")
    /\ attempts' = [attempts EXCEPT !["user"] = @ - 1]
    /\ Goto(h, "clearIp")
    /\ UNCHANGED <<user, ttl, tokens, faults>>

ClearUser(h) ==
    /\ At(h, "clearUser")
    /\ Del("user")
    /\ Goto(h, "clearIp")
    /\ UNCHANGED <<user, tokens, faults>>

ClearIp(h) ==
    /\ At(h, "clearIp")
    /\ Del("ip")
    /\ Goto(h, "saveUser")
    /\ UNCHANGED <<user, tokens, faults>>

\* save(user) with the password, tokenVersion and lock of the loaded row.
SaveUser(h) ==
    /\ At(h, "saveUser")
    /\ user' = [handler[h].user EXCEPT !.locked = FALSE]
    /\ Goto(h, "mintRedis")
    /\ UNCHANGED <<counters, tokens, faults>>

MintRedis(h) ==
    /\ At(h, "mintRedis")
    /\ version' = [version EXCEPT ![handler[h].new] = handler[h].user.version]
    /\ redis' = redis \cup {handler[h].new}
    /\ Goto(h, "mintRow")
    /\ UNCHANGED <<user, counters, expired, blacklist, row, client, ended, faults>>

MintRow(h) ==
    /\ At(h, "mintRow")
    /\ row' = [row EXCEPT ![handler[h].new] = "live"]
    /\ Goto(h, "mintRedisAgain")
    /\ UNCHANGED <<user, counters, version, expired, blacklist, redis, client,
                   ended, faults>>

\* signin stores the token createRefreshToken has stored already.
MintRedisAgain(h) ==
    /\ At(h, "mintRedisAgain")
    /\ redis' = redis \cup {handler[h].new}
    /\ Answer(h, {})
    /\ UNCHANGED <<user, counters, version, expired, blacklist, row, faults>>

-----------------------------------------------------------------------------
(* refreshToken.                                                           *)

RefreshRedis(h) ==
    /\ At(h, "refreshRedis")
    /\ IF handler[h].pair \in redis THEN Goto(h, "refreshRow") ELSE Reject(h)
    /\ UNCHANGED <<user, counters, tokens, faults>>

RefreshRow(h) ==
    /\ At(h, "refreshRow")
    /\ IF row[handler[h].pair] = "live" THEN Goto(h, "refreshUser") ELSE Reject(h)
    /\ UNCHANGED <<user, counters, tokens, faults>>

RefreshUser(h) ==
    /\ At(h, "refreshUser")
    /\ Becomes(h, [handler[h] EXCEPT !.user = user, !.pc = "refreshSet"])
    /\ UNCHANGED <<user, counters, tokens, faults>>

RefreshSet(h) ==
    /\ At(h, "refreshSet")
    /\ version' = [version EXCEPT ![handler[h].new] = handler[h].user.version]
    /\ redis' = redis \cup {handler[h].new}
    /\ Goto(h, "refreshInsert")
    /\ UNCHANGED <<user, counters, expired, blacklist, row, client, ended, faults>>

RefreshInsert(h) ==
    /\ At(h, "refreshInsert")
    /\ row' = [row EXCEPT ![handler[h].new] = "live"]
    /\ Goto(h, "refreshDrop")
    /\ UNCHANGED <<user, counters, version, expired, blacklist, redis, client,
                   ended, faults>>

\* The new token deleted instead of the old one.
RefreshDropMutantNew(h) ==
    /\ At(h, "refreshDrop")
    /\ redis' = redis \ {handler[h].new}
    /\ Goto(h, "refreshRevoke")
    /\ UNCHANGED <<user, counters, version, expired, blacklist, row, client,
                   ended, faults>>

RefreshDrop(h) ==
    /\ At(h, "refreshDrop")
    /\ redis' = redis \ {handler[h].pair}
    /\ Goto(h, "refreshRevoke")
    /\ UNCHANGED <<user, counters, version, expired, blacklist, row, client,
                   ended, faults>>

RefreshRevoke(h) ==
    /\ At(h, "refreshRevoke")
    /\ row' = [row EXCEPT ![handler[h].pair] = "revoked"]
    /\ Answer(h, {handler[h].pair})
    /\ UNCHANGED <<user, counters, version, expired, blacklist, redis, faults>>

-----------------------------------------------------------------------------
(* JwtAuthGuard, and the requests behind it.                               *)

Authenticate(h) ==
    LET n == handler[h].pair IN
    /\ At(h, "authenticate")
    /\ IF n \notin expired /\ version[n] = user.version
       THEN Goto(h, "checkBlacklist")
       ELSE Reject(h)
    /\ UNCHANGED <<user, counters, tokens, faults>>

CheckBlacklist(h) ==
    /\ At(h, "checkBlacklist")
    /\ IF handler[h].pair \in blacklist THEN Reject(h) ELSE Goto(h, handler[h].request)
    /\ UNCHANGED <<user, counters, tokens, faults>>

\* The remaining lifetime computed the wrong way round.
LogoutMutantTtl(h) ==
    /\ At(h, "logout")
    /\ blacklist' = blacklist \cup ({handler[h].pair} \cap expired)
    /\ Goto(h, "logoutRedis")
    /\ UNCHANGED <<user, counters, version, expired, row, redis, client, ended, faults>>

Logout(h) ==
    /\ At(h, "logout")
    /\ blacklist' = blacklist \cup ({handler[h].pair} \ expired)
    /\ Goto(h, "logoutRedis")
    /\ UNCHANGED <<user, counters, version, expired, row, redis, client, ended, faults>>

LogoutRedis(h) ==
    /\ At(h, "logoutRedis")
    /\ redis' = redis \ {handler[h].pair}
    /\ Goto(h, "logoutRevoke")
    /\ UNCHANGED <<user, counters, version, expired, blacklist, row, client,
                   ended, faults>>

LogoutRevoke(h) ==
    /\ At(h, "logoutRevoke")
    /\ row' = [row EXCEPT ![handler[h].pair] = "revoked"]
    /\ Answer(h, handler[h].covers)
    /\ UNCHANGED <<user, counters, version, expired, blacklist, redis, faults>>

RevokeSession(h) ==
    /\ At(h, "revokeSession")
    /\ Goto(h, "sessionRedis")
    /\ UNCHANGED <<user, counters, tokens, faults>>

SessionRedis(h) ==
    /\ At(h, "sessionRedis")
    /\ redis' = redis \ {handler[h].target}
    /\ Goto(h, "sessionRevoke")
    /\ UNCHANGED <<user, counters, version, expired, blacklist, row, client,
                   ended, faults>>

SessionRevoke(h) ==
    /\ At(h, "sessionRevoke")
    /\ row' = [row EXCEPT ![handler[h].target] = "revoked"]
    /\ Answer(h, handler[h].covers)
    /\ UNCHANGED <<user, counters, version, expired, blacklist, redis, faults>>

\* logoutAllDevices without its first step.
LogoutAllMutantSameVersion(h) ==
    /\ At(h, "logoutAll")
    /\ Goto(h, "revokeAll")
    /\ UNCHANGED <<user, counters, tokens, faults>>

LogoutAll(h) ==
    /\ At(h, "logoutAll")
    /\ user' = [user EXCEPT !.version = @ + 1]
    /\ Goto(h, "revokeAll")
    /\ UNCHANGED <<counters, tokens, faults>>

\* The update's WHERE clause with revoked: true.
RevokeAllMutantWhere(h) ==
    /\ At(h, "revokeAll")
    /\ Goto(h, "findRevoked")
    /\ UNCHANGED <<user, counters, tokens, faults>>

RevokeAll(h) ==
    /\ At(h, "revokeAll")
    /\ row' = [n \in Pairs |-> IF row[n] = "none" THEN "none" ELSE "revoked"]
    /\ Goto(h, "findRevoked")
    /\ UNCHANGED <<user, counters, version, expired, blacklist, redis, client,
                   ended, faults>>

FindRevoked(h) ==
    /\ At(h, "findRevoked")
    /\ Becomes(h, [handler[h] EXCEPT !.pc = "dropAll",
                                     !.found = {n \in Pairs : row[n] = "revoked"}])
    /\ UNCHANGED <<user, counters, tokens, faults>>

DropAll(h) ==
    /\ At(h, "dropAll")
    /\ redis' = redis \ handler[h].found
    /\ Answer(h, handler[h].covers)
    /\ UNCHANGED <<user, counters, version, expired, blacklist, row, faults>>

\* passwordChangeComplete: it goes on as logoutAllDevices.
ChangePassword(h) ==
    /\ At(h, "changePassword")
    /\ IF user.password = handler[h].credential
       THEN Reject(h)
       ELSE Goto(h, "changeSave")
    /\ UNCHANGED <<user, counters, tokens, faults>>

ChangeSave(h) ==
    /\ At(h, "changeSave")
    /\ user' = [user EXCEPT !.password = handler[h].credential]
    /\ Goto(h, "logoutAll")
    /\ UNCHANGED <<counters, tokens, faults>>

\* passwordResetComplete: neither the lock nor the sessions change.
ResetFind(h) ==
    /\ At(h, "resetFind")
    /\ IF user.password = handler[h].credential THEN Reject(h) ELSE Goto(h, "resetSave")
    /\ UNCHANGED <<user, counters, tokens, faults>>

ResetSave(h) ==
    /\ At(h, "resetSave")
    /\ user' = [user EXCEPT !.password = handler[h].credential]
    /\ Answer(h, {})
    /\ UNCHANGED <<counters, version, expired, blacklist, row, redis, faults>>

\* updateFcmToken and deleteFcmToken save every column but the password, which
\* is not selected.
FcmFind(h) ==
    /\ At(h, "fcm")
    /\ Becomes(h, [handler[h] EXCEPT !.user = user, !.pc = "fcmSave"])
    /\ UNCHANGED <<user, counters, tokens, faults>>

FcmSave(h) ==
    /\ At(h, "fcmSave")
    /\ user' = [handler[h].user EXCEPT !.password = user.password]
    /\ Answer(h, {})
    /\ UNCHANGED <<counters, version, expired, blacklist, row, redis, faults>>

-----------------------------------------------------------------------------
(* Faults.                                                                 *)

\* The call h awaits fails: logout goes on without its blacklist entry.
CallFails(h) ==
    /\ handler[h].pc # "idle"
    /\ faults < MaxFaults
    /\ faults' = faults + 1
    /\ IF At(h, "logout") THEN Goto(h, "logoutRedis") ELSE Reject(h)
    /\ UNCHANGED <<user, counters, tokens>>

Restart ==
    /\ faults < MaxFaults
    /\ faults' = faults + 1
    /\ \E h \in Handlers : handler[h].pc # "idle"
    /\ handler' = [h \in Handlers |-> Idle]
    /\ UNCHANGED <<user, counters, tokens>>

-----------------------------------------------------------------------------
Arrival(h) ==
    \/ \E c \in Credentials : SignIn(h, c)
    \/ \E n \in client : Refresh(h, n)
    \/ \E p \in Passwords : ResetPassword(h, p)
    \/ \E r \in Guarded, n \in client, m \in Pairs \cup {NoPair},
          p \in Passwords \cup {Nobody} : Request(h, r, n, m, p)

Passing ==
    \/ \E n \in Pairs : ExpireAccess(n) \/ ExpireRefresh(n)
    \/ \E k \in Counters : CounterExpires(k)
    \/ LockExpires

Judging(h) ==
    \/ ReadIp(h) \/ FindUser(h) \/ IncrUser(h) \/ ExpireUser(h)
    \/ IncrIp(h) \/ ExpireIp(h) \/ LockSave(h)

Issuing(h) ==
    \/ ClearUser(h) \/ ClearIp(h) \/ SaveUser(h)
    \/ MintRedis(h) \/ MintRow(h) \/ MintRedisAgain(h)
    \/ RefreshRedis(h) \/ RefreshRow(h) \/ RefreshUser(h) \/ RefreshSet(h)
    \/ RefreshInsert(h) \/ RefreshDrop(h) \/ RefreshRevoke(h)

Ending(h) ==
    \/ Authenticate(h) \/ CheckBlacklist(h)
    \/ Logout(h) \/ LogoutRedis(h) \/ LogoutRevoke(h)
    \/ RevokeSession(h) \/ SessionRedis(h) \/ SessionRevoke(h)
    \/ LogoutAll(h) \/ RevokeAll(h) \/ FindRevoked(h) \/ DropAll(h)

Updating(h) ==
    \/ ChangePassword(h) \/ ChangeSave(h) \/ ResetFind(h) \/ ResetSave(h)
    \/ FcmFind(h) \/ FcmSave(h)

Next ==
    \/ \E h \in Handlers :
          Arrival(h) \/ Judging(h) \/ Issuing(h) \/ Ending(h) \/ Updating(h)
          \/ CallFails(h)
    \/ Passing
    \/ Restart

Spec == Init /\ [][Next]_vars
=============================================================================
