--------------------------- MODULE AuthSerialProofs ---------------------------
(* What AuthSession keeps when its requests come one at a time: what a       *)
(* request has loaded is still what the users row says when it saves.        *)
EXTENDS AuthProofs

Serial == \A g, h \in Handlers : g = h

\* The calls before which the users row was loaded and since when nobody else
\* has written it; an unknown number, whose count is 0, has no row.
RowSteps == {"incrUser", "expireUser", "lock", "clearUser", "clearIp", "saveUser",
             "mintRedis", "refreshSet", "fcmSave"}

HoldsRow(d) == d.pc \in RowSteps \/ (d.pc \in {"incrIp", "expireIp"} /\ d.count > 0)

\* Of these the ones of a sign-in, which found the account unlocked.
FoundOpen(d) ==
    (HoldsRow(d) /\ d.request = "signin") \/ d.pc \in {"mintRow", "mintRedisAgain"}

ToAll == {"logoutAll", "changePassword"}

\* u is the users row, V[n] the version in the JWT of n.
Fits(d, u, V) ==
    /\ HoldsRow(d) => d.user = u
    /\ FoundOpen(d) => ~u.locked
    /\ d.pc \in {"readIp", "findUser"} => d.count = 0
    /\ d.pc \in {"revokeAll", "findRevoked", "dropAll"} =>
           \A n \in d.covers : V[n] < u.version

\* No token is newer than the users row; those of before a sign-out of every
\* device are older.
Ages(u, V, E) ==
    \A n \in Pairs :
        /\ V[n] <= u.version
        /\ E[n] \cap ToAll # {} => V[n] < u.version

InStep ==
    /\ Ages(user, version, ended)
    /\ \A h \in Handlers : Fits(handler[h], user, version)

\* The account is locked, or the sign-in that reached the limit will lock it.
Locking(d) ==
    d.pc = "lock" \/ (d.pc \in {"expireUser", "incrIp", "expireIp"} /\ d.count >= AttemptLimit)

LimitReached ==
    faults = 0 /\ attempts["user"] >= AttemptLimit =>
        user.locked \/ \E h \in Handlers : Locking(handler[h])

\* What a request has put in place of the session it issues, and what it has
\* found of the session it renews.
Placed(d, R, S) ==
    /\ d.pc \in {"mintRow", "mintRedisAgain", "refreshInsert", "refreshDrop"} => d.new \in S
    /\ d.pc \in {"mintRedisAgain", "refreshDrop"} => R[d.new] = "live"
    /\ d.pc = "refreshRow" /\ R[d.pair] = "live" => d.pair \in S
    /\ d.pc = "dropAll" => \A n \in d.found : R[n] = "revoked"

InPlace == \A h \in Handlers : Placed(handler[h], row, redis)

-----------------------------------------------------------------------------
(* The row a request has loaded, and the age of the tokens.                *)

\* A request at q has loaded, found and covers no more than it had as d.
Onward(d, q) ==
    /\ q \in RowSteps => HoldsRow(d)
    /\ q \in {"incrIp", "expireIp"} => HoldsRow(d) \/ d.count = 0
    /\ q \in {"mintRow", "mintRedisAgain"} => FoundOpen(d)
    /\ q \in {"revokeAll", "findRevoked", "dropAll"} => d.pc \in {"revokeAll", "findRevoked"}
    /\ q \in {"readIp", "findUser"} => d.pc \in {"readIp", "findUser"}

LEMMA OnwardFits ==
    ASSUME NEW d, NEW e, NEW u, NEW V, Fits(d, u, V), SameData(d, e), Onward(d, e.pc)
    PROVE  Fits(e, u, V)
<1>1. HoldsRow(e) => HoldsRow(d)
  BY DEF Onward, HoldsRow, SameData
<1>2. FoundOpen(e) => FoundOpen(d)
  BY <1>1 DEF Onward, FoundOpen, SameData, SameRequest
<1> QED
  BY <1>1, <1>2 DEF Onward, Fits, SameData, SameRequest

LEMMA IdleFits ==
    ASSUME NEW u, NEW V
    PROVE  Fits(Idle, u, V)
BY DEF Fits, Idle, HoldsRow, FoundOpen, RowSteps

LEMMA AloneInStep ==
    ASSUME Serial, NEW h \in Handlers, Ages(user', version', ended'),
           Fits(handler'[h], user', version')
    PROVE  InStep'
BY DEF Serial, InStep

LEMMA GotoInStep ==
    ASSUME Serial, Typed, InStep, NEW h \in Handlers, NEW q,
           (Goto(h, q) /\ Onward(handler[h], q)) \/ Reject(h),
           UNCHANGED <<user, version, ended>>
    PROVE  InStep'
<1>a. Ages(user', version', ended')
  BY DEF InStep
<1>1. CASE Goto(h, q) /\ Onward(handler[h], q)
  <2>1. handler'[h].pc = q /\ SameData(handler[h], handler'[h])
    BY <1>1, GotoMoves
  <2>2. Fits(handler[h], user, version)
    BY DEF InStep
  <2>3. Fits(handler'[h], user, version)
    BY <1>1, <2>1, <2>2, OnwardFits
  <2> QED
    BY <1>a, <2>3, AloneInStep
<1>2. CASE Reject(h)
  <2>1. handler'[h] = Idle
    BY <1>2, IdleMoves DEF Reject
  <2> QED
    BY <1>a, <2>1, IdleFits, AloneInStep
<1> QED
  BY <1>1, <1>2

\* An answer that is not one of a sign-out of every device.
LEMMA AnswerInStep ==
    ASSUME Serial, Typed, InStep, NEW h \in Handlers, NEW S, Answer(h, S),
           S = {} \/ handler[h].request \notin ToAll,
           UNCHANGED version, user'.version = user.version
    PROVE  InStep'
<1>1. handler'[h] = Idle
  BY AnswerEnds
<1>2. \A n \in Pairs : ended'[n] \cap ToAll = ended[n] \cap ToAll
  BY DEF Answer
<1>3. Ages(user', version', ended')
  BY <1>2 DEF InStep, Ages
<1> QED
  BY <1>1, <1>3, IdleFits, AloneInStep

\* A new token has the age of the row that was loaded.
LEMMA SignInStep ==
    ASSUME Serial, Typed, Issuance, InStep, NEW h \in Handlers,
           NEW q \in {"mintRow", "refreshInsert"}, Goto(h, q), Onward(handler[h], q),
           HoldsRow(handler[h]), Issues(handler[h]), handler[h].pc \notin Inserted,
           version' = [version EXCEPT ![handler[h].new] = handler[h].user.version],
           UNCHANGED <<user, ended>>
    PROVE  InStep'
<1>d. handler[h].new \in Pairs
  BY DEF Typed, Sound
<1>f. Fits(handler[h], user, version)
  BY DEF InStep
<1>u. handler[h].user = user /\ user.version \in Nat
  BY <1>f DEF Fits, Typed, TypeOK, User
<1>1. ended[handler[h].new] = {}
  BY <1>d DEF Issuance, TokensOK, Knows
<1>2. Ages(user', version', ended')
  <2>1. version'[handler[h].new] = user.version
    BY <1>d, <1>u DEF Typed, TypeOK
  <2>2. \A n \in Pairs \ {handler[h].new} : version'[n] = version[n]
    BY DEF Typed, TypeOK
  <2> QED
    BY <1>1, <1>u, <2>1, <2>2 DEF InStep, Ages
<1>3. handler'[h].pc = q /\ SameData(handler[h], handler'[h])
  BY GotoMoves
<1>4. Fits(handler'[h], user, version)
  BY <1>3, <1>f, OnwardFits
<1>5. Fits(handler'[h], user', version')
  BY <1>3, <1>4 DEF Fits
<1> QED
  BY <1>2, <1>5, AloneInStep

LEMMA JudgingInStep ==
    ASSUME Serial, Typed, InStep, NEW h \in Handlers, Judging(h)
    PROVE  InStep'
<1> USE AccountAssumption DEF At
<1>d. handler[h] \in Handler /\ Sound(handler[h])
  BY DEF Typed, Sound
<1>f. Fits(handler[h], user, version)
  BY DEF InStep
<1>1. CASE ReadIp(h)
  <2>1. /\ (Goto(h, "findUser") /\ Onward(handler[h], "findUser")) \/ Reject(h)
        /\ UNCHANGED <<user, version, ended>>
    BY <1>1 DEF ReadIp, tokens, Onward, RowSteps
  <2> QED
    BY <2>1, GotoInStep
<1>2. CASE FindUser(h)
  <2>1. UNCHANGED <<user, version, ended>> /\ Ages(user', version', ended')
    BY <1>2 DEF FindUser, tokens, InStep
  <2>2. handler[h].count = 0 /\ handler[h].request = "signin"
    BY <1>2, <1>d, <1>f, RequestAt DEF FindUser, Fits, Sound, SignInSteps
  <2>3. Fits(handler'[h], user, version)
    <3>1. CASE handler'[h] = Idle
      BY <3>1, IdleFits
    <3>2. CASE handler'[h].pc = "incrIp" /\ SameData(handler[h], handler'[h])
      BY <3>2, <2>2 DEF Fits, HoldsRow, FoundOpen, RowSteps, SameData
    <3>3. CASE handler'[h].pc \in {"clearUser", "incrUser"} /\ ~user.locked /\ handler'[h].user = user
      BY <3>3 DEF Fits, HoldsRow, FoundOpen, RowSteps
    <3> QED
      BY <1>2, <3>1, <3>2, <3>3, FindUserMoves
  <2> QED
    BY <2>1, <2>3, AloneInStep
<1>3. CASE IncrUser(h)
  <2>1. UNCHANGED <<user, version, ended>> /\ Ages(user', version', ended')
    BY <1>3 DEF IncrUser, tokens, InStep
  <2>2. /\ SameRequest(handler[h], handler'[h])
        /\ handler'[h].user = handler[h].user
        /\ handler'[h].pc \in {"expireUser", "incrIp"}
    BY <1>3, IncrUserMoves
  <2>3. HoldsRow(handler[h]) /\ handler[h].request = "signin"
    BY <1>3, <1>d, RequestAt DEF IncrUser, HoldsRow, RowSteps, Sound, SignInSteps
  <2>4. Fits(handler'[h], user, version)
    BY <1>f, <2>2, <2>3 DEF Fits, FoundOpen
  <2> QED
    BY <2>1, <2>4, AloneInStep
<1>4. CASE ExpireUser(h)
  <2>1. /\ Goto(h, "incrIp") /\ Onward(handler[h], "incrIp")
        /\ UNCHANGED <<user, version, ended>>
    BY <1>4 DEF ExpireUser, tokens, Onward, HoldsRow, RowSteps
  <2> QED
    BY <2>1, GotoInStep
<1>5. CASE IncrIp(h)
  <2>1. handler[h].count \in Nat
    BY <1>d DEF Handler
  <2>2. /\ Goto(h, "expireIp") /\ Onward(handler[h], "expireIp")
        /\ UNCHANGED <<user, version, ended>>
    BY <1>5, <2>1 DEF IncrIp, tokens, Onward, HoldsRow, RowSteps
  <2> QED
    BY <2>2, GotoInStep
<1>6. CASE ExpireIp(h)
  <2>1. handler[h].count >= AttemptLimit => handler[h].count > 0
    BY <1>d DEF Handler
  <2>2. /\ (Goto(h, "lock") /\ Onward(handler[h], "lock")) \/ Reject(h)
        /\ UNCHANGED <<user, version, ended>>
    BY <1>6, <2>1 DEF ExpireIp, tokens, Onward, HoldsRow, RowSteps
  <2> QED
    BY <2>2, GotoInStep
<1>7. CASE LockSave(h)
  <2>1. handler[h].user = user /\ user \in User
    BY <1>7, <1>f DEF LockSave, Fits, HoldsRow, RowSteps, Typed, TypeOK
  <2>2. user' = [user EXCEPT !.locked = TRUE] /\ UNCHANGED <<version, ended>>
    BY <1>7, <2>1 DEF LockSave, tokens
  <2>3. user'.version = user.version
    BY <2>1, <2>2 DEF User
  <2>4. Ages(user', version', ended')
    BY <2>2, <2>3 DEF InStep, Ages
  <2>5. handler'[h] = Idle
    BY <1>7, IdleMoves DEF LockSave, Reject
  <2> QED
    BY <2>4, <2>5, IdleFits, AloneInStep
<1> QED
  BY <1>1, <1>2, <1>3, <1>4, <1>5, <1>6, <1>7 DEF Judging

LEMMA IssuingInStep ==
    ASSUME Serial, Typed, Issuance, InStep, NEW h \in Handlers, Issuing(h)
    PROVE  InStep'
<1> USE DEF At
<1>d. handler[h] \in Handler /\ Sound(handler[h])
  BY DEF Typed, Sound
<1>f. Fits(handler[h], user, version)
  BY DEF InStep
<1>1. CASE ClearUser(h)
  <2>1. /\ Goto(h, "clearIp") /\ Onward(handler[h], "clearIp")
        /\ UNCHANGED <<user, version, ended>>
    BY <1>1 DEF ClearUser, tokens, Onward, HoldsRow, RowSteps
  <2> QED
    BY <2>1, GotoInStep
<1>2. CASE ClearIp(h)
  <2>1. /\ Goto(h, "saveUser") /\ Onward(handler[h], "saveUser")
        /\ UNCHANGED <<user, version, ended>>
    BY <1>2 DEF ClearIp, tokens, Onward, HoldsRow, RowSteps
  <2> QED
    BY <2>1, GotoInStep
<1>3. CASE SaveUser(h)
  <2>1. handler[h].user = user /\ ~user.locked /\ user \in User
    BY <1>3, <1>d, <1>f, RequestAt
       DEF SaveUser, Fits, HoldsRow, FoundOpen, RowSteps, Typed, TypeOK, Sound, SignInSteps
  <2>2. user' = user
    BY <1>3, <2>1 DEF SaveUser, User
  <2>3. /\ Goto(h, "mintRedis") /\ Onward(handler[h], "mintRedis")
        /\ UNCHANGED <<user, version, ended>>
    BY <1>3, <2>2 DEF SaveUser, tokens, Onward, HoldsRow, RowSteps
  <2> QED
    BY <2>3, GotoInStep
<1>4. CASE MintRedis(h)
  <2>1. handler[h].request = "signin"
    BY <1>4, <1>d, RequestAt DEF MintRedis, Sound, SignInSteps
  <2>2. HoldsRow(handler[h]) /\ Onward(handler[h], "mintRow")
    BY <1>4, <2>1 DEF MintRedis, HoldsRow, FoundOpen, Onward, RowSteps
  <2>3. Issues(handler[h]) /\ handler[h].pc \notin Inserted
    BY <1>4, <2>1 DEF MintRedis, Issues, Inserted
  <2>4. /\ Goto(h, "mintRow")
        /\ version' = [version EXCEPT ![handler[h].new] = handler[h].user.version]
        /\ UNCHANGED <<user, ended>>
    BY <1>4 DEF MintRedis
  <2> QED
    BY <2>2, <2>3, <2>4, SignInStep
<1>5. CASE MintRow(h)
  <2>1. /\ Goto(h, "mintRedisAgain") /\ Onward(handler[h], "mintRedisAgain")
        /\ UNCHANGED <<user, version, ended>>
    BY <1>5 DEF MintRow, Onward, FoundOpen, RowSteps
  <2> QED
    BY <2>1, GotoInStep
<1>6. CASE MintRedisAgain(h)
  BY <1>6, AnswerInStep DEF MintRedisAgain
<1>7. CASE RefreshRedis(h)
  <2>1. /\ (Goto(h, "refreshRow") /\ Onward(handler[h], "refreshRow")) \/ Reject(h)
        /\ UNCHANGED <<user, version, ended>>
    BY <1>7 DEF RefreshRedis, tokens, Onward, RowSteps
  <2> QED
    BY <2>1, GotoInStep
<1>8. CASE RefreshRow(h)
  <2>1. /\ (Goto(h, "refreshUser") /\ Onward(handler[h], "refreshUser")) \/ Reject(h)
        /\ UNCHANGED <<user, version, ended>>
    BY <1>8 DEF RefreshRow, tokens, Onward, RowSteps
  <2> QED
    BY <2>1, GotoInStep
<1>9. CASE RefreshUser(h)
  <2>1. UNCHANGED <<user, version, ended>> /\ Ages(user', version', ended')
    BY <1>9 DEF RefreshUser, tokens, InStep
  <2>2. /\ handler'[h].pc = "refreshSet"
        /\ handler'[h].user = user
        /\ handler'[h].request = "refresh"
    BY <1>9, <1>d, LoadMoves, RequestAt DEF RefreshUser, SameRequest, Sound, RefreshSteps
  <2>3. Fits(handler'[h], user, version)
    BY <2>2 DEF Fits, HoldsRow, FoundOpen, RowSteps
  <2> QED
    BY <2>1, <2>3, AloneInStep
<1>10. CASE RefreshSet(h)
  <2>1. handler[h].request = "refresh"
    BY <1>10, <1>d, RequestAt DEF RefreshSet, Sound, RefreshSteps
  <2>2. HoldsRow(handler[h]) /\ Onward(handler[h], "refreshInsert")
    BY <1>10 DEF RefreshSet, HoldsRow, Onward, RowSteps
  <2>3. Issues(handler[h]) /\ handler[h].pc \notin Inserted
    BY <1>10, <2>1 DEF RefreshSet, Issues, Inserted
  <2>4. /\ Goto(h, "refreshInsert")
        /\ version' = [version EXCEPT ![handler[h].new] = handler[h].user.version]
        /\ UNCHANGED <<user, ended>>
    BY <1>10 DEF RefreshSet
  <2> QED
    BY <2>2, <2>3, <2>4, SignInStep
<1>11. CASE RefreshInsert(h)
  <2>1. /\ Goto(h, "refreshDrop") /\ Onward(handler[h], "refreshDrop")
        /\ UNCHANGED <<user, version, ended>>
    BY <1>11 DEF RefreshInsert, Onward, RowSteps
  <2> QED
    BY <2>1, GotoInStep
<1>12. CASE RefreshDrop(h)
  <2>1. /\ Goto(h, "refreshRevoke") /\ Onward(handler[h], "refreshRevoke")
        /\ UNCHANGED <<user, version, ended>>
    BY <1>12 DEF RefreshDrop, Onward, RowSteps
  <2> QED
    BY <2>1, GotoInStep
<1>13. CASE RefreshRevoke(h)
  <2>1. handler[h].request \notin ToAll
    BY <1>13, <1>d, RequestAt DEF RefreshRevoke, Sound, RefreshSteps, ToAll
  <2> QED
    BY <1>13, <2>1, AnswerInStep DEF RefreshRevoke
<1> QED
  BY <1>1, <1>2, <1>3, <1>4, <1>5, <1>6, <1>7, <1>8, <1>9, <1>10, <1>11, <1>12, <1>13
     DEF Issuing

LEMMA EndingInStep ==
    ASSUME Serial, Typed, InStep, NEW h \in Handlers, Ending(h)
    PROVE  InStep'
<1> USE DEF At
<1>d. handler[h] \in Handler /\ Sound(handler[h])
  BY DEF Typed, Sound
<1>f. Fits(handler[h], user, version)
  BY DEF InStep
<1>1. CASE Authenticate(h)
  <2>1. /\ (Goto(h, "checkBlacklist") /\ Onward(handler[h], "checkBlacklist")) \/ Reject(h)
        /\ UNCHANGED <<user, version, ended>>
    BY <1>1 DEF Authenticate, tokens, Onward, RowSteps
  <2> QED
    BY <2>1, GotoInStep
<1>2. CASE CheckBlacklist(h)
  <2>1. PICK q \in Guarded : Goto(h, q) \/ Reject(h)
    BY <1>2, <1>d, RequestAt DEF CheckBlacklist, Sound, GuardSteps, Guarded
  <2>2. Onward(handler[h], q)
    BY DEF Onward, RowSteps, Guarded
  <2>3. UNCHANGED <<user, version, ended>>
    BY <1>2 DEF CheckBlacklist, tokens
  <2> QED
    BY <2>1, <2>2, <2>3, GotoInStep
<1>3. CASE Logout(h)
  <2>1. /\ Goto(h, "logoutRedis") /\ Onward(handler[h], "logoutRedis")
        /\ UNCHANGED <<user, version, ended>>
    BY <1>3 DEF Logout, tokens, Onward, RowSteps
  <2> QED
    BY <2>1, GotoInStep
<1>4. CASE LogoutRedis(h)
  <2>1. /\ Goto(h, "logoutRevoke") /\ Onward(handler[h], "logoutRevoke")
        /\ UNCHANGED <<user, version, ended>>
    BY <1>4 DEF LogoutRedis, tokens, Onward, RowSteps
  <2> QED
    BY <2>1, GotoInStep
<1>5. CASE LogoutRevoke(h)
  <2>1. handler[h].request \notin ToAll
    BY <1>5, <1>d, RequestAt DEF LogoutRevoke, Sound, LogoutSteps, ToAll
  <2> QED
    BY <1>5, <2>1, AnswerInStep DEF LogoutRevoke
<1>6. CASE RevokeSession(h)
  <2>1. /\ Goto(h, "sessionRedis") /\ Onward(handler[h], "sessionRedis")
        /\ UNCHANGED <<user, version, ended>>
    BY <1>6 DEF RevokeSession, tokens, Onward, RowSteps
  <2> QED
    BY <2>1, GotoInStep
<1>7. CASE SessionRedis(h)
  <2>1. /\ Goto(h, "sessionRevoke") /\ Onward(handler[h], "sessionRevoke")
        /\ UNCHANGED <<user, version, ended>>
    BY <1>7 DEF SessionRedis, tokens, Onward, RowSteps
  <2> QED
    BY <2>1, GotoInStep
<1>8. CASE SessionRevoke(h)
  <2>1. handler[h].request \notin ToAll
    BY <1>8, <1>d, RequestAt DEF SessionRevoke, Sound, SessionSteps, ToAll
  <2> QED
    BY <1>8, <2>1, AnswerInStep DEF SessionRevoke
<1>9. CASE LogoutAll(h)
  <2>1. /\ user' = [user EXCEPT !.version = @ + 1]
        /\ UNCHANGED <<version, ended>>
    BY <1>9 DEF LogoutAll, tokens
  <2>2. user'.version = user.version + 1 /\ user.version \in Nat
    BY <2>1 DEF Typed, TypeOK, User
  <2>3. \A n \in Pairs : version[n] < user'.version
    BY <2>2 DEF InStep, Ages, Typed, TypeOK
  <2>4. Ages(user', version', ended')
    BY <2>1, <2>2, <2>3 DEF Ages, Typed, TypeOK
  <2>5. handler'[h].pc = "revokeAll" /\ handler'[h].covers \subseteq Pairs
    BY <1>9, <1>d, GotoMoves DEF LogoutAll, SameData, SameRequest, Handler
  <2>6. Fits(handler'[h], user', version')
    BY <2>1, <2>3, <2>5 DEF Fits, HoldsRow, FoundOpen, RowSteps
  <2> QED
    BY <2>4, <2>6, AloneInStep
<1>10. CASE RevokeAll(h)
  <2>1. /\ Goto(h, "findRevoked") /\ Onward(handler[h], "findRevoked")
        /\ UNCHANGED <<user, version, ended>>
    BY <1>10 DEF RevokeAll, tokens, Onward, RowSteps
  <2> QED
    BY <2>1, GotoInStep
<1>11. CASE FindRevoked(h)
  <2>1. UNCHANGED <<user, version, ended>> /\ Ages(user', version', ended')
    BY <1>11 DEF FindRevoked, tokens, InStep
  <2>2. handler'[h].pc = "dropAll" /\ handler'[h].covers = handler[h].covers
    BY <1>11, FindRevokedMoves DEF SameRequest
  <2>3. Fits(handler'[h], user, version)
    BY <1>11, <1>f, <2>2 DEF FindRevoked, Fits, HoldsRow, FoundOpen, RowSteps
  <2> QED
    BY <2>1, <2>3, AloneInStep
<1>12. CASE DropAll(h)
  <2>1. /\ Answer(h, handler[h].covers)
        /\ UNCHANGED <<user, version>>
    BY <1>12 DEF DropAll
  <2>2. \A n \in handler[h].covers : version[n] < user.version
    BY <1>12, <1>f DEF DropAll, Fits
  <2>3. \A n \in Pairs \ handler[h].covers : ended'[n] = ended[n]
    BY <2>1, AnswerEnds
  <2>4. Ages(user', version', ended')
    BY <2>1, <2>2, <2>3 DEF InStep, Ages
  <2>5. handler'[h] = Idle
    BY <2>1, AnswerEnds
  <2> QED
    BY <2>4, <2>5, IdleFits, AloneInStep
<1> QED
  BY <1>1, <1>2, <1>3, <1>4, <1>5, <1>6, <1>7, <1>8, <1>9, <1>10, <1>11, <1>12 DEF Ending

LEMMA UpdatingInStep ==
    ASSUME Serial, Typed, InStep, NEW h \in Handlers, Updating(h)
    PROVE  InStep'
<1> USE DEF At
<1>d. handler[h] \in Handler /\ Sound(handler[h])
  BY DEF Typed, Sound
<1>f. Fits(handler[h], user, version)
  BY DEF InStep
<1>1. CASE ChangePassword(h)
  <2>1. /\ (Goto(h, "changeSave") /\ Onward(handler[h], "changeSave")) \/ Reject(h)
        /\ UNCHANGED <<user, version, ended>>
    BY <1>1 DEF ChangePassword, tokens, Onward, RowSteps
  <2> QED
    BY <2>1, GotoInStep
<1>2. CASE ChangeSave(h)
  <2>1. /\ user' = [user EXCEPT !.password = handler[h].credential]
        /\ UNCHANGED <<version, ended>>
    BY <1>2 DEF ChangeSave, tokens
  <2>2. user'.version = user.version
    BY <2>1 DEF Typed, TypeOK, User
  <2>3. Ages(user', version', ended')
    BY <2>1, <2>2 DEF InStep, Ages
  <2>4. handler'[h].pc = "logoutAll"
    BY <1>2, GotoMoves DEF ChangeSave
  <2>5. Fits(handler'[h], user', version')
    BY <2>4 DEF Fits, HoldsRow, FoundOpen, RowSteps
  <2> QED
    BY <2>3, <2>5, AloneInStep
<1>3. CASE ResetFind(h)
  <2>1. /\ (Goto(h, "resetSave") /\ Onward(handler[h], "resetSave")) \/ Reject(h)
        /\ UNCHANGED <<user, version, ended>>
    BY <1>3 DEF ResetFind, tokens, Onward, RowSteps
  <2> QED
    BY <2>1, GotoInStep
<1>4. CASE ResetSave(h)
  <2>1. /\ user' = [user EXCEPT !.password = handler[h].credential]
        /\ UNCHANGED version
        /\ Answer(h, {})
    BY <1>4 DEF ResetSave
  <2>2. user'.version = user.version
    BY <2>1 DEF Typed, TypeOK, User
  <2> QED
    BY <2>1, <2>2, AnswerInStep
<1>5. CASE FcmFind(h)
  <2>1. UNCHANGED <<user, version, ended>> /\ Ages(user', version', ended')
    BY <1>5 DEF FcmFind, tokens, InStep
  <2>2. /\ handler'[h].pc = "fcmSave"
        /\ handler'[h].user = user
        /\ handler'[h].request = "fcm"
    BY <1>5, <1>d, LoadMoves, RequestAt DEF FcmFind, SameRequest, Sound, FcmSteps
  <2>3. Fits(handler'[h], user, version)
    BY <2>2 DEF Fits, HoldsRow, FoundOpen, RowSteps
  <2> QED
    BY <2>1, <2>3, AloneInStep
<1>6. CASE FcmSave(h)
  <2>1. handler[h].user = user
    BY <1>6, <1>f DEF FcmSave, Fits, HoldsRow, RowSteps
  <2>2. /\ user' = [user EXCEPT !.password = user.password]
        /\ UNCHANGED version
        /\ Answer(h, {})
    BY <1>6, <2>1 DEF FcmSave
  <2>3. user'.version = user.version
    BY <2>2 DEF Typed, TypeOK, User
  <2> QED
    BY <2>2, <2>3, AnswerInStep
<1> QED
  BY <1>1, <1>2, <1>3, <1>4, <1>5, <1>6 DEF Updating

\* A request arrives with no failed sign-in counted.
LEMMA ArrivalCount ==
    ASSUME Typed, NEW h \in Handlers, Arrival(h)
    PROVE  handler'[h].count = 0
<1>i. Idle \in Handler /\ Idle.count = 0
  BY IdleSound DEF Sound, Idle
<1>1. ASSUME NEW c \in Credentials, SignIn(h, c)
      PROVE  handler'[h].count = 0
  <2>1. PICK n \in Pairs : Becomes(h, [Idle EXCEPT !.pc = "readIp", !.credential = c, !.new = n])
    BY <1>1 DEF SignIn, Arrive
  <2> QED
    BY <1>i, <2>1 DEF Becomes, Typed, TypeOK, Handler
<1>2. ASSUME NEW old \in client, Refresh(h, old)
      PROVE  handler'[h].count = 0
  <2>1. PICK n \in Pairs :
          Becomes(h, [Idle EXCEPT !.pc = "refreshRedis", !.request = "refresh",
                                  !.pair = old, !.new = n])
    BY <1>2 DEF Refresh, Arrive
  <2> QED
    BY <1>i, <2>1 DEF Becomes, Typed, TypeOK, Handler
<1>3. ASSUME NEW p \in Passwords, ResetPassword(h, p)
      PROVE  handler'[h].count = 0
  BY <1>3, <1>i DEF ResetPassword, Arrive, Becomes, Typed, TypeOK, Handler
<1>4. ASSUME NEW r, NEW n, NEW m, NEW p, Request(h, r, n, m, p)
      PROVE  handler'[h].count = 0
  <2>1. PICK S : S = Covers(r, n, m)
    OBVIOUS
  <2>2. Becomes(h, [Idle EXCEPT !.pc = "authenticate", !.request = r, !.pair = n,
                                !.target = m, !.credential = p, !.covers = S])
    BY <1>4, <2>1 DEF Request, Arrive
  <2> QED
    BY <1>i, <2>2 DEF Becomes, Typed, TypeOK, Handler
<1> QED
  BY <1>1, <1>2, <1>3, <1>4 DEF Arrival

\* LockExpires reaches into the loaded row of a request, and nowhere else.
LEMMA UnlockMoves ==
    ASSUME Typed, NEW h \in Handlers, LockExpires
    PROVE  /\ handler'[h].pc = handler[h].pc
           /\ SameRequest(handler[h], handler'[h])
           /\ handler'[h].count = handler[h].count
           /\ handler'[h].found = handler[h].found
           /\ handler'[h].user = [handler[h].user EXCEPT !.locked = FALSE]
<1>1. PICK u : u = [handler[h].user EXCEPT !.locked = FALSE]
  OBVIOUS
<1>2. handler'[h] = [handler[h] EXCEPT !.user = u]
  BY <1>1 DEF LockExpires
<1>3. handler[h] \in Handler
  BY DEF Typed, Sound
<1> QED
  BY <1>1, <1>2, <1>3 DEF Handler, SameRequest

LEMMA OtherInStep ==
    ASSUME Serial, Typed, InStep,
           \/ \E h \in Handlers : Arrival(h) \/ CallFails(h)
           \/ Passing
           \/ Restart
    PROVE  InStep'
<1> USE DEF At
<1>1. ASSUME NEW h \in Handlers, Arrival(h)
      PROVE  InStep'
  <2>1. /\ UNCHANGED <<user, version, ended>>
        /\ handler'[h].pc \in {"readIp", "refreshRedis", "resetFind", "authenticate"}
        /\ handler'[h].count = 0
    BY <1>1, ArrivalMoves, ArrivalCount DEF tokens
  <2>2. Ages(user', version', ended')
    BY <2>1 DEF InStep
  <2>3. Fits(handler'[h], user', version')
    BY <2>1 DEF Fits, HoldsRow, FoundOpen, RowSteps
  <2> QED
    BY <2>2, <2>3, AloneInStep
<1>2. ASSUME NEW h \in Handlers, CallFails(h)
      PROVE  InStep'
  <2>1. /\ (Goto(h, "logoutRedis") /\ Onward(handler[h], "logoutRedis")) \/ Reject(h)
        /\ UNCHANGED <<user, version, ended>>
    BY <1>2 DEF CallFails, tokens, Onward, RowSteps
  <2> QED
    BY <2>1, GotoInStep
<1>3. CASE Restart
  BY <1>3, IdleFits DEF Restart, InStep, tokens
<1>4. ASSUME UNCHANGED <<user, version, ended, handler>>
      PROVE  InStep'
  BY <1>4 DEF InStep
<1>5. CASE \E n \in Pairs : ExpireAccess(n) \/ ExpireRefresh(n)
  BY <1>4, <1>5 DEF ExpireAccess, ExpireRefresh
<1>6. CASE \E k \in Counters : CounterExpires(k)
  BY <1>4, <1>6 DEF CounterExpires, tokens
<1>7. CASE LockExpires
  <2>1. /\ user' = [user EXCEPT !.locked = FALSE]
        /\ UNCHANGED <<version, ended>>
    BY <1>7 DEF LockExpires, tokens
  <2>2. user'.version = user.version /\ ~user'.locked
    BY <2>1 DEF Typed, TypeOK, User
  <2>3. Ages(user', version', ended')
    BY <2>1, <2>2 DEF InStep, Ages
  <2>4. ASSUME NEW h \in Handlers
        PROVE  Fits(handler'[h], user', version')
    <3>1. Fits(handler[h], user, version)
      BY DEF InStep
    <3>2. HoldsRow(handler'[h]) => HoldsRow(handler[h])
      BY <1>7, UnlockMoves DEF HoldsRow
    <3> QED
      BY <1>7, <2>1, <2>2, <3>1, <3>2, UnlockMoves DEF Fits, SameRequest
  <2> QED
    BY <2>3, <2>4 DEF InStep
<1> QED
  BY <1>1, <1>2, <1>3, <1>5, <1>6, <1>7 DEF Passing

LEMMA InStepAlways == ASSUME Serial PROVE Spec => []InStep
<1>1. Init => InStep
  <2>1. Init => Ages(user, version, ended)
    BY DEF Init, Ages, Idle
  <2> QED
    BY <2>1, IdleFits DEF Init, InStep
<1>2. Typed /\ Issuance /\ InStep /\ [Next]_vars => InStep'
  <2>1. CASE UNCHANGED vars
    BY <2>1 DEF vars, tokens, InStep
  <2> QED
    BY <2>1, JudgingInStep, IssuingInStep, EndingInStep, UpdatingInStep, OtherInStep DEF Next
<1> QED
  BY <1>1, <1>2, TypedAlways, IssuanceAlways, PTL DEF Spec

\* One request at a time, a pair that an answered request has ended is refused,
\* whatever fails: its refresh token always, its access token after a logout of
\* all devices or a password change, since its tokenVersion is behind the users
\* row, and after a logout unless a call has failed, since its id is in the
\* blacklist.
THEOREM EndedStaysRejected == ASSUME Serial PROVE Spec => []EndedIsRejected
<1>1. Typed /\ Issuance /\ LoggedOut /\ InStep => EndedIsRejected
  <2> SUFFICES ASSUME Typed, Issuance, LoggedOut, InStep, NEW n \in Pairs
               PROVE  /\ ended[n] # {} => ~RefreshAccepted(n)
                      /\ ended[n] \cap ToAll # {} => ~AccessAccepted(n)
                      /\ "logout" \in ended[n] => faults > 0 \/ ~AccessAccepted(n)
    BY DEF EndedIsRejected, ToAll
  <2>1. ended[n] # {} => ~RefreshAccepted(n)
    BY DEF Issuance, TokensOK, RefreshAccepted
  <2>2. ASSUME ended[n] \cap ToAll # {}
        PROVE  ~AccessAccepted(n)
    <3>1. version[n] < user.version /\ version[n] \in Nat /\ user.version \in Nat
      BY <2>2 DEF InStep, Ages, Typed, TypeOK, User
    <3> QED
      BY <3>1 DEF AccessAccepted
  <2>3. ASSUME "logout" \in ended[n], ~(faults > 0)
        PROVE  ~AccessAccepted(n)
    <3>1. faults = 0
      BY <2>3 DEF Typed, TypeOK
    <3> QED
      BY <2>3, <3>1 DEF LoggedOut, AccessAccepted
  <2> QED
    BY <2>1, <2>2, <2>3
<1> QED
  BY <1>1, TypedAlways, IssuanceAlways, LoggedOutAlways, InStepAlways, PTL

-----------------------------------------------------------------------------
(* The lock.                                                               *)

\* Only LockSave changes the lock: the other saves write back the lock they
\* have loaded, and a sign-in that goes through found none.
LEMMA LockStays ==
    ASSUME Typed, InStep, NEW h \in Handlers,
           Judging(h) \/ Issuing(h) \/ Ending(h) \/ Updating(h)
    PROVE  IF LockSave(h) THEN ~user.locked /\ user'.locked ELSE user'.locked = user.locked
<1> USE DEF At
<1>d. handler[h] \in Handler /\ Sound(handler[h]) /\ user \in User
  BY DEF Typed, TypeOK, Sound
<1>f. Fits(handler[h], user, version)
  BY DEF InStep
<1>s. handler[h].pc \in {"lock", "saveUser"} => handler[h].user = user /\ ~user.locked
  BY <1>d, <1>f, RequestAt DEF Fits, HoldsRow, FoundOpen, RowSteps, Sound, SignInSteps
<1>1. CASE LockSave(h)
  BY <1>1, <1>d, <1>s DEF LockSave, User
<1>2. ASSUME Judging(h), ~LockSave(h)
      PROVE  user' = user
  BY <1>2 DEF Judging, ReadIp, FindUser, IncrUser, ExpireUser, IncrIp, ExpireIp
<1>3. ASSUME SaveUser(h)
      PROVE  user'.locked = user.locked
  BY <1>3, <1>d, <1>s DEF SaveUser, User
<1>4. ASSUME Issuing(h), ~SaveUser(h)
      PROVE  user' = user
  BY <1>4 DEF Issuing, ClearUser, ClearIp, MintRedis, MintRow, MintRedisAgain, RefreshRedis,
              RefreshRow, RefreshUser, RefreshSet, RefreshInsert, RefreshDrop, RefreshRevoke
<1>5. ASSUME LogoutAll(h)
      PROVE  user'.locked = user.locked
  BY <1>5, <1>d DEF LogoutAll, User
<1>6. ASSUME Ending(h), ~LogoutAll(h)
      PROVE  user' = user
  BY <1>6 DEF Ending, Authenticate, CheckBlacklist, Logout, LogoutRedis, LogoutRevoke,
              RevokeSession, SessionRedis, SessionRevoke, RevokeAll, FindRevoked, DropAll
<1>7. ASSUME FcmSave(h)
      PROVE  user'.locked = user.locked
  BY <1>7, <1>d, <1>f DEF FcmSave, User, Fits, HoldsRow, RowSteps
<1>8. ASSUME ChangeSave(h) \/ ResetSave(h)
      PROVE  user'.locked = user.locked
  BY <1>8, <1>d DEF ChangeSave, ResetSave, User
<1>9. ASSUME ChangePassword(h) \/ ResetFind(h) \/ FcmFind(h)
      PROVE  user' = user
  BY <1>9 DEF ChangePassword, ResetFind, FcmFind
<1> QED
  BY <1>1, <1>2, <1>3, <1>4, <1>5, <1>6, <1>7, <1>8, <1>9 DEF Updating

\* Nothing but LockExpires, which moves no request, ends a lock: a password reset
\* could without breaking the property, and does not.
THEOREM LockEndsWithTime == ASSUME Serial PROVE Spec => OnlyTimeUnlocks
<1> DEFINE Opens == user.locked /\ ~user'.locked =>
                       \A h \in Handlers : ResetSave(h) \/ handler'[h].pc = handler[h].pc
<1>1. Typed /\ InStep /\ [Next]_vars => [Opens]_vars
  <2> SUFFICES ASSUME Typed, InStep, Next, user.locked, ~user'.locked
               PROVE  \A h \in Handlers : handler'[h].pc = handler[h].pc
    OBVIOUS
  <2>1. ASSUME NEW h \in Handlers, Judging(h) \/ Issuing(h) \/ Ending(h) \/ Updating(h)
        PROVE  FALSE
    BY <2>1, LockStays
  <2>2. ASSUME UNCHANGED user
        PROVE  FALSE
    BY <2>2
  <2>3. ASSUME NEW h \in Handlers, Arrival(h) \/ CallFails(h)
        PROVE  FALSE
    BY <2>2, <2>3, ArrivalMoves DEF CallFails
  <2>4. ASSUME Passing, ~LockExpires
        PROVE  FALSE
    BY <2>2, <2>4 DEF Passing, ExpireAccess, ExpireRefresh, CounterExpires
  <2>5. ASSUME Restart
        PROVE  FALSE
    BY <2>2, <2>5 DEF Restart
  <2>6. CASE LockExpires
    BY <2>6, UnlockMoves
  <2> QED
    BY <2>1, <2>3, <2>4, <2>5, <2>6 DEF Next
<1> QED
  BY <1>1, TypedAlways, InStepAlways, PTL DEF Spec, OnlyTimeUnlocks

LEMMA LimitKept ==
    ASSUME Serial, LimitReached, NEW h \in Handlers,
           faults' = faults, attempts'["user"] = attempts["user"],
           user'.locked = user.locked, Locking(handler[h]) => Locking(handler'[h])
    PROVE  LimitReached'
BY DEF Serial, LimitReached

LEMMA JudgingLimit ==
    ASSUME Serial, Typed, InStep, LimitReached, NEW h \in Handlers, Judging(h)
    PROVE  LimitReached'
<1> USE AccountAssumption DEF At
<1>d. handler[h] \in Handler /\ attempts["user"] \in Nat /\ attempts["ip"] \in Nat
  BY DEF Typed, TypeOK, Sound, Counters
<1>l. ~LockSave(h) => user'.locked = user.locked
  BY LockStays
<1>1. CASE ReadIp(h) \/ FindUser(h)
  <2>1. /\ UNCHANGED <<attempts, faults>>
        /\ ~Locking(handler[h])
        /\ ~LockSave(h)
    BY <1>1 DEF ReadIp, FindUser, counters, Locking, LockSave
  <2> QED
    BY <2>1, <1>l, LimitKept
<1>2. CASE IncrUser(h)
  <2>1. attempts'["user"] = attempts["user"] + 1
    BY <1>2, <1>d DEF IncrUser, Incr, Typed, TypeOK, Counters
  <2>2. /\ handler'[h].count = attempts["user"] + 1
        /\ handler'[h].pc \in {"expireUser", "incrIp"}
    BY <1>2, IncrUserMoves
  <2> QED
    BY <2>1, <2>2 DEF LimitReached, Locking
<1>3. CASE ExpireUser(h) \/ IncrIp(h)
  <2>1. /\ faults' = faults
        /\ attempts'["user"] = attempts["user"]
        /\ ~LockSave(h)
    BY <1>3 DEF ExpireUser, IncrIp, Expire, Incr, LockSave, Typed, TypeOK, Counters
  <2>2. handler'[h].pc \in {"incrIp", "expireIp"} /\ handler'[h].count = handler[h].count
    BY <1>3, GotoMoves DEF ExpireUser, IncrIp, SameData
  <2>3. Locking(handler[h]) => Locking(handler'[h])
    BY <1>3, <2>2 DEF ExpireUser, IncrIp, Locking
  <2> QED
    BY <2>1, <2>3, <1>l, LimitKept
<1>4. CASE ExpireIp(h)
  <2>1. /\ faults' = faults
        /\ attempts'["user"] = attempts["user"]
        /\ ~LockSave(h)
    BY <1>4 DEF ExpireIp, Expire, LockSave
  <2>2. handler[h].count >= AttemptLimit => handler'[h].pc = "lock"
    BY <1>4, GotoMoves DEF ExpireIp
  <2>3. Locking(handler[h]) => Locking(handler'[h])
    BY <1>4, <2>2 DEF ExpireIp, Locking
  <2> QED
    BY <2>1, <2>3, <1>l, LimitKept
<1>5. CASE LockSave(h)
  BY <1>5, LockStays DEF LimitReached
<1> QED
  BY <1>1, <1>2, <1>3, <1>4, <1>5 DEF Judging

LEMMA IssuingLimit ==
    ASSUME Serial, Typed, InStep, LimitReached, NEW h \in Handlers, Issuing(h)
    PROVE  LimitReached'
<1> USE AccountAssumption DEF At
<1>n. attempts["user"] \in Nat
  BY DEF Typed, TypeOK, Counters
<1>1. CASE ClearUser(h)
  <2>1. attempts'["user"] = 0
    BY <1>1 DEF ClearUser, Del, Typed, TypeOK, Counters
  <2> QED
    BY <2>1 DEF LimitReached
<1>2. CASE Issuing(h) /\ ~ClearUser(h)
  <2>1. ~Locking(handler[h]) /\ ~LockSave(h) /\ faults' = faults
    BY <1>2 DEF Issuing, ClearIp, SaveUser, MintRedis, MintRow, MintRedisAgain, RefreshRedis,
                RefreshRow, RefreshUser, RefreshSet, RefreshInsert, RefreshDrop, RefreshRevoke,
                Locking, LockSave
  <2>2. CASE ClearIp(h)
    <3>1. attempts'["user"] = attempts["user"]
      BY <2>2 DEF ClearIp, Del, Typed, TypeOK, Counters
    <3> QED
      BY <2>1, <3>1, LockStays, LimitKept
  <2>3. CASE ~ClearIp(h)
    <3>1. UNCHANGED attempts
      BY <1>2, <2>3
         DEF Issuing, SaveUser, MintRedis, MintRow, MintRedisAgain, RefreshRedis, RefreshRow,
             RefreshUser, RefreshSet, RefreshInsert, RefreshDrop, RefreshRevoke, counters
    <3> QED
      BY <2>1, <3>1, LockStays, LimitKept
  <2> QED
    BY <2>2, <2>3
<1> QED
  BY <1>1, <1>2

LEMMA RequestsLimit ==
    ASSUME Serial, Typed, InStep, LimitReached, NEW h \in Handlers, Ending(h) \/ Updating(h)
    PROVE  LimitReached'
<1>1. ASSUME Ending(h)
      PROVE  ~Locking(handler[h]) /\ ~LockSave(h) /\ UNCHANGED <<attempts, faults>>
  BY <1>1 DEF Ending, Authenticate, CheckBlacklist, Logout, LogoutRedis, LogoutRevoke,
              RevokeSession, SessionRedis, SessionRevoke, LogoutAll, RevokeAll, FindRevoked,
              DropAll, counters, At, Locking, LockSave
<1>2. ASSUME Updating(h)
      PROVE  ~Locking(handler[h]) /\ ~LockSave(h) /\ UNCHANGED <<attempts, faults>>
  BY <1>2 DEF Updating, ChangePassword, ChangeSave, ResetFind, ResetSave, FcmFind, FcmSave,
              counters, At, Locking, LockSave
<1> QED
  BY <1>1, <1>2, LockStays, LimitKept

\* The lock outlives the window of the failed sign-ins: it opens with the
\* counter gone, or held by no TTL, which a fault alone can leave behind.
LEMMA UnlockLimit ==
    ASSUME Typed, InStep, CountersExpire, LimitReached, LockExpires
    PROVE  LimitReached'
<1> USE AccountAssumption DEF At
<1>n. attempts["user"] \in Nat /\ faults \in Nat
  BY DEF Typed, TypeOK, Counters
<1>1. UNCHANGED <<attempts, faults>> /\ user.locked /\ "user" \notin ttl
  BY DEF LockExpires, counters
<1>2. ASSUME NEW h \in Handlers, handler[h].pc = "expireUser"
      PROVE  FALSE
  <2>1. Fits(handler[h], user, version) /\ handler[h].request = "signin"
    BY <1>2, RequestAt DEF InStep, Typed, Sound, SignInSteps
  <2> QED
    BY <1>1, <1>2, <2>1 DEF Fits, FoundOpen, HoldsRow, RowSteps
<1>3. faults = 0 => attempts["user"] = 0
  BY <1>n, <1>1, <1>2 DEF CountersExpire, Counters
<1> QED
  BY <1>1, <1>3 DEF LimitReached

LEMMA OtherLimit ==
    ASSUME Serial, Typed, InStep, CountersExpire, LimitReached,
           \/ \E h \in Handlers : Arrival(h) \/ CallFails(h)
           \/ Passing
           \/ Restart
    PROVE  LimitReached'
<1> USE AccountAssumption DEF At
<1>n. attempts["user"] \in Nat /\ faults \in Nat
  BY DEF Typed, TypeOK, Counters
<1>1. ASSUME NEW h \in Handlers, Arrival(h)
      PROVE  LimitReached'
  BY <1>1, ArrivalMoves, LimitKept DEF Locking, counters
<1>2. CASE (\E h \in Handlers : CallFails(h)) \/ Restart
  BY <1>2, <1>n DEF CallFails, Restart, LimitReached
<1>3. CASE \E n \in Pairs : ExpireAccess(n) \/ ExpireRefresh(n)
  BY <1>3 DEF ExpireAccess, ExpireRefresh, LimitReached, counters
<1>4. ASSUME NEW k \in Counters, CounterExpires(k)
      PROVE  LimitReached'
  <2>1. /\ attempts'["user"] \in {0, attempts["user"]}
        /\ UNCHANGED <<user, handler, faults>>
    BY <1>4 DEF CounterExpires, Del, Typed, TypeOK, Counters
  <2> QED
    BY <2>1 DEF LimitReached
<1>5. CASE LockExpires
  BY <1>5, UnlockLimit
<1> QED
  BY <1>1, <1>2, <1>3, <1>4, <1>5 DEF Passing

LEMMA LimitAlways == ASSUME Serial PROVE Spec => []LimitReached
<1>1. Init => LimitReached
  BY AccountAssumption DEF Init, LimitReached, Counters
<1>2. Typed /\ InStep /\ CountersExpire /\ LimitReached /\ [Next]_vars => LimitReached'
  <2>1. CASE UNCHANGED vars
    BY <2>1 DEF vars, counters, LimitReached
  <2> QED
    BY <2>1, JudgingLimit, IssuingLimit, RequestsLimit, OtherLimit DEF Next
<1> QED
  BY <1>1, <1>2, TypedAlways, InStepAlways, CountersAlwaysExpire, PTL DEF Spec

\* AttemptLimit failed sign-ins of one window leave the account locked, until
\* the first failed call: the lock is saved after the counters, by the request
\* that reached the limit, and ends after they do.
THEOREM LimitAlwaysLocks == ASSUME Serial PROVE Spec => []LimitLocks
<1>1. LimitReached => LimitLocks
  BY DEF LimitReached, LimitLocks, Quiet, At, Locking
<1> QED
  BY <1>1, LimitAlways, PTL

-----------------------------------------------------------------------------
(* The sessions of the abstract ledger.                                    *)

LEMMA AloneInPlace ==
    ASSUME Serial, NEW h \in Handlers, Placed(handler'[h], row', redis')
    PROVE  InPlace'
BY DEF Serial, InPlace

\* The calls before which something has to be in place.
Watched == {"mintRow", "mintRedisAgain", "refreshRow", "refreshInsert", "refreshDrop", "dropAll"}

LEMMA Unwatched ==
    ASSUME NEW d, NEW R, NEW S, d.pc \notin Watched
    PROVE  Placed(d, R, S)
BY DEF Placed, Watched

\* The calls between which the old session of a refresh counts as live.
RenewSteps == {"refreshUser", "refreshSet", "refreshInsert", "refreshDrop"}

Reaches(h) ==
    \/ MintRedis(h) \/ MintRow(h) \/ RefreshRedis(h) \/ RefreshSet(h) \/ RefreshInsert(h)
    \/ FindRevoked(h)

LEMMA Elsewhere ==
    ASSUME Typed, NEW h \in Handlers, ~Reaches(h),
           Judging(h) \/ Issuing(h) \/ Ending(h) \/ Updating(h)
    PROVE  /\ handler'[h].pc \notin Watched
           /\ ~RefreshRow(h) /\ ~RefreshUser(h) => handler'[h].pc \notin RenewSteps
<1> USE DEF At
<1>1. CASE Judging(h)
  <2>1. CASE FindUser(h)
    BY <2>1, FindUserMoves DEF Watched, RenewSteps
  <2>2. CASE IncrUser(h)
    BY <2>2, IncrUserMoves DEF Watched, RenewSteps
  <2>3. CASE Judging(h) /\ ~FindUser(h) /\ ~IncrUser(h)
    <3>1. \/ Goto(h, "findUser") \/ Goto(h, "incrIp") \/ Goto(h, "expireIp") \/ Goto(h, "lock")
          \/ Reject(h)
      BY <2>3 DEF Judging, ReadIp, ExpireUser, IncrIp, ExpireIp, LockSave
    <3> QED
      BY <3>1, GotoMoves, IdleMoves DEF Reject, Watched, RenewSteps
  <2> QED
    BY <1>1, <2>1, <2>2, <2>3
<1>2. CASE Issuing(h)
  <2>1. CASE RefreshUser(h)
    BY <2>1, LoadMoves DEF RefreshUser, Watched, RenewSteps
  <2>2. CASE Issuing(h) /\ ~RefreshUser(h)
    <3>1. \/ Goto(h, "clearIp") \/ Goto(h, "saveUser") \/ Goto(h, "mintRedis")
          \/ (RefreshRow(h) /\ Goto(h, "refreshUser")) \/ Goto(h, "refreshRevoke")
          \/ Reject(h) \/ \E S : Answer(h, S)
      BY <2>2 DEF Reaches, Issuing, ClearUser, ClearIp, SaveUser, MintRedisAgain,
                  RefreshRow, RefreshDrop, RefreshRevoke
    <3> QED
      BY <3>1, GotoMoves, IdleMoves DEF Reject, Answer, Watched, RenewSteps
  <2> QED
    BY <1>2, <2>1, <2>2
<1>3. CASE Ending(h)
  <2>1. CASE CheckBlacklist(h)
    <3>1. handler[h].request \in Guarded
      BY <2>1, RequestAt DEF CheckBlacklist, Typed, Sound, GuardSteps
    <3> QED
      BY <2>1, <3>1, GotoMoves, IdleMoves DEF CheckBlacklist, Reject, Watched, RenewSteps, Guarded
  <2>2. CASE Ending(h) /\ ~CheckBlacklist(h)
    <3>1. \/ Goto(h, "checkBlacklist") \/ Goto(h, "logoutRedis") \/ Goto(h, "logoutRevoke")
          \/ Goto(h, "sessionRedis") \/ Goto(h, "sessionRevoke")
          \/ Goto(h, "revokeAll") \/ Goto(h, "findRevoked")
          \/ Reject(h) \/ \E S : Answer(h, S)
      BY <2>2 DEF Reaches, Ending, Authenticate, Logout, LogoutRedis, LogoutRevoke,
                  RevokeSession, SessionRedis, SessionRevoke, LogoutAll, RevokeAll, DropAll
    <3> QED
      BY <3>1, GotoMoves, IdleMoves DEF Reject, Answer, Watched, RenewSteps
  <2> QED
    BY <1>3, <2>1, <2>2
<1>4. CASE Updating(h)
  <2>1. CASE FcmFind(h)
    BY <2>1, LoadMoves DEF FcmFind, Watched, RenewSteps
  <2>2. CASE Updating(h) /\ ~FcmFind(h)
    <3>1. \/ Goto(h, "changeSave") \/ Goto(h, "logoutAll") \/ Goto(h, "resetSave")
          \/ Reject(h) \/ Answer(h, {})
      BY <2>2 DEF Updating, ChangePassword, ChangeSave, ResetFind, ResetSave, FcmSave
    <3> QED
      BY <3>1, GotoMoves, IdleMoves DEF Reject, Answer, Watched, RenewSteps
  <2> QED
    BY <1>4, <2>1, <2>2
<1> QED
  BY <1>1, <1>2, <1>3, <1>4

LEMMA ReachesInPlace ==
    ASSUME Serial, Typed, InPlace, NEW h \in Handlers, Reaches(h)
    PROVE  InPlace'
<1> USE DEF At
<1>d. Sound(handler[h])
  BY DEF Typed
<1>p. Placed(handler[h], row, redis)
  BY DEF InPlace
<1>1. CASE MintRedis(h)
  <2>1. handler'[h].pc = "mintRow" /\ handler'[h].new = handler[h].new
    BY <1>1, GotoMoves DEF MintRedis, SameData, SameRequest
  <2>2. handler[h].new \in redis'
    BY <1>1 DEF MintRedis
  <2> QED
    BY <2>1, <2>2, AloneInPlace DEF Placed
<1>2. CASE MintRow(h)
  <2>1. handler'[h].pc = "mintRedisAgain" /\ handler'[h].new = handler[h].new
    BY <1>2, GotoMoves DEF MintRow, SameData, SameRequest
  <2>2. handler[h].request = "signin" /\ handler[h].new \in Pairs
    BY <1>2, <1>d, RequestAt DEF MintRow, Sound, Issues, SignInSteps
  <2>3. handler[h].new \in redis' /\ row'[handler[h].new] = "live"
    BY <1>2, <1>p, <2>2 DEF MintRow, Placed, Typed, TypeOK
  <2> QED
    BY <2>1, <2>3, AloneInPlace DEF Placed
<1>3. CASE RefreshRedis(h)
  <2>1. \/ /\ handler'[h].pc = "refreshRow"
           /\ handler'[h].pair = handler[h].pair
           /\ handler[h].pair \in redis
        \/ handler'[h].pc = "idle"
    BY <1>3, GotoMoves, IdleMoves DEF RefreshRedis, SameData, SameRequest, Reject
  <2>2. UNCHANGED redis
    BY <1>3 DEF RefreshRedis, tokens
  <2> QED
    BY <2>1, <2>2, AloneInPlace DEF Placed
<1>4. CASE RefreshSet(h)
  <2>1. handler'[h].pc = "refreshInsert" /\ handler'[h].new = handler[h].new
    BY <1>4, GotoMoves DEF RefreshSet, SameData, SameRequest
  <2>2. handler[h].new \in redis'
    BY <1>4 DEF RefreshSet
  <2> QED
    BY <2>1, <2>2, AloneInPlace DEF Placed
<1>5. CASE RefreshInsert(h)
  <2>1. handler'[h].pc = "refreshDrop" /\ handler'[h].new = handler[h].new
    BY <1>5, GotoMoves DEF RefreshInsert, SameData, SameRequest
  <2>2. handler[h].request = "refresh" /\ handler[h].new \in Pairs
    BY <1>5, <1>d, RequestAt DEF RefreshInsert, Sound, Issues, RefreshSteps
  <2>3. handler[h].new \in redis' /\ row'[handler[h].new] = "live"
    BY <1>5, <1>p, <2>2 DEF RefreshInsert, Placed, Typed, TypeOK
  <2> QED
    BY <2>1, <2>3, AloneInPlace DEF Placed
<1>6. CASE FindRevoked(h)
  <2>1. /\ handler'[h].pc = "dropAll"
        /\ handler'[h].found = {n \in Pairs : row[n] = "revoked"}
    BY <1>6, FindRevokedMoves
  <2>2. UNCHANGED row
    BY <1>6 DEF FindRevoked, tokens
  <2> QED
    BY <2>1, <2>2, AloneInPlace DEF Placed
<1> QED
  BY <1>1, <1>2, <1>3, <1>4, <1>5, <1>6 DEF Reaches

LEMMA OtherInPlace ==
    ASSUME Serial, Typed, Issuance, InPlace,
           \/ \E h \in Handlers : Arrival(h) \/ CallFails(h)
           \/ Passing
           \/ Restart
    PROVE  InPlace'
<1> USE DEF At
<1>1. ASSUME NEW h \in Handlers, Arrival(h)
      PROVE  InPlace'
  <2>1. handler'[h].pc \in {"readIp", "refreshRedis", "resetFind", "authenticate"}
    BY <1>1, ArrivalMoves
  <2> QED
    BY <2>1, Unwatched, AloneInPlace DEF Watched
<1>2. ASSUME NEW h \in Handlers, CallFails(h)
      PROVE  InPlace'
  <2>1. handler'[h].pc \in {"logoutRedis", "idle"}
    BY <1>2, GotoMoves, IdleMoves DEF CallFails, Reject
  <2> QED
    BY <2>1, Unwatched, AloneInPlace DEF Watched
<1>3. CASE Restart
  <2>1. \A h \in Handlers : handler'[h].pc = "idle"
    BY <1>3, IdleSound DEF Restart
  <2> QED
    BY <2>1, Unwatched DEF Watched, InPlace
<1>4. ASSUME NEW n \in Pairs, ExpireRefresh(n)
      PROVE  InPlace'
  <2>1. /\ n \in client /\ row[n] = "live"
        /\ row'[n] = "expired" /\ \A m \in Pairs \ {n} : row'[m] = row[m]
        /\ redis' = redis \ {n}
        /\ UNCHANGED handler
    BY <1>4 DEF ExpireRefresh, Typed, TypeOK
  <2>2. ASSUME NEW h \in Handlers
        PROVE  Placed(handler[h], row', redis')
    <3>1. Placed(handler[h], row, redis) /\ Knows(handler[h], version, row, client)
      BY DEF InPlace, Issuance
    <3>2. Sound(handler[h]) /\ handler[h].found \subseteq Pairs
      BY DEF Typed, Sound, Handler
    <3>3. handler[h].pc \in {"mintRow", "mintRedisAgain", "refreshInsert", "refreshDrop"} =>
            handler[h].new \in Pairs \ {n}
      BY <2>1, <3>1, <3>2, RequestAt DEF Knows, Sound, Issues, SignInSteps, RefreshSteps
    <3>4. handler[h].pc = "refreshRow" => handler[h].pair \in Pairs
      BY <3>2, RequestAt DEF Sound, RefreshSteps
    <3> QED
      BY <2>1, <3>1, <3>2, <3>3, <3>4 DEF Placed
  <2> QED
    BY <2>1, <2>2 DEF InPlace
<1>5. ASSUME NEW n \in Pairs, ExpireAccess(n)
      PROVE  InPlace'
  BY <1>5 DEF ExpireAccess, InPlace
<1>6. CASE \E k \in Counters : CounterExpires(k)
  BY <1>6 DEF CounterExpires, InPlace, tokens
<1>7. CASE LockExpires
  <2>1. UNCHANGED <<row, redis>>
    BY <1>7 DEF LockExpires, tokens
  <2>2. ASSUME NEW h \in Handlers
        PROVE  Placed(handler'[h], row, redis)
    <3>1. /\ handler'[h].pc = handler[h].pc
          /\ SameRequest(handler[h], handler'[h])
          /\ handler'[h].found = handler[h].found
      BY <1>7, UnlockMoves
    <3>2. Placed(handler[h], row, redis)
      BY DEF InPlace
    <3> QED
      BY <3>1, <3>2 DEF Placed, SameRequest
  <2> QED
    BY <2>1, <2>2 DEF InPlace
<1> QED
  BY <1>1, <1>2, <1>3, <1>4, <1>5, <1>6, <1>7 DEF Passing

LEMMA InPlaceAlways == ASSUME Serial PROVE Spec => []InPlace
<1>1. Init => InPlace
  BY IdleSound, Unwatched DEF Init, InPlace, Watched
<1>2. Typed /\ Issuance /\ InPlace /\ [Next]_vars => InPlace'
  <2>1. CASE UNCHANGED vars
    BY <2>1 DEF vars, tokens, InPlace
  <2>2. ASSUME Serial, Typed, InPlace, NEW h \in Handlers,
               Judging(h) \/ Issuing(h) \/ Ending(h) \/ Updating(h)
        PROVE  InPlace'
    BY <2>2, Elsewhere, Unwatched, AloneInPlace, ReachesInPlace
  <2> QED
    BY <2>1, <2>2, OtherInPlace DEF Next
<1> QED
  BY <1>1, <1>2, TypedAlways, IssuanceAlways, PTL DEF Spec

-----------------------------------------------------------------------------
(* One request at a time implements SessionLedger.                         *)

Live == ({n \in Pairs : RefreshAccepted(n)} \ Renewal) \cup Renewed
Used == {n \in Pairs : row[n] # "none"} \ Renewal

\* What the ledger sees of the request d.
Sees(d, R, S, L, U) ==
    /\ \A n : n \in L <=>
          \/ n \in Pairs /\ n \in S /\ R[n] = "live" /\ ~(d.pc = "refreshDrop" /\ n = d.new)
          \/ d.pc \in RenewSteps /\ n = d.pair
    /\ \A n : n \in U <=>
          n \in Pairs /\ R[n] # "none" /\ ~(d.pc = "refreshDrop" /\ n = d.new)

LEMMA View ==
    ASSUME Serial, NEW h \in Handlers
    PROVE  /\ Sees(handler[h], row, redis, Live, Used)
           /\ Sees(handler'[h], row', redis', Live', Used')
<1>1. /\ \A n : n \in Renewed <=> handler[h].pc \in RenewSteps /\ n = handler[h].pair
      /\ \A n : n \in Renewal <=> handler[h].pc = "refreshDrop" /\ n = handler[h].new
  BY DEF Serial, Renewed, Renewal, RenewSteps, At
<1>2. /\ \A n : n \in Renewed' <=> handler'[h].pc \in RenewSteps /\ n = handler'[h].pair
      /\ \A n : n \in Renewal' <=> handler'[h].pc = "refreshDrop" /\ n = handler'[h].new
  BY DEF Serial, Renewed, Renewal, RenewSteps, At
<1>3. Sees(handler[h], row, redis, Live, Used)
  BY <1>1 DEF Sees, Live, Used, RefreshAccepted
<1>4. Sees(handler'[h], row', redis', Live', Used')
  BY <1>2 DEF Sees, Live, Used, RefreshAccepted
<1> QED
  BY <1>3, <1>4

\* The steps of the ledger, element by element.
SessionStep == [Sessions!Next]_<<Live, Used, user.locked>>

Same(A, B) == \A n : n \in A <=> n \in B

LEMMA Stutters ==
    ASSUME Same(Live', Live), Same(Used', Used), user'.locked = user.locked
    PROVE  SessionStep
<1>1. Live' = Live
  BY DEF Same
<1>2. Used' = Used
  BY DEF Same
<1> QED
  BY <1>1, <1>2 DEF SessionStep

LEMMA Begins ==
    ASSUME NEW m \in Pairs, m \notin Used, ~user.locked \/ (MaxFaults > 0 /\ Live # {}),
           Same(Live', Live \cup {m}), Same(Used', Used \cup {m}), user'.locked = user.locked
    PROVE  SessionStep
<1>1. Live' = Live \cup {m}
  BY DEF Same
<1>2. Used' = Used \cup {m}
  BY DEF Same
<1>3. Sessions!SignIn(m) \/ Sessions!Fork(m)
  BY <1>1, <1>2 DEF Sessions!SignIn, Sessions!Fork, Sessions!Begin, Live, Used
<1> QED
  BY <1>3 DEF SessionStep, Sessions!Next

LEMMA Renews ==
    ASSUME NEW old \in Pairs, NEW m \in Pairs, old \in Live, m \notin Used,
           Same(Live', (Live \ {old}) \cup {m}), Same(Used', Used \cup {m}),
           user'.locked = user.locked
    PROVE  SessionStep
<1>1. Live' = (Live \ {old}) \cup {m}
  BY DEF Same
<1>2. Used' = Used \cup {m}
  BY DEF Same
<1>3. Sessions!Renew(old, m)
  BY <1>1, <1>2 DEF Sessions!Renew, Live, Used
<1> QED
  BY <1>3 DEF SessionStep, Sessions!Next

LEMMA Ends ==
    ASSUME NEW m \in Pairs, Same(Live', Live \ {m}), Same(Used', Used),
           user'.locked = user.locked
    PROVE  SessionStep
<1>1. Live' = Live \ {m} /\ Used' = Used
  BY DEF Same
<1>2. CASE m \in Live
  <2>1. Sessions!End(m)
    BY <1>1, <1>2 DEF Sessions!End, Live, Used
  <2> QED
    BY <2>1 DEF SessionStep, Sessions!Next
<1>3. CASE m \notin Live
  BY <1>1, <1>3, Stutters DEF Same
<1> QED
  BY <1>2, <1>3

LEMMA EndsAll ==
    ASSUME \A n : n \notin Live', Same(Used', Used), user'.locked = user.locked
    PROVE  SessionStep
<1>1. Live' = {} /\ Used' = Used
  BY DEF Same
<1>2. Sessions!EndAll
  BY <1>1 DEF Sessions!EndAll, Live, Used
<1> QED
  BY <1>2 DEF SessionStep, Sessions!Next

LEMMA Locks ==
    ASSUME Typed, Typed', user'.locked # user.locked, Same(Live', Live), Same(Used', Used)
    PROVE  SessionStep
<1>1. Live' = Live /\ Used' = Used
  BY DEF Same
<1>2. user.locked \in BOOLEAN /\ user'.locked \in BOOLEAN
  BY DEF Typed, TypeOK, User
<1>3. Sessions!Lock \/ Sessions!Unlock
  BY <1>1, <1>2 DEF Sessions!Lock, Sessions!Unlock, Live, Used
<1> QED
  BY <1>3 DEF SessionStep, Sessions!Next

\* Steps that leave rows, keys and lock alone, of no refresh past its checks.
LEMMA Calm ==
    ASSUME Serial, NEW h \in Handlers, UNCHANGED <<row, redis>>, user'.locked = user.locked,
           handler[h].pc \notin RenewSteps, handler'[h].pc \notin RenewSteps
    PROVE  SessionStep
<1>1. handler[h].pc # "refreshDrop" /\ handler'[h].pc # "refreshDrop"
  BY DEF RenewSteps
<1>2. Same(Live', Live) /\ Same(Used', Used)
  BY <1>1, View DEF Same, Sees
<1> QED
  BY <1>2, Stutters

\* The token of m is deleted, or its row revoked.
LEMMA Dropped ==
    ASSUME Serial, Typed, NEW h \in Handlers, NEW m \in Pairs, user'.locked = user.locked,
           handler[h].pc \notin RenewSteps, handler'[h].pc \notin RenewSteps,
           \/ redis' = redis \ {m} /\ UNCHANGED row
           \/ row' = [row EXCEPT ![m] = "revoked"] /\ row[m] # "none" /\ UNCHANGED redis
    PROVE  SessionStep
<1>1. handler[h].pc # "refreshDrop" /\ handler'[h].pc # "refreshDrop"
  BY DEF RenewSteps
<1>2. \A n \in Pairs :
        /\ n \in redis' /\ row'[n] = "live" <=> n \in redis /\ row[n] = "live" /\ n # m
        /\ row'[n] # "none" <=> row[n] # "none"
  <2>1. CASE redis' = redis \ {m} /\ UNCHANGED row
    BY <2>1
  <2>2. CASE row' = [row EXCEPT ![m] = "revoked"] /\ row[m] # "none" /\ UNCHANGED redis
    <3>1. row'[m] = "revoked" /\ \A n \in Pairs \ {m} : row'[n] = row[n]
      BY <2>2 DEF Typed, TypeOK
    <3> QED
      BY <2>2, <3>1
  <2> QED
    BY <2>1, <2>2
<1>3. Same(Live', Live \ {m}) /\ Same(Used', Used)
  BY <1>1, <1>2, View DEF Same, Sees
<1> QED
  BY <1>3, Ends

LEMMA ReachesAt ==
    ASSUME NEW h \in Handlers, Reaches(h)
    PROVE  handler[h].pc \in {"mintRedis", "mintRow", "refreshRedis", "refreshSet",
                              "refreshInsert", "findRevoked"}
BY DEF Reaches, MintRedis, MintRow, RefreshRedis, RefreshSet, RefreshInsert, FindRevoked, At

LEMMA JudgingSession ==
    ASSUME Serial, Typed, Typed', InStep, NEW h \in Handlers, Judging(h)
    PROVE  SessionStep
<1>1. /\ UNCHANGED <<row, redis>>
      /\ handler[h].pc \in {"readIp", "findUser", "incrUser", "expireUser", "incrIp",
                            "expireIp", "lock"}
  BY DEF Judging, ReadIp, FindUser, IncrUser, ExpireUser, IncrIp, ExpireIp, LockSave, tokens, At
<1>2. ~Reaches(h) /\ ~RefreshRow(h) /\ ~RefreshUser(h)
  BY <1>1, ReachesAt DEF RefreshRow, RefreshUser, At
<1>3. handler[h].pc \notin RenewSteps /\ handler'[h].pc \notin RenewSteps
  BY <1>1, <1>2, Elsewhere DEF RenewSteps
<1>4. CASE LockSave(h)
  <2>1. handler[h].pc # "refreshDrop" /\ handler'[h].pc # "refreshDrop"
    BY <1>3 DEF RenewSteps
  <2>2. Same(Live', Live) /\ Same(Used', Used)
    BY <1>1, <1>3, <2>1, View DEF Same, Sees
  <2> QED
    BY <1>4, <2>2, LockStays, Locks
<1>5. CASE ~LockSave(h)
  BY <1>1, <1>3, <1>5, LockStays, Calm
<1> QED
  BY <1>4, <1>5

LEMMA UpdatingSession ==
    ASSUME Serial, Typed, InStep, NEW h \in Handlers, Updating(h)
    PROVE  SessionStep
<1>1. /\ UNCHANGED <<row, redis>>
      /\ handler[h].pc \in {"changePassword", "changeSave", "resetFind", "resetSave", "fcm",
                            "fcmSave"}
  BY DEF Updating, ChangePassword, ChangeSave, ResetFind, ResetSave, FcmFind, FcmSave, tokens, At
<1>2. ~Reaches(h) /\ ~RefreshRow(h) /\ ~RefreshUser(h) /\ ~LockSave(h)
  BY <1>1, ReachesAt DEF RefreshRow, RefreshUser, LockSave, At
<1>3. handler[h].pc \notin RenewSteps /\ handler'[h].pc \notin RenewSteps
  BY <1>1, <1>2, Elsewhere DEF RenewSteps
<1> QED
  BY <1>1, <1>2, <1>3, LockStays, Calm

LEMMA EndingSession ==
    ASSUME Serial, Typed, Issuance, InStep, InPlace, NEW h \in Handlers, Ending(h)
    PROVE  SessionStep
<1> USE DEF At
<1>d. handler[h] \in Handler /\ Sound(handler[h])
  BY DEF Typed, Sound
<1>k. Knows(handler[h], version, row, client) /\ client \subseteq Pairs
  BY DEF Issuance, Typed, TypeOK
<1>1. handler[h].pc \in {"authenticate", "checkBlacklist", "logout", "logoutRedis",
                         "logoutRevoke", "revokeSession", "sessionRedis", "sessionRevoke",
                         "logoutAll", "revokeAll", "findRevoked", "dropAll"}
  BY DEF Ending, Authenticate, CheckBlacklist, Logout, LogoutRedis, LogoutRevoke,
         RevokeSession, SessionRedis, SessionRevoke, LogoutAll, RevokeAll, FindRevoked, DropAll
<1>2. ~RefreshRow(h) /\ ~RefreshUser(h) /\ ~LockSave(h)
  BY <1>1 DEF RefreshRow, RefreshUser, LockSave
<1>3. handler'[h].pc \notin RenewSteps
  <2>1. CASE FindRevoked(h)
    BY <2>1, FindRevokedMoves DEF RenewSteps
  <2>2. CASE ~FindRevoked(h)
    <3>1. ~Reaches(h)
      BY <1>1, <2>2
         DEF Reaches, MintRedis, MintRow, RefreshRedis, RefreshSet, RefreshInsert
    <3> QED
      BY <1>2, <3>1, Elsewhere
  <2> QED
    BY <2>1, <2>2
<1>4. handler[h].pc \notin RenewSteps
  BY <1>1 DEF RenewSteps
<1>5. user'.locked = user.locked
  BY <1>2, LockStays
<1>6. CASE LogoutRedis(h) \/ LogoutRevoke(h)
  <2>1. handler[h].pair \in Pairs /\ row[handler[h].pair] # "none"
    BY <1>6, <1>d, <1>k, RequestAt
       DEF LogoutRedis, LogoutRevoke, LogoutSteps, Sound, Knows, Issuance, TokensOK, Guarded
  <2>2. \/ redis' = redis \ {handler[h].pair} /\ UNCHANGED row
        \/ row' = [row EXCEPT ![handler[h].pair] = "revoked"] /\ UNCHANGED redis
    BY <1>6 DEF LogoutRedis, LogoutRevoke
  <2> QED
    BY <1>3, <1>4, <1>5, <2>1, <2>2, Dropped
<1>7. CASE SessionRedis(h) \/ SessionRevoke(h)
  <2>1. handler[h].target \in Pairs /\ row[handler[h].target] # "none"
    BY <1>7, <1>d, <1>k, RequestAt
       DEF SessionRedis, SessionRevoke, SessionSteps, Sound, Knows
  <2>2. \/ redis' = redis \ {handler[h].target} /\ UNCHANGED row
        \/ row' = [row EXCEPT ![handler[h].target] = "revoked"] /\ UNCHANGED redis
    BY <1>7 DEF SessionRedis, SessionRevoke
  <2> QED
    BY <1>3, <1>4, <1>5, <2>1, <2>2, Dropped
<1>8. CASE RevokeAll(h)
  <2>1. /\ \A n \in Pairs : row'[n] = IF row[n] = "none" THEN "none" ELSE "revoked"
        /\ UNCHANGED redis
    BY <1>8 DEF RevokeAll
  <2>2. handler[h].pc # "refreshDrop" /\ handler'[h].pc # "refreshDrop"
    BY <1>3, <1>4 DEF RenewSteps
  <2>3. \A n : n \notin Live'
    BY <1>3, <2>1, View DEF Sees
  <2>4. Same(Used', Used)
    BY <2>1, <2>2, View DEF Same, Sees
  <2> QED
    BY <1>5, <2>3, <2>4, EndsAll
<1>9. CASE DropAll(h)
  <2>1. redis' = redis \ handler[h].found /\ UNCHANGED row
    BY <1>9 DEF DropAll
  <2>2. \A n \in handler[h].found : row[n] = "revoked"
    BY <1>9 DEF DropAll, InPlace, Placed
  <2>3. handler[h].pc # "refreshDrop" /\ handler'[h].pc # "refreshDrop"
    BY <1>3, <1>4 DEF RenewSteps
  <2>4. Same(Live', Live) /\ Same(Used', Used)
    BY <1>3, <1>4, <2>1, <2>2, <2>3, View DEF Same, Sees
  <2> QED
    BY <1>5, <2>4, Stutters
<1>10. ASSUME Ending(h), ~LogoutRedis(h), ~LogoutRevoke(h), ~SessionRedis(h),
              ~SessionRevoke(h), ~RevokeAll(h), ~DropAll(h)
       PROVE  UNCHANGED <<row, redis>>
  BY <1>10 DEF Ending, Authenticate, CheckBlacklist, Logout, RevokeSession, LogoutAll,
               FindRevoked, tokens
<1> QED
  BY <1>3, <1>4, <1>5, <1>6, <1>7, <1>8, <1>9, <1>10, Calm

\* The calls of a refresh, where the old session counts as live.
LEMMA RenewingSession ==
    ASSUME Serial, Typed, Issuance, InStep, InPlace, NEW h \in Handlers,
           \/ RefreshRow(h) \/ RefreshUser(h) \/ RefreshSet(h) \/ RefreshInsert(h)
           \/ RefreshDrop(h)
    PROVE  SessionStep
<1> USE DEF At
<1>d. handler[h] \in Handler /\ Sound(handler[h])
  BY DEF Typed, Sound
<1>k. Knows(handler[h], version, row, client) /\ client \subseteq Pairs
  BY DEF Issuance, Typed, TypeOK
<1>p. Placed(handler[h], row, redis)
  BY DEF InPlace
<1>r. handler[h].pc \in RefreshSteps /\ handler[h].request = "refresh"
  BY <1>d, RequestAt
     DEF RefreshRow, RefreshUser, RefreshSet, RefreshInsert, RefreshDrop, RefreshSteps, Sound
<1>n. /\ handler[h].new \in Pairs /\ handler[h].pair \in Pairs
      /\ handler[h].pair \in client /\ handler[h].new \notin client
      /\ handler[h].new # handler[h].pair
  BY <1>d, <1>k, <1>r DEF Sound, Issues, Knows, RefreshSteps
<1>l. user'.locked = user.locked
  BY LockStays DEF Issuing, LockSave, RefreshRow, RefreshUser, RefreshSet, RefreshInsert, RefreshDrop
<1>v. /\ Sees(handler[h], row, redis, Live, Used)
      /\ Sees(handler'[h], row', redis', Live', Used')
  BY View
<1>1. CASE RefreshRow(h)
  <2>1. UNCHANGED <<row, redis>>
    BY <1>1 DEF RefreshRow, tokens
  <2>2. \/ /\ handler'[h].pc = "refreshUser" /\ handler'[h].pair = handler[h].pair
           /\ row[handler[h].pair] = "live"
        \/ handler'[h].pc = "idle"
    BY <1>1, GotoMoves, IdleMoves DEF RefreshRow, Reject, SameData, SameRequest
  <2>3. handler[h].pc = "refreshRow"
    BY <1>1 DEF RefreshRow
  <2>4. row[handler[h].pair] = "live" => handler[h].pair \in redis
    BY <1>p, <2>3 DEF Placed
  <2>5. Same(Live', Live) /\ Same(Used', Used)
    BY <1>n, <1>v, <2>1, <2>2, <2>3, <2>4 DEF Same, Sees, RenewSteps
  <2> QED
    BY <1>l, <2>5, Stutters
<1>2. CASE RefreshUser(h)
  <2>1. UNCHANGED <<row, redis>> /\ handler[h].pc = "refreshUser"
    BY <1>2 DEF RefreshUser, tokens
  <2>2. handler'[h].pc = "refreshSet" /\ handler'[h].pair = handler[h].pair
    BY <1>2, LoadMoves DEF RefreshUser, SameRequest
  <2>3. Same(Live', Live) /\ Same(Used', Used)
    BY <1>v, <2>1, <2>2 DEF Same, Sees, RenewSteps
  <2> QED
    BY <1>l, <2>3, Stutters
<1>3. CASE RefreshSet(h)
  <2>1. /\ handler[h].pc = "refreshSet"
        /\ redis' = redis \cup {handler[h].new}
        /\ UNCHANGED row
    BY <1>3 DEF RefreshSet
  <2>2. handler'[h].pc = "refreshInsert" /\ handler'[h].pair = handler[h].pair
    BY <1>3, GotoMoves DEF RefreshSet, SameData, SameRequest
  <2>3. row[handler[h].new] = "none"
    BY <1>d, <1>k, <1>n, <2>1 DEF Knows, Sound, Inserted
  <2>4. Same(Live', Live) /\ Same(Used', Used)
    BY <1>v, <2>1, <2>2, <2>3 DEF Same, Sees, RenewSteps
  <2> QED
    BY <1>l, <2>4, Stutters
<1>4. CASE RefreshInsert(h)
  <2>1. handler[h].pc = "refreshInsert" /\ UNCHANGED redis
    BY <1>4 DEF RefreshInsert
  <2>2. /\ row'[handler[h].new] = "live"
        /\ \A n \in Pairs \ {handler[h].new} : row'[n] = row[n]
    BY <1>4, <1>n DEF RefreshInsert, Typed, TypeOK
  <2>3. /\ handler'[h].pc = "refreshDrop"
        /\ handler'[h].pair = handler[h].pair
        /\ handler'[h].new = handler[h].new
    BY <1>4, GotoMoves DEF RefreshInsert, SameData, SameRequest
  <2>4. row[handler[h].new] = "none"
    BY <1>d, <1>k, <1>n, <2>1 DEF Knows, Sound, Inserted
  <2>5. Same(Live', Live) /\ Same(Used', Used)
    BY <1>n, <1>v, <2>1, <2>2, <2>3, <2>4 DEF Same, Sees, RenewSteps
  <2> QED
    BY <1>l, <2>5, Stutters
<1>5. CASE RefreshDrop(h)
  <2>1. /\ handler[h].pc = "refreshDrop"
        /\ redis' = redis \ {handler[h].pair}
        /\ UNCHANGED row
    BY <1>5 DEF RefreshDrop
  <2>2. handler'[h].pc = "refreshRevoke"
    BY <1>5, GotoMoves DEF RefreshDrop
  <2>3. handler[h].new \in redis /\ row[handler[h].new] = "live"
    BY <1>p, <2>1 DEF Placed
  <2>4. /\ handler[h].pair \in Live
        /\ handler[h].new \notin Used
        /\ Same(Live', (Live \ {handler[h].pair}) \cup {handler[h].new})
        /\ Same(Used', Used \cup {handler[h].new})
    BY <1>n, <1>v, <2>1, <2>2, <2>3 DEF Same, Sees, RenewSteps
  <2> QED
    BY <1>l, <1>n, <2>4, Renews
<1> QED
  BY <1>1, <1>2, <1>3, <1>4, <1>5

LEMMA IssuingSession ==
    ASSUME Serial, Typed, Issuance, InStep, InPlace, NEW h \in Handlers, Issuing(h)
    PROVE  SessionStep
<1> USE DEF At
<1>d. handler[h] \in Handler /\ Sound(handler[h])
  BY DEF Typed, Sound
<1>k. Knows(handler[h], version, row, client) /\ client \subseteq Pairs
  BY DEF Issuance, Typed, TypeOK
<1>p. Placed(handler[h], row, redis)
  BY DEF InPlace
<1>v. /\ Sees(handler[h], row, redis, Live, Used)
      /\ Sees(handler'[h], row', redis', Live', Used')
  BY View
<1>l. user'.locked = user.locked
  <2>1. ~LockSave(h)
    BY DEF Issuing, LockSave, ClearUser, ClearIp, SaveUser, MintRedis, MintRow, MintRedisAgain,
           RefreshRedis, RefreshRow, RefreshUser, RefreshSet, RefreshInsert, RefreshDrop,
           RefreshRevoke
  <2> QED
    BY <2>1, LockStays
<1>1. CASE ClearUser(h) \/ ClearIp(h) \/ SaveUser(h) \/ RefreshRedis(h)
  <2>1. /\ UNCHANGED <<row, redis>>
        /\ handler[h].pc \in {"clearUser", "clearIp", "saveUser", "refreshRedis"}
    BY <1>1 DEF ClearUser, ClearIp, SaveUser, RefreshRedis, tokens
  <2>2. handler'[h].pc \in {"clearIp", "saveUser", "mintRedis", "refreshRow", "idle"}
    BY <1>1, GotoMoves, IdleMoves DEF ClearUser, ClearIp, SaveUser, RefreshRedis, Reject
  <2> QED
    BY <1>l, <2>1, <2>2, Calm DEF RenewSteps
<1>2. CASE MintRedis(h)
  <2>1. /\ handler[h].pc = "mintRedis"
        /\ redis' = redis \cup {handler[h].new}
        /\ UNCHANGED row
    BY <1>2 DEF MintRedis
  <2>2. handler'[h].pc = "mintRow"
    BY <1>2, GotoMoves DEF MintRedis
  <2>3. row[handler[h].new] = "none"
    BY <1>d, <1>k, <2>1, RequestAt DEF Knows, Sound, Issues, Inserted, SignInSteps
  <2>4. Same(Live', Live) /\ Same(Used', Used)
    BY <1>v, <2>1, <2>2, <2>3 DEF Same, Sees, RenewSteps
  <2> QED
    BY <1>l, <2>4, Stutters
<1>3. CASE MintRow(h)
  <2>1. handler[h].pc = "mintRow" /\ UNCHANGED redis
    BY <1>3 DEF MintRow
  <2>2. handler[h].new \in Pairs /\ row[handler[h].new] = "none"
    BY <1>d, <1>k, <2>1, RequestAt DEF Knows, Sound, Issues, Inserted, SignInSteps
  <2>3. /\ row'[handler[h].new] = "live"
        /\ \A n \in Pairs \ {handler[h].new} : row'[n] = row[n]
    BY <1>3, <2>2 DEF MintRow, Typed, TypeOK
  <2>4. handler'[h].pc = "mintRedisAgain"
    BY <1>3, GotoMoves DEF MintRow
  <2>5. handler[h].new \in redis
    BY <1>p, <2>1 DEF Placed
  <2>6. ~user.locked
    BY <2>1 DEF InStep, Fits, FoundOpen
  <2>7. /\ handler[h].new \notin Used
        /\ Same(Live', Live \cup {handler[h].new})
        /\ Same(Used', Used \cup {handler[h].new})
    BY <1>v, <2>1, <2>2, <2>3, <2>4, <2>5 DEF Same, Sees, RenewSteps
  <2> QED
    BY <1>l, <2>2, <2>6, <2>7, Begins
<1>4. CASE MintRedisAgain(h)
  <2>1. /\ handler[h].pc = "mintRedisAgain"
        /\ redis' = redis \cup {handler[h].new}
        /\ UNCHANGED row
    BY <1>4 DEF MintRedisAgain
  <2>2. handler'[h].pc = "idle"
    BY <1>4, AnswerEnds DEF MintRedisAgain
  <2>3. redis' = redis
    BY <1>p, <2>1 DEF Placed
  <2> QED
    BY <1>l, <2>1, <2>2, <2>3, Calm DEF RenewSteps
<1>5. CASE RefreshRevoke(h)
  <2>1. /\ handler[h].pc = "refreshRevoke"
        /\ row' = [row EXCEPT ![handler[h].pair] = "revoked"]
        /\ UNCHANGED redis
    BY <1>5 DEF RefreshRevoke
  <2>2. handler'[h].pc = "idle"
    BY <1>5, AnswerEnds DEF RefreshRevoke
  <2>3. handler[h].pair \in Pairs /\ row[handler[h].pair] # "none"
    BY <1>d, <1>k, <2>1, RequestAt DEF Sound, Knows, Issuance, TokensOK, RefreshSteps
  <2> QED
    BY <1>l, <2>1, <2>2, <2>3, Dropped DEF RenewSteps
<1>6. CASE RefreshRow(h) \/ RefreshUser(h) \/ RefreshSet(h) \/ RefreshInsert(h) \/ RefreshDrop(h)
  BY <1>6, RenewingSession
<1> QED
  BY <1>1, <1>2, <1>3, <1>4, <1>5, <1>6 DEF Issuing

\* A fault in the middle of a refresh: the new session may stand beside the
\* old one, or take its place when the old one had expired meanwhile.
LEMMA FaultSession ==
    ASSUME Serial, Typed, Issuance, InPlace, NEW h \in Handlers, faults < MaxFaults,
           handler'[h].pc \notin RenewSteps, UNCHANGED <<user, row, redis>>
    PROVE  SessionStep
<1> USE AccountAssumption
<1>d. Sound(handler[h]) /\ Knows(handler[h], version, row, client) /\ client \subseteq Pairs
  BY DEF Typed, TypeOK, Issuance
<1>v. /\ Sees(handler[h], row, redis, Live, Used)
      /\ Sees(handler'[h], row', redis', Live', Used')
  BY View
<1>1. CASE handler[h].pc \notin RenewSteps
  BY <1>1, Calm
<1>2. CASE handler[h].pc \in RenewSteps
  <2>1. /\ handler[h].new \in Pairs /\ handler[h].pair \in Pairs
        /\ handler[h].new # handler[h].pair
    BY <1>2, <1>d, RequestAt DEF Sound, Issues, Knows, RenewSteps, RefreshSteps
  <2>2. CASE handler[h].pc = "refreshDrop"
    <3>1. handler[h].new \in redis /\ row[handler[h].new] = "live"
      BY <2>2 DEF InPlace, Placed
    <3>2. handler'[h].pc # "refreshDrop"
      BY DEF RenewSteps
    <3>3. /\ handler[h].pair \in Live
          /\ handler[h].new \notin Used
          /\ Same(Used', Used \cup {handler[h].new})
      BY <1>v, <2>1, <2>2, <3>1, <3>2 DEF Same, Sees, RenewSteps
    <3>4. CASE RefreshAccepted(handler[h].pair)
      <4>1. MaxFaults > 0
        BY DEF Typed, TypeOK
      <4>2. Same(Live', Live \cup {handler[h].new})
        BY <1>v, <2>1, <2>2, <3>1, <3>2, <3>4 DEF Same, Sees, RenewSteps, RefreshAccepted
      <4> QED
        BY <2>1, <3>3, <4>1, <4>2, Begins
    <3>5. CASE ~RefreshAccepted(handler[h].pair)
      <4>1. Same(Live', (Live \ {handler[h].pair}) \cup {handler[h].new})
        BY <1>v, <2>1, <2>2, <3>1, <3>2, <3>5 DEF Same, Sees, RenewSteps, RefreshAccepted
      <4> QED
        BY <2>1, <3>3, <4>1, Renews
    <3> QED
      BY <3>4, <3>5
  <2>3. CASE handler[h].pc # "refreshDrop"
    <3>1. handler'[h].pc # "refreshDrop"
      BY DEF RenewSteps
    <3>2. Same(Used', Used)
      BY <1>v, <2>3, <3>1 DEF Same, Sees
    <3>3. CASE RefreshAccepted(handler[h].pair)
      <4>1. Same(Live', Live)
        BY <1>v, <1>2, <2>1, <2>3, <3>1, <3>3 DEF Same, Sees, RefreshAccepted
      <4> QED
        BY <3>2, <4>1, Stutters
    <3>4. CASE ~RefreshAccepted(handler[h].pair)
      <4>1. Same(Live', Live \ {handler[h].pair})
        BY <1>v, <1>2, <2>1, <2>3, <3>1, <3>4 DEF Same, Sees, RefreshAccepted
      <4> QED
        BY <2>1, <3>2, <4>1, Ends
    <3> QED
      BY <3>3, <3>4
  <2> QED
    BY <2>2, <2>3
<1> QED
  BY <1>1, <1>2

\* Tokens and locks that expire, whatever request is in flight.
LEMMA PassingSession ==
    ASSUME Serial, Typed, Typed', Issuance, NEW h \in Handlers, Passing
    PROVE  SessionStep
<1>v. /\ Sees(handler[h], row, redis, Live, Used)
      /\ Sees(handler'[h], row', redis', Live', Used')
  BY View
<1>1. ASSUME NEW n \in Pairs, ExpireRefresh(n)
      PROVE  SessionStep
  <2>1. /\ n \in client /\ row[n] = "live"
        /\ row'[n] = "expired" /\ \A m \in Pairs \ {n} : row'[m] = row[m]
        /\ redis' = redis \ {n}
        /\ UNCHANGED <<handler, user>>
    BY <1>1 DEF ExpireRefresh, Typed, TypeOK
  <2>2. Knows(handler[h], version, row, client) /\ Sound(handler[h])
    BY DEF Issuance, Typed
  <2>3. handler[h].pc = "refreshDrop" => handler[h].new # n
    BY <2>1, <2>2, RequestAt DEF Knows, Sound, Issues, RefreshSteps
  <2>4. Same(Used', Used)
    BY <1>v, <2>1, <2>3 DEF Same, Sees
  <2>5. CASE handler[h].pc \in RenewSteps /\ handler[h].pair = n
    <3>1. Same(Live', Live)
      BY <1>v, <2>1, <2>3, <2>5 DEF Same, Sees
    <3> QED
      BY <2>1, <2>4, <3>1, Stutters
  <2>6. CASE ~(handler[h].pc \in RenewSteps /\ handler[h].pair = n)
    <3>1. Same(Live', Live \ {n})
      BY <1>v, <2>1, <2>3, <2>6 DEF Same, Sees
    <3> QED
      BY <2>1, <2>4, <3>1, Ends
  <2> QED
    BY <2>5, <2>6
<1>2. ASSUME UNCHANGED <<row, redis, handler, user>>
      PROVE  SessionStep
  <2>1. Same(Live', Live) /\ Same(Used', Used)
    BY <1>2, <1>v DEF Same, Sees
  <2> QED
    BY <1>2, <2>1, Stutters
<1>3. CASE \E n \in Pairs : ExpireAccess(n)
  BY <1>2, <1>3 DEF ExpireAccess
<1>4. CASE \E k \in Counters : CounterExpires(k)
  BY <1>2, <1>4 DEF CounterExpires, tokens
<1>5. CASE LockExpires
  <2>1. UNCHANGED <<row, redis>> /\ user.locked /\ ~user'.locked
    BY <1>5 DEF LockExpires, tokens, Typed, TypeOK, User
  <2>2. handler'[h].pc = handler[h].pc /\ SameRequest(handler[h], handler'[h])
    BY <1>5, UnlockMoves
  <2>3. Same(Live', Live) /\ Same(Used', Used)
    BY <1>v, <2>1, <2>2 DEF Same, Sees, SameRequest
  <2> QED
    BY <2>1, <2>3, Locks
<1> QED
  BY <1>1, <1>3, <1>4, <1>5 DEF Passing

LEMMA StepSession ==
    ASSUME Serial, Handlers # {}, Typed, Typed', Issuance, InStep, InPlace, Next
    PROVE  SessionStep
<1>1. ASSUME NEW h \in Handlers, Judging(h) \/ Issuing(h) \/ Ending(h) \/ Updating(h)
      PROVE  SessionStep
  BY <1>1, JudgingSession, IssuingSession, EndingSession, UpdatingSession
<1>2. ASSUME NEW h \in Handlers, Arrival(h)
      PROVE  SessionStep
  <2>1. /\ UNCHANGED <<user, row, redis>>
        /\ handler[h].pc = "idle"
        /\ handler'[h].pc \in {"readIp", "refreshRedis", "resetFind", "authenticate"}
    BY <1>2, ArrivalMoves DEF tokens
  <2> QED
    BY <2>1, Calm DEF RenewSteps
<1>3. ASSUME NEW h \in Handlers, CallFails(h)
      PROVE  SessionStep
  <2>1. handler'[h].pc \in {"logoutRedis", "idle"}
    BY <1>3, GotoMoves, IdleMoves DEF CallFails, Reject
  <2> QED
    BY <1>3, <2>1, FaultSession DEF CallFails, tokens, RenewSteps
<1>4. CASE Restart
  <2>1. PICK h \in Handlers : TRUE
    OBVIOUS
  <2>2. handler'[h].pc = "idle"
    BY <1>4, IdleSound DEF Restart
  <2> QED
    BY <1>4, <2>2, FaultSession DEF Restart, tokens, RenewSteps
<1>5. CASE Passing
  BY <1>5, PassingSession
<1> QED
  BY <1>1, <1>2, <1>3, <1>4, <1>5 DEF Next

LEMMA InitSession == ASSUME Init PROVE Sessions!Init
<1>1. Renewed = {} /\ Renewal = {}
  BY IdleSound DEF Init, Renewed, Renewal, At
<1> QED
  BY <1>1 DEF Init, Sessions!Init, RefreshAccepted, Idle

\* A refresh is one step, whatever is written in which order: the new session
\* takes the place of the old one, and no session begins on a locked account.
\* A fault may leave both, and nothing else.
THEOREM SessionsRefined == ASSUME Serial, Handlers # {} PROVE Spec => ImplementsSessions
<1>1. Init => Sessions!Init
  BY InitSession
<1>2. Typed /\ Typed' /\ Issuance /\ InStep /\ InPlace /\ [Next]_vars => SessionStep
  <2>1. CASE UNCHANGED vars
    <3>1. UNCHANGED <<user, row, redis, handler>>
      BY <2>1 DEF vars, tokens
    <3>2. Live' = Live /\ Used' = Used
      BY <3>1 DEF Live, Used, RefreshAccepted, Renewed, Renewal, At
    <3> QED
      BY <3>1, <3>2 DEF SessionStep
  <2> QED
    BY <2>1, StepSession
<1>3. SessionStep <=> [Sessions!Next]_<<Live, Used, user.locked>>
  BY DEF SessionStep
<1> QED
  BY <1>1, <1>2, TypedAlways, IssuanceAlways, InStepAlways, InPlaceAlways, PTL
     DEF Spec, ImplementsSessions, Sessions!Spec, SessionStep, Live, Used
=============================================================================
